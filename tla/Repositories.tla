---------------------------- MODULE Repositories ----------------------------
(* The repositories of one organization's products: the bulk import, the     *)
(* linking of a single repository, the plain create endpoint, the refresh of *)
(* the stored metadata from GitHub (one repository or all of a product), the *)
(* renaming of a row when a commit list is redirected, the deletion, and the *)
(* usage reported for metered billing.                                       *)
(* (src/app/api/v1/github.py, src/app/api/v1/repositories.py,                *)
(* src/app/domain/repository_operations.py,                                  *)
(* src/app/services/github/read_operations.py, cache.py)                     *)
(*                                                                           *)
(* Requests overlap: each keeps what it read before its calls to GitHub.     *)
(* GitHub renames, changes and deletes repositories meanwhile.  A name once  *)
(* left redirects (301) to the repository that had it; nobody else takes it. *)
(* get_repo_details keeps its answers for ten minutes, per name.             *)
EXTENDS Integers, FiniteSets, FiniteSetsExt

CONSTANTS Products,    \* products of the organization
          Gids,        \* repositories on GitHub
          Names,       \* owner/name pairs
          Requests,    \* overlapping requests
          BaseLimit,   \* repositories included in the plan
          MaxRows,     \* bound: rows ever created
          MaxRenames,  \* bound: names ever left
          MaxMeta,     \* bound: changes of a repository's metadata
          NoGid, NoName, NoProduct

VARIABLES names,   \* names[g]: the name of g on GitHub now, NoName once deleted
          meta,    \* meta[g]: the version of its metadata on GitHub
          left,    \* left[n]: the repository that gave up the name n
          cache,   \* cache[n]: the kept answers about the name n (none or one)
          rows,    \* the table: set of [id, product, gid, name, meta]
          lastId,
          call,    \* call[r]: a request in flight
          billed,  \* the repository count last reported to the billing service
          strayed  \* why counts or rows may be off: "overlap", "create", "lost"

gh == <<names, meta, left>>
vars == <<names, meta, left, cache, rows, lastId, call, billed, strayed>>

Row == [id: 1..MaxRows, product: Products, gid: Gids, name: Names, meta: 0..MaxMeta]
Idle == [op |-> "idle", product |-> NoProduct, todo |-> {}, count |-> 0,
         made |-> {}, calm |-> TRUE]
Renamings == Cardinality({n \in Names : left[n] # NoGid})

(* the row of this repository in the product, as get_by_github_id finds it *)
Found(known, p, g) == {w \in known : w.product = p /\ w.gid = g}

(* get_repo_details: the kept answer, or what GitHub says of the name now;   *)
(* a redirect is an error like any other (status 301)                        *)
Fresh(n) == {[gid |-> g, name |-> n, meta |-> meta[g]] : g \in {h \in Gids : names[h] = n}}
Details(n) == IF cache[n] # {} THEN cache[n] ELSE Fresh(n)
Kept(n) == [cache EXCEPT ![n] = Details(n)]

(* usage is reported only above the included number, when adding ... *)
\* Wrong variant: the first repository above the limit is not reported.
AddReport_Late(count) == IF count > BaseLimit + 1 THEN count ELSE billed
AddReport(count) == IF count > BaseLimit THEN count ELSE billed
(* ... and down to it, when removing *)
DropReport(count) == IF count >= BaseLimit THEN count ELSE billed

Of(d, p) == [product |-> p, gid |-> d.gid, name |-> d.name, meta |-> d.meta]
Writing(r) == call[r].op \in {"import", "linking", "link", "create"}
Crowd(r) == IF \E q \in Requests \ {r} : Writing(q) THEN {"overlap"} ELSE {}
(* a refresh in flight has seen an older state *)
Disturbed == [q \in Requests |->
                IF call[q].op = "refresh" THEN [call[q] EXCEPT !.calm = FALSE] ELSE call[q]]

Init == /\ names = CHOOSE f \in [Gids -> Names] : IsInjective(f)
        /\ meta = [g \in Gids |-> 0]
        /\ left = [n \in Names |-> NoGid] /\ cache = [n \in Names |-> {}]
        /\ rows = {} /\ lastId = 0
        /\ call = [r \in Requests |-> Idle]
        /\ billed = 0 /\ strayed = {}

(* ---- POST /github/import: the count is read once, before the calls ---- *)
ImportBegin(r, p, gs) ==
  /\ call[r].op = "idle" /\ gs # {}
  /\ call' = [call EXCEPT ![r] = [Idle EXCEPT !.op = "import", !.product = p,
                !.todo = gs, !.count = Cardinality(rows)]]
  /\ strayed' = strayed \cup Crowd(r)
  /\ UNCHANGED <<gh, cache, rows, lastId, billed>>

(* one repository: skipped when this product has it or GitHub does not tell *)
\* Wrong variant: the import does not look before it creates.
NewToProduct_Unchecked(r, g) == g \in Gids
NewToProduct(r, g) == Found(rows \cup call[r].made, call[r].product, g) = {}

ImportItem(r, g) ==
  /\ call[r].op = "import" /\ g \in call[r].todo
  /\ Cardinality(Found(rows, call[r].product, g)) <= 1
  /\ \/ /\ NewToProduct(r, g) /\ names[g] # NoName
        /\ lastId + Cardinality(call[r].made) < MaxRows
        /\ cache' = Kept(names[g])
        /\ \E d \in Details(names[g]) :
             call' = [call EXCEPT ![r].todo = @ \ {g},
                        ![r].made = @ \cup {Of(d, call[r].product)}]
     \/ /\ call' = [call EXCEPT ![r].todo = @ \ {g}]
        /\ UNCHANGED cache
  /\ UNCHANGED <<gh, rows, lastId, billed, strayed>>

(* two rows of one repository: scalar_one_or_none raises, nothing is stored *)
ImportRaises(r, g) ==
  /\ call[r].op = "import" /\ g \in call[r].todo
  /\ Cardinality(Found(rows, call[r].product, g)) > 1
  /\ call' = [call EXCEPT ![r] = Idle]
  /\ UNCHANGED <<gh, cache, rows, lastId, billed, strayed>>

Stored(r) == LET ids == CHOOSE f \in [call[r].made -> lastId+1..lastId+Cardinality(call[r].made)] :
                          IsInjective(f)
             IN {[id |-> ids[w], product |-> w.product, gid |-> w.gid,
                  name |-> w.name, meta |-> w.meta] :
                   w \in call[r].made}

(* the rows are committed, then the usage is reported from the count read at *)
(* the start; a crash between the two loses the report                       *)
Commit(r) ==
  /\ call[r].op \in {"import", "link", "create"} /\ call[r].todo = {}
  /\ lastId + Cardinality(call[r].made) <= MaxRows
  /\ rows' = rows \cup Stored(r)
  /\ lastId' = lastId + Cardinality(call[r].made)
  /\ call' = [Disturbed EXCEPT ![r] = Idle]
  /\ UNCHANGED <<gh, cache>>

ImportCommit(r) ==
  /\ call[r].op = "import" /\ call[r].made # {}
  /\ Commit(r)
  /\ billed' = AddReport(call[r].count + Cardinality(call[r].made))
  /\ UNCHANGED strayed

ImportNothing(r) ==
  /\ call[r].op = "import" /\ call[r].todo = {} /\ call[r].made = {}
  /\ call' = [call EXCEPT ![r] = Idle]
  /\ UNCHANGED <<gh, cache, rows, lastId, billed, strayed>>

CrashAfterCommit(r) ==
  /\ call[r].op \in {"import", "link"} /\ call[r].made # {}
  /\ Commit(r)
  /\ strayed' = strayed \cup {"lost"}
  /\ UNCHANGED billed

(* ---- POST /github/link-repo ---- *)
LinkBegin(r, p) ==
  /\ call[r].op = "idle"
  /\ call' = [call EXCEPT ![r] = [Idle EXCEPT !.op = "linking", !.product = p,
                                              !.count = Cardinality(rows)]]
  /\ strayed' = strayed \cup Crowd(r)
  /\ UNCHANGED <<gh, cache, rows, lastId, billed>>

(* GitHub has answered: 400 when it knows no such name, 409 for a duplicate; *)
(* the insert follows in the same transaction.  Without a token the answer   *)
(* is not kept.                                                              *)
LinkFetched(r, n) ==
  /\ call[r].op = "linking"
  /\ \/ cache' = Kept(n) \/ UNCHANGED cache
  /\ \/ \E d \in Details(n) \cup Fresh(n) :
          /\ Found(rows, call[r].product, d.gid) = {} /\ lastId < MaxRows
          /\ call' = [call EXCEPT ![r].op = "link",
                                  ![r].made = {Of(d, call[r].product)}]
     \/ call' = [call EXCEPT ![r] = Idle]
  /\ UNCHANGED <<gh, rows, lastId, billed, strayed>>

LinkCommit(r) ==
  /\ call[r].op = "link"
  /\ Commit(r)
  /\ billed' = AddReport(call[r].count + 1)
  /\ UNCHANGED strayed

(* ---- POST /repositories: the caller names the GitHub id, nobody looks ---- *)
CreateBegin(r, p, g) ==
  /\ call[r].op = "idle" /\ lastId < MaxRows
  /\ names[g] # NoName
  /\ call' = [call EXCEPT ![r] = [Idle EXCEPT !.op = "create", !.product = p,
                !.count = Cardinality(rows),
                !.made = {Of([gid |-> g, name |-> names[g], meta |-> meta[g]], p)}]]
  /\ strayed' = strayed \cup Crowd(r) \cup
       (IF Found(rows, p, g) # {} THEN {"create"} ELSE {})
  /\ UNCHANGED <<gh, cache, rows, lastId, billed>>

CreateCommit(r) ==
  /\ call[r].op = "create"
  /\ Commit(r)
  /\ billed' = AddReport(call[r].count + 1)
  /\ UNCHANGED strayed

(* ---- POST /github/refresh/{id} and /github/refresh-all ---- *)
RefreshBegin(r, ws) ==
  /\ call[r].op = "idle" /\ ws # {}
  /\ call' = [call EXCEPT ![r] = [Idle EXCEPT !.op = "refresh", !.todo = ws,
                !.calm = \A w \in ws : cache[w.name] = {}]]
  /\ UNCHANGED <<gh, cache, rows, lastId, billed, strayed>>

(* the row takes everything but the GitHub id from the answer; a repository *)
(* GitHub gives no answer about is only listed as failed                    *)
\* Wrong variant: only the name is taken from the answer.
Updated_NameOnly(w, d) == [w EXCEPT !.name = d.name]
Updated(w, d) == [w EXCEPT !.name = d.name, !.meta = d.meta]

RefreshItem(r, w) ==
  /\ call[r].op = "refresh" /\ w \in call[r].todo
  /\ cache' = Kept(w.name)
  /\ call' = [call EXCEPT ![r].todo = @ \ {w},
       ![r].made = @ \cup {Updated(w, d) : d \in Details(w.name)}]
  /\ UNCHANGED <<gh, rows, lastId, billed, strayed>>

(* every update goes in one transaction; a row deleted meanwhile makes the *)
(* update match no row and the whole refresh is rolled back                *)
Refreshed(r) ==
  IF \A w \in call[r].made : \E v \in rows : v.id = w.id
  THEN {v \in rows : \A w \in call[r].made : w.id # v.id} \cup call[r].made
  ELSE rows

RefreshCommit(r) ==
  /\ call[r].op = "refresh" /\ call[r].todo = {}
  /\ rows' = Refreshed(r)
  /\ call' = [Disturbed EXCEPT ![r] = Idle]
  /\ UNCHANGED <<gh, cache, lastId, billed, strayed>>

(* ---- DELETE /repositories/{id} ---- *)
DeleteRow(w) ==
  /\ w \in rows
  /\ rows' = rows \ {w}
  /\ billed' = DropReport(Cardinality(rows) - 1)
  /\ call' = Disturbed
  /\ strayed' = strayed \cup
       (IF \E q \in Requests : Writing(q) THEN {"overlap"} ELSE {})
  /\ UNCHANGED <<gh, cache, lastId>>

(* a product's rows go with it, and nothing is reported *)
DeleteProduct(p) ==
  /\ \E w \in rows : w.product = p
  /\ \A q \in Requests : call[q].product # p /\ call[q].op # "refresh"
  /\ rows' = {w \in rows : w.product # p}
  /\ strayed' = strayed \cup {"lost"}
  /\ UNCHANGED <<gh, cache, lastId, call, billed>>

(* ---- GET /timeline, the progress pages, the documentation generator: a    *)
(* redirected commit list makes handle_repo_rename store the new name        *)
FollowRename(w) ==
  /\ w \in rows
  /\ \A g \in Gids : names[g] # w.name
  /\ left[w.name] # NoGid /\ names[left[w.name]] # NoName
  /\ rows' = (rows \ {w}) \cup {[w EXCEPT !.name = names[left[w.name]]]}
  /\ call' = Disturbed
  /\ UNCHANGED <<gh, cache, lastId, billed, strayed>>

(* ---- GitHub, and the passing of ten minutes ---- *)
Rename(g, n) ==
  /\ names[g] \notin {NoName, n} /\ Renamings < MaxRenames
  /\ \A h \in Gids : names[h] # n
  /\ left[n] \in {NoGid, g}
  /\ names' = [names EXCEPT ![g] = n]
  /\ left' = [left EXCEPT ![names[g]] = g]
  /\ call' = Disturbed
  /\ UNCHANGED <<meta, cache, rows, lastId, billed, strayed>>

Vanish(g) ==
  /\ names[g] # NoName /\ Renamings < MaxRenames
  /\ names' = [names EXCEPT ![g] = NoName]
  /\ left' = [left EXCEPT ![names[g]] = g]
  /\ call' = Disturbed
  /\ UNCHANGED <<meta, cache, rows, lastId, billed, strayed>>

Change(g) ==
  /\ names[g] # NoName /\ meta[g] < MaxMeta
  /\ meta' = [meta EXCEPT ![g] = @ + 1]
  /\ call' = Disturbed
  /\ UNCHANGED <<names, left, cache, rows, lastId, billed, strayed>>

Expire(n) ==
  /\ cache[n] # {}
  /\ cache' = [cache EXCEPT ![n] = {}]
  /\ UNCHANGED <<gh, rows, lastId, call, billed, strayed>>

Next ==
  \/ \E r \in Requests : \/ ImportCommit(r) \/ ImportNothing(r) \/ CrashAfterCommit(r)
                         \/ LinkCommit(r) \/ CreateCommit(r) \/ RefreshCommit(r)
  \/ \E r \in Requests, p \in Products : \/ LinkBegin(r, p)
                                         \/ \E gs \in SUBSET Gids : ImportBegin(r, p, gs)
  \/ \E r \in Requests, g \in Gids : \/ ImportItem(r, g) \/ ImportRaises(r, g)
  \/ \E r \in Requests, p \in Products, g \in Gids : CreateBegin(r, p, g)
  \/ \E r \in Requests, n \in Names : LinkFetched(r, n)
  \/ \E r \in Requests : \E w \in rows : RefreshBegin(r, {w})
  \/ \E r \in Requests, p \in Products :
       RefreshBegin(r, {w \in rows : w.product = p})
  \/ \E r \in Requests : \E w \in call[r].todo : RefreshItem(r, w)
  \/ \E w \in rows : DeleteRow(w)
  \/ \E p \in Products : DeleteProduct(p)
  \/ \E w \in rows : FollowRename(w)
  \/ \E n \in Names : Expire(n)
  \/ \E g \in Gids : Vanish(g) \/ Change(g) \/ \E n \in Names : Rename(g, n)

Spec == Init /\ [][Next]_vars

-----------------------------------------------------------------------------
TypeOK ==
  /\ names \in [Gids -> Names \cup {NoName}] /\ left \in [Names -> Gids \cup {NoGid}]
  /\ meta \in [Gids -> 0..MaxMeta]
  /\ rows \subseteq Row /\ lastId \in 0..MaxRows /\ billed \in 0..2*MaxRows
  /\ \A w, v \in rows : w.id = v.id => w = v
  /\ \A r \in Requests : /\ call[r].op \in {"idle", "import", "linking", "link", "create", "refresh"}
                         /\ call[r].op = "idle" => call[r].product = NoProduct
  /\ strayed \subseteq {"overlap", "create", "lost"}

(* A product holds a GitHub repository twice only when two requests that add *)
(* repositories overlapped or the plain create endpoint was used for one it  *)
(* already had: the checks of import and link-repo suffice when they run     *)
(* alone, also against each other and across renames.                        *)
TwinsNeedAnOverlap ==
  (\E w, v \in rows : w # v /\ w.product = v.product /\ w.gid = v.gid)
    => strayed \cap {"overlap", "create"} # {}

(* What the import says, and overlapping requests break: a product has a     *)
(* GitHub repository once, "Skips repos already imported to the same         *)
(* product".                                                                 *)
OneRowPerRepository ==
  \A w, v \in rows : w.product = v.product /\ w.gid = v.gid => w = v

(* Once nothing is in flight, and no additions overlapped and no report was  *)
(* lost with a crash or a deleted product, the overage last reported is the  *)
(* overage there is, however repositories were added and removed.            *)
Overage(count) == Max({0, count - BaseLimit})
CalmOverageIsBilled ==
  (strayed \cap {"overlap", "lost"} = {} /\ \A r \in Requests : call[r].op = "idle")
    => Overage(billed) = Overage(Cardinality(rows))

(* A refresh that nothing disturbed, neither GitHub nor another request, and *)
(* that found no kept answer leaves every row it wrote with the metadata its *)
(* own repository has on GitHub now.                                         *)
CurrentAfter(r) ==
  call[r].calm /\ RefreshCommit(r) =>
    \A w \in rows' : (\E v \in call[r].made : v.id = w.id) => w.meta = meta[w.gid]
CalmRefreshIsCurrent == [][\A r \in Requests : CurrentAfter(r)]_vars

(* What the refresh's code and its test say: "Repository was renamed -       *)
(* resolve new name and fetch fresh data", "Refresh resolves renamed repos   *)
(* by fetching the new name".  An undisturbed refresh gives every existing   *)
(* repository the name it has now, and lists none of them as failed.         *)
Followed(r, w) ==
  (call[r].calm /\ RefreshItem(r, w) /\ names[w.gid] # NoName)
    => \E v \in call'[r].made : v.id = w.id /\ v.name = names[w.gid]
RefreshFollowsRename == [][\A r \in Requests : \A w \in call[r].todo : Followed(r, w)]_vars
=============================================================================
