------------------------------ MODULE DocsSync ------------------------------
(***************************************************************************)
(* Documents of ONE product and the GitHub repository they are kept in     *)
(* sync with: editing, moving, refreshing and deleting documents, and the  *)
(* requests import, pull and push (DocsSyncService), each of which works   *)
(* in a database session of its own across many calls of the GitHub API.   *)
(*                                                                         *)
(* A text stands for its blob SHA (Git computes one from the other).       *)
(***************************************************************************)
EXTENDS Naturals, FiniteSets

CONSTANTS
    Docs,       \* identities of document rows
    Paths,      \* files a document may be kept in
    Requests,   \* import, pull, push and refresh requests in flight
    MaxClock,   \* bound: local edits plus commits to the repository
    NoPath      \* a NULL github_path

\* The table of documents is finite, and the first commit fits the bound.
ASSUME SyncConstants == NoPath \notin Paths /\ IsFiniteSet(Docs) /\ MaxClock \in Nat \ {0}

VARIABLES
    rows,         \* the documents table
    files,        \* the branches: the text of each file
    head,         \* the branches: their last commit, 0 if there is none
    clock,        \* numbers texts and commits
    req,          \* requests in flight
    config,       \* the repository's sync_enabled and sync_branch
    edited,       \* history: changed here since the last write of a sync
    calm          \* history: nothing has happened while a request was running

vars == <<rows, files, head, clock, req, config, edited, calm>>

Branches == {"main", "sync"}
Empty == 0                      \* no content, no file, no SHA
Texts == 0 .. MaxClock

Row == [live: BOOLEAN, text: Texts, name: Paths \union {NoPath},
        path: Paths \union {NoPath}, sha: Texts, status: {"none", "synced", "local_changes"}, linked: BOOLEAN]

NoRow == [live |-> FALSE, text |-> Empty, name |-> NoPath, path |-> NoPath,
          sha |-> Empty, status |-> "none", linked |-> FALSE]

Live == {d \in Docs : rows[d].live}
Idle == [op |-> "none"]
Running == {r \in Requests : req[r] # Idle}
Done(r) == [req EXCEPT ![r] = Idle]
target == config.branch

\* Identities are never used again while a request still holds the row.
Held(q) == CASE q.op = "none" -> {}
             [] q.op \in {"pull", "refresh"} -> {q.doc}
             [] q.op = "import" -> {c.doc : c \in q.out}
             [] q.op = "push" -> DOMAIN q.copy
Free == Docs \ (Live \union UNION {Held(req[r]) : r \in Requests})

\* One change of a document row an import, pull or push is going to flush: the
\* row as it was loaded and as it is to be.
Change == [doc: Docs, old: Row, new: Row]

Trees == [Paths -> Texts]
ImportRequests ==
    [op: {"import"}, tree: Trees, out: SUBSET Change, new: SUBSET Row, todo: SUBSET Paths]
RowRequests == [op: {"pull", "refresh"}, doc: Docs, old: Row]

\* Types of the state; every request keeps the rows it loaded.
TypeOK ==
    /\ rows \in [Docs -> Row]
    /\ files \in [Branches -> Trees]
    /\ head \in [Branches -> Texts]
    /\ clock \in Texts
    /\ DOMAIN req = Requests
    /\ \A r \in Requests :
         \/ req[r] = Idle \/ req[r] \in ImportRequests \/ req[r] \in RowRequests
         \/ /\ req[r].op = "push"
            /\ req[r].phase \in {"branch", "base", "commit", "record"}
            /\ DOMAIN req[r].copy \subseteq Docs
            /\ \A d \in DOMAIN req[r].copy : req[r].copy[d] \in Row
            /\ req[r].out \subseteq Change
    /\ config \in [enabled: BOOLEAN, branch: Branches]
    /\ edited \subseteq Docs
    /\ calm \in BOOLEAN

-----------------------------------------------------------------------------
(* The session: rows are loaded, changed, and written column by column.    *)

Written(db, old, new) == IF new # old THEN new ELSE db

Flushed(row, c) ==
    [row EXCEPT !.text = Written(@, c.old.text, c.new.text),
                !.path = Written(@, c.old.path, c.new.path),
                !.sha = Written(@, c.old.sha, c.new.sha),
                !.status = Written(@, c.old.status, c.new.status)]

\* An UPDATE of a row that is gone fails and takes the transaction with it.
CanFlush(C) == \A c \in C : rows[c.doc].live

AfterFlush(C) ==
    [d \in Docs |-> IF \E c \in C : c.doc = d
                    THEN Flushed(rows[d], CHOOSE c \in C : c.doc = d)
                    ELSE rows[d]]

\* edited, after the flush: what differs from the text the sync worked with.
StillEdited(C) ==
    (edited \ {c.doc : c \in C})
      \union {c.doc : c \in {x \in C : AfterFlush(C)[x.doc].text # x.new.text}}

\* Wrong variant: the SHA is renewed and the old text kept.
FromGitHub_KeepsText(row, text) == [row EXCEPT !.sha = text, !.status = "synced"]

\* An import or pull overwrites the document.
FromGitHub(row, text) == [row EXCEPT !.text = text, !.sha = text, !.status = "synced"]

-----------------------------------------------------------------------------
(* Editing documents.                                                      *)

Tick == clock < MaxClock /\ clock' = clock + 1

\* A document made here: it belongs to no repository and has no sync state.
NewRow(text, name) ==
    [live |-> TRUE, text |-> text, name |-> name, path |-> NoPath, sha |-> Empty,
     status |-> "none", linked |-> FALSE]

CreateDocument(d) ==
    /\ d \in Free
    /\ \E name \in Paths :
         \/ /\ Tick
            /\ rows' = [rows EXCEPT ![d] = NewRow(clock', name)]
         \/ /\ rows' = [rows EXCEPT ![d] = NewRow(Empty, name)]
            /\ UNCHANGED clock
    /\ edited' = edited \union {d}
    /\ UNCHANGED <<files, head, req, config, calm>>

\* Neither the sync status nor updated_at is touched.
UpdateDocument(d) ==
    /\ rows[d].live
    /\ Tick
    /\ rows' = [rows EXCEPT ![d].text = clock']
    /\ edited' = edited \union {d}
    /\ UNCHANGED <<files, head, req, config, calm>>

DeleteDocument(d) ==
    /\ rows[d].live
    /\ rows' = [rows EXCEPT ![d] = NoRow]
    /\ edited' = edited \ {d}
    /\ UNCHANGED <<files, head, clock, req, config, calm>>

Moved(row, name) ==
    [row EXCEPT !.name = name, !.status = IF @ = "synced" THEN "local_changes" ELSE @]

\* A move to executing/, completions/ or archive/ renames the file a document
\* would be pushed to, if it has none yet.
MoveToFolder(d) ==
    /\ rows[d].live
    /\ \E name \in Paths : rows' = [rows EXCEPT ![d] = Moved(@, name)]
    /\ UNCHANGED <<files, head, clock, req, config, edited, calm>>

\* A request takes a slot; calm remembers whether it has the place to itself.
Begin(r, q) ==
    /\ req[r] = Idle
    /\ req' = [req EXCEPT ![r] = q]
    /\ calm' = (calm /\ Running = {})

\* Refreshing compares the loaded text with the code base (a language model)
\* and writes a new text, if one is needed, on top of whatever is there then.
RefreshBegin(r) ==
    /\ \E d \in Live : Begin(r, [op |-> "refresh", doc |-> d, old |-> rows[d]])
    /\ UNCHANGED <<rows, files, head, clock, config, edited>>

RefreshDocument(r) ==
    /\ req[r].op = "refresh"
    /\ rows[req[r].doc].live
    /\ Tick
    /\ rows' = [rows EXCEPT ![req[r].doc].text = clock']
    /\ edited' = edited \union {req[r].doc}
    /\ req' = Done(r)
    /\ UNCHANGED <<files, head, config, calm>>

-----------------------------------------------------------------------------
(* import_from_repo: the tree first, then every file, one commit at the    *)
(* end.  It reads the default branch, whatever the sync branch is.         *)

ImportBegin(r) ==
    /\ Begin(r, [op |-> "import", tree |-> files["main"], out |-> {}, new |-> {},
                 todo |-> {p \in Paths : files["main"][p] # Empty}])
    /\ UNCHANGED <<rows, files, head, clock, config, edited>>

AtPath(p) == {d \in Live : rows[d].path = p}

\* A new row gets the SHA of the tree and the text that is there by now.
Imported(p, sha, text) ==
    [live |-> TRUE, text |-> text, name |-> p, path |-> p, sha |-> sha,
     status |-> "synced", linked |-> TRUE]

\* Two documents of one path make the lookup raise: the file is passed over.
NeedsImport(p, sha) ==
    \/ AtPath(p) = {}
    \/ \E d \in Docs : AtPath(p) = {d} /\ rows[d].sha # sha

\* The document of one file, read again from GitHub; any failure skips it.
ImportItem(r) ==
    /\ req[r].op = "import"
    /\ \E p \in req[r].todo :
         LET text == files["main"][p]
             rest == [req[r] EXCEPT !.todo = @ \ {p}]
             found == {[doc |-> d, old |-> rows[d], new |-> FromGitHub(rows[d], text)] : d \in AtPath(p)}
         IN  \/ req' = [req EXCEPT ![r] = rest]
             \/ /\ NeedsImport(p, req[r].tree[p])
                /\ text # Empty
                /\ req' = [req EXCEPT ![r] =
                             IF AtPath(p) = {}
                             THEN [rest EXCEPT !.new = @ \union {Imported(p, rest.tree[p], text)}]
                             ELSE [rest EXCEPT !.out = @ \union found]]
    /\ UNCHANGED <<rows, files, head, clock, config, edited, calm>>

\* One row identity for each document that is inserted.
Identities(new) ==
    {f \in [new -> Free] : \A x, y \in new : f[x] = f[y] => x = y}

ImportCommit(r) ==
    LET C == req[r].out
        new == req[r].new
    IN
    /\ req[r].op = "import" /\ req[r].todo = {}
    /\ \/ /\ CanFlush(C)
          /\ \E f \in Identities(new) :
               /\ rows' = [d \in Docs |-> IF \E x \in new : f[x] = d
                                         THEN CHOOSE x \in new : f[x] = d
                                         ELSE AfterFlush(C)[d]]
               /\ edited' = StillEdited(C) \ {f[x] : x \in new}
       \/ /\ ~CanFlush(C)
          /\ UNCHANGED <<rows, edited>>
    /\ req' = Done(r)
    /\ UNCHANGED <<files, head, clock, config, calm>>

-----------------------------------------------------------------------------
(* pull_remote_changes: the document of a repository, from its sync branch. *)

PullBegin(r) ==
    /\ \E d \in {x \in Live : rows[x].path # NoPath /\ rows[x].linked} :
         Begin(r, [op |-> "pull", doc |-> d, old |-> rows[d]])
    /\ UNCHANGED <<rows, files, head, clock, config, edited>>

PullRemoteChanges(r) ==
    LET q == req[r]
        text == files[target][q.old.path]
        C == {[doc |-> q.doc, old |-> q.old, new |-> FromGitHub(q.old, text)]}
    IN
    /\ q.op = "pull" /\ text # Empty
    /\ CanFlush(C)
    /\ rows' = AfterFlush(C)
    /\ edited' = StillEdited(C)
    /\ req' = Done(r)
    /\ UNCHANGED <<files, head, clock, config, calm>>

-----------------------------------------------------------------------------
(* sync_to_repo: one commit with the texts loaded at the start, then the   *)
(* SHA of each file, read one by one, then the rows.                       *)

\* Documents are named by the user, or all that say "local_changes" are taken;
\* those without content are left out.
Selected == {D \in SUBSET Live : D # {}}
Copies(D) == [d \in {x \in D : rows[x].text # Empty} |-> rows[d]]

PathOf(row) == IF row.path # NoPath THEN row.path ELSE row.name

\* Of two documents with one path, either may come last.
Pushed(copy) ==
    {f \in [{PathOf(copy[d]) : d \in DOMAIN copy} -> {copy[d].text : d \in DOMAIN copy}] :
       \A p \in DOMAIN f : \E d \in DOMAIN copy : PathOf(copy[d]) = p /\ copy[d].text = f[p]}

PushBegin(r) ==
    /\ config.enabled
    /\ \E D \in Selected :
         /\ DOMAIN Copies(D) # {}
         /\ Begin(r, [op |-> "push", phase |-> IF target = "main" THEN "base" ELSE "branch",
                      copy |-> Copies(D), head |-> 0, tree |-> files[target],
                      out |-> {}])
    /\ UNCHANGED <<rows, files, head, clock, config, edited>>

\* Idempotent: a branch that exists, or appears meanwhile, is used as it is.
CreateBranch(r) ==
    /\ req[r].op = "push" /\ req[r].phase = "branch"
    /\ IF head["sync"] = 0
       THEN /\ files' = [files EXCEPT !["sync"] = files["main"]]
            /\ head' = [head EXCEPT !["sync"] = head["main"]]
       ELSE UNCHANGED <<files, head>>
    /\ req' = [req EXCEPT ![r].phase = "base"]
    /\ UNCHANGED <<rows, clock, config, edited, calm>>

\* The branch's commit and tree, on which blobs, tree and commit are built.
ReadBase(r) ==
    /\ req[r].op = "push" /\ req[r].phase = "base"
    /\ req' = [req EXCEPT ![r] = [@ EXCEPT !.phase = "commit", !.head = head[target],
                                           !.tree = files[target]]]
    /\ UNCHANGED <<rows, files, head, clock, config, edited, calm>>

\* Wrong variant: the branch is forced to the new commit.
FastForward_Forced(q) == TRUE

\* PATCH of the branch without "force": GitHub refuses unless the new commit
\* follows the branch's last one.
FastForward(q) == head[target] = q.head

Overlay(tree, f) == [p \in Paths |-> IF p \in DOMAIN f THEN f[p] ELSE tree[p]]

CreateCommit(r) ==
    LET q == req[r] IN
    /\ q.op = "push" /\ q.phase = "commit"
    /\ FastForward(q)
    /\ Tick
    /\ head' = [head EXCEPT ![target] = clock']
    /\ \E f \in Pushed(q.copy) :
         /\ files' = [files EXCEPT ![target] = Overlay(q.tree, f)]
         /\ calm' = (calm /\ Cardinality(DOMAIN f) = Cardinality(DOMAIN q.copy))
    /\ req' = [req EXCEPT ![r].phase = "record"]
    /\ UNCHANGED <<rows, config, edited>>

Recorded(row, sha) ==
    [row EXCEPT !.sha = sha, !.path = PathOf(row), !.status = "synced"]

\* Wrong variant: the SHA could not be read, and the document counts as synced.
Unread_Synced(row) == [row EXCEPT !.path = PathOf(row), !.status = "synced"]

\* Wrong variant: a status no reader of the column knows.
Unread_Failed(row) == [row EXCEPT !.path = PathOf(row), !.status = "failed"]

Unread(row) == [row EXCEPT !.path = PathOf(row), !.status = "local_changes"]

\* The SHA of a file is read after the commit; of a file that is gone it is NULL.
GetFileSha(r) ==
    /\ req[r].op = "push" /\ req[r].phase = "record"
    /\ \E d \in DOMAIN req[r].copy \ {c.doc : c \in req[r].out} :
         LET old == req[r].copy[d]
         IN  \E new \in {Recorded(old, files[target][PathOf(old)]), Unread(old)} :
               req' = [req EXCEPT ![r].out = @ \union {[doc |-> d, old |-> old, new |-> new]}]
    /\ UNCHANGED <<rows, files, head, clock, config, edited, calm>>

PushCommit(r) ==
    LET C == req[r].out IN
    /\ req[r].op = "push" /\ {c.doc : c \in C} = DOMAIN req[r].copy
    /\ CanFlush(C)
    /\ rows' = AfterFlush(C)
    /\ edited' = StillEdited(C)
    /\ req' = Done(r)
    /\ UNCHANGED <<files, head, clock, config, calm>>

\* Nothing is written: GitHub fails, refuses the commit or has no such file, the
\* pull request cannot be opened, the language model finds nothing to update, a
\* row is gone, or the process ends.
Abandon(r) ==
    /\ req[r] # Idle
    /\ req' = Done(r)
    /\ UNCHANGED <<rows, files, head, clock, config, edited, calm>>

-----------------------------------------------------------------------------
(* check_for_updates, what the status page says of a document.             *)

Reported(d) ==
    IF ~rows[d].linked \/ rows[d].path = NoPath THEN "not listed"
    ELSE IF files[target][rows[d].path] # rows[d].sha THEN "remote_changes"
    ELSE "synced or local_changes"

-----------------------------------------------------------------------------
(* Other people's commits, and the merge of the sync branch.               *)

ForeignCommit ==
    /\ Tick
    /\ \E b \in Branches, p \in Paths :
         /\ head[b] # 0
         /\ \E text \in {clock', Empty} : files' = [files EXCEPT ![b][p] = text]
         /\ head' = [head EXCEPT ![b] = clock']
    /\ calm' = (calm /\ Running = {})
    /\ UNCHANGED <<rows, req, config, edited>>

MergePullRequest ==
    /\ head["sync"] # 0 /\ files["sync"] # files["main"]
    /\ Tick
    /\ files' = [files EXCEPT !["main"] = files["sync"]]
    /\ head' = [head EXCEPT !["main"] = clock']
    /\ calm' = (calm /\ Running = {})
    /\ UNCHANGED <<rows, req, config, edited>>

-----------------------------------------------------------------------------
Init ==
    /\ rows = [d \in Docs |-> NoRow]
    /\ files = [b \in Branches |-> [p \in Paths |-> Empty]]
    /\ head = [main |-> 1, sync |-> 0]
    /\ clock = 1
    /\ req = [r \in Requests |-> Idle]
    /\ config \in [enabled: BOOLEAN, branch: Branches]
    /\ edited = {}
    /\ calm = TRUE

RequestStep(r) ==
    \/ RefreshBegin(r) \/ RefreshDocument(r)
    \/ ImportBegin(r) \/ ImportItem(r) \/ ImportCommit(r)
    \/ PullBegin(r) \/ PullRemoteChanges(r)
    \/ PushBegin(r) \/ CreateBranch(r) \/ ReadBase(r) \/ CreateCommit(r)
    \/ GetFileSha(r) \/ PushCommit(r) \/ Abandon(r)

Next ==
    \/ \E d \in Docs : CreateDocument(d) \/ UpdateDocument(d)
                        \/ DeleteDocument(d) \/ MoveToFolder(d)
    \/ \E r \in Requests : RequestStep(r)
    \/ ForeignCommit \/ MergePullRequest

Spec == Init /\ [][Next]_vars

-----------------------------------------------------------------------------
(* What holds.                                                             *)

\* A push changes the files it pushes and no others: a commit that somebody else
\* made between the push's read of the branch and its own commit is not undone.
PushKeepsOthers ==
    [][\A r \in Requests :
         (req[r].op = "push" /\ req'[r].op = "push"
            /\ req[r].phase = "commit" /\ req'[r].phase = "record")
           => \A p \in Paths \ {PathOf(req[r].copy[d]) : d \in DOMAIN req[r].copy} :
                files'[target][p] = files[target][p]]_vars

\* While only one request runs at a time and nobody commits meanwhile, whatever
\* is created, edited, moved, pushed, pulled, imported, and fails half-way, the
\* SHA of a synced document that was not edited since is that of its text.
CalmSyncIsExact ==
    calm => \A d \in Live \ edited :
              rows[d].status = "synced" => rows[d].sha = rows[d].text

\* Where documents are only imported and pulled, and edits are left aside, a
\* document that has fallen behind its file is reported: an import that read the
\* tree before and the text after a remote change is mended by the next one.
LagIsReported ==
    (~config.enabled /\ target = "main") =>
        \A d \in Live \ edited :
          (rows[d].linked /\ rows[d].text # files[target][rows[d].path])
             => Reported(d) = "remote_changes"

\* What the code relies on, and overlapping imports break: "Find document by
\* GitHub path" (sync_service.py:511) must not find two, it raises if it does.
OneDocumentPerPath == \A p \in Paths : Cardinality(AtPath(p)) <= 1
=============================================================================
