------------------------- MODULE GitHubInstallations -------------------------
(* The GitHub App: an administrator links an installation to an              *)
(* organization, GitHub's webhooks report later changes, and the token       *)
(* resolver decides from the stored row and a token cache whether a          *)
(* repository is read with the app's token or with the user's own.           *)
(* (src/app/api/v1/integrations.py, src/app/api/v1/webhooks.py,              *)
(* src/app/domain/github_app_installation_operations.py,                     *)
(* src/app/services/github/token_resolver.py, app_auth.py)                   *)
(*                                                                           *)
(* Webhooks are lost, late and out of order; GitHub does not send them again *)
(* by itself.  "created" is only logged and is left out.                     *)
EXTENDS Integers, Sequences, FiniteSets, SequencesExt

CONSTANTS Installs,  \* installations on GitHub
          Orgs,      \* organizations
          Repos,     \* repositories an installation may be given
          Admins,    \* overlapping link requests
          MaxNews,   \* bound: changes made on GitHub
          MaxHooks,  \* bound: webhooks on their way
          NoOrg

VARIABLES gh,      \* gh[i]: the installation as GitHub has it
          rows,    \* rows[i]: the stored installation, NoRow when there is none
          hooks,   \* webhooks on their way, in the order GitHub sent them
          link,    \* link[a]: a link request that has passed its check
          cached,  \* installations with a token in this process
          behind,  \* installations whose row no webhook will bring up to date
          raced,   \* organizations two link requests were open for
          news

vars == <<gh, rows, hooks, link, cached, behind, raced, news>>

NoRow == [org |-> NoOrg, all |-> FALSE, suspended |-> FALSE, repos |-> {}]
NoLink == [org |-> NoOrg, inst |-> {}, all |-> {}, stale |-> FALSE]
Stored(i) == rows[i].org # NoOrg
OfOrg(o) == {i \in Installs : rows[i].org = o}
Pending(i) == \E n \in DOMAIN hooks : hooks[n].inst = i
Live(i) == gh[i].state = "live"
Grants(i, r) == Live(i) /\ (gh[i].all \/ r \in gh[i].repos)

Init == /\ gh = [i \in Installs |-> [state |-> "new", all |-> FALSE, repos |-> {}]]
        /\ rows = [i \in Installs |-> NoRow]
        /\ hooks = <<>> /\ cached = {} /\ behind = {} /\ raced = {} /\ news = 0
        /\ link = [a \in Admins |-> NoLink]

(* ------------------------------ GitHub ----------------------------------- *)
(* state of the installation, what it tells, and to whom it is told *)
Tell(i, kind, rs) == /\ news < MaxNews /\ Len(hooks) < MaxHooks
                     /\ news' = news + 1
                     /\ hooks' = Append(hooks, [inst |-> i, kind |-> kind, repos |-> rs])
                     /\ UNCHANGED <<rows, link, cached, behind, raced>>
Install(i, all, rs) ==
  /\ gh[i].state = "new" /\ (all => rs = {})
  /\ gh' = [gh EXCEPT ![i] = [state |-> "live", all |-> all, repos |-> rs]]
  /\ UNCHANGED <<rows, hooks, link, cached, behind, raced, news>>
Uninstall(i) ==
  /\ gh[i].state \in {"live", "suspended"}
  /\ gh' = [gh EXCEPT ![i].state = "gone"] /\ Tell(i, "deleted", {})
Suspend(i) ==
  /\ Live(i)
  /\ gh' = [gh EXCEPT ![i].state = "suspended"] /\ Tell(i, "suspend", {})
Unsuspend(i) ==
  /\ gh[i].state = "suspended"
  /\ gh' = [gh EXCEPT ![i].state = "live"] /\ Tell(i, "unsuspend", {})
Grant(i, r) ==
  /\ Live(i) /\ ~gh[i].all /\ r \notin gh[i].repos
  /\ gh' = [gh EXCEPT ![i].repos = gh[i].repos \cup {r}] /\ Tell(i, "added", {r})
Withdraw(i, r) ==
  /\ Live(i) /\ r \in gh[i].repos
  /\ gh' = [gh EXCEPT ![i].repos = gh[i].repos \ {r}] /\ Tell(i, "removed", {r})
(* from all repositories to a selection: the handler of the webhook stores *)
(* the repositories and not the new selection                             *)
Narrow(i, rs) ==
  /\ Live(i) /\ gh[i].all
  /\ gh' = [gh EXCEPT ![i] = [gh[i] EXCEPT !.all = FALSE, !.repos = rs]] /\ Tell(i, "added", rs)

(* ------------------------------ webhooks --------------------------------- *)
(* the repositories of a deleted installation go with its row *)
\* Wrong variant: they stay.
Deleted_LeavesRepos(w) == [NoRow EXCEPT !.repos = w.repos]
Deleted(w) == [w EXCEPT !.org = NoOrg, !.all = FALSE, !.suspended = FALSE, !.repos = {}]

(* the handlers look the row up and ignore an unknown installation *)
\* Wrong variant: lifting a suspension is not recorded.
After_StaysSuspended(w, h) ==
  CASE h.kind = "deleted"   -> Deleted(w)
    [] h.kind = "suspend"   -> [w EXCEPT !.suspended = TRUE]
    [] h.kind = "unsuspend" -> w
    [] h.kind = "added"     -> [w EXCEPT !.repos = w.repos \cup h.repos]
    [] h.kind = "removed"   -> [w EXCEPT !.repos = w.repos \ h.repos]
After(w, h) ==
  CASE h.kind = "deleted"   -> Deleted(w)
    [] h.kind = "suspend"   -> [w EXCEPT !.suspended = TRUE]
    [] h.kind = "unsuspend" -> [w EXCEPT !.suspended = FALSE]
    [] h.kind = "added"     -> [w EXCEPT !.repos = w.repos \cup h.repos]
    [] h.kind = "removed"   -> [w EXCEPT !.repos = w.repos \ h.repos]

Earlier(n) == \E m \in 1..n-1 : hooks[m].inst = hooks[n].inst
(* a link request under way has seen the installation before this change *)
Passed(i) == [a \in Admins |-> [link[a] EXCEPT !.stale = link[a].stale \/ i \in link[a].inst]]

HandleHook(n) ==
  LET h == hooks[n] IN
  /\ n \in DOMAIN hooks
  /\ rows' = IF Stored(h.inst) THEN [rows EXCEPT ![h.inst] = After(rows[h.inst], h)] ELSE rows
  /\ behind' = behind \cup
       {i \in {h.inst} : Earlier(n) \/ (Stored(i) /\ rows[i].all /\ h.kind = "added")}
  /\ hooks' = RemoveAt(hooks, n)
  /\ link' = Passed(h.inst)
  /\ UNCHANGED <<gh, cached, raced, news>>

(* the answer goes out before the commit: what is lost is not sent again *)
LoseHook(n) ==
  /\ n \in DOMAIN hooks
  /\ behind' = behind \cup {hooks[n].inst}
  /\ hooks' = RemoveAt(hooks, n)
  /\ link' = Passed(hooks[n].inst)
  /\ UNCHANGED <<gh, rows, cached, raced, news>>

(* ------------------------------ linking ---------------------------------- *)
(* 409 when the organization has an installation; then GitHub is asked *)
\* Wrong variant: the organization's installation is not looked up.
MayLink_Again(o) == o \in Orgs
MayLink(o) == OfOrg(o) = {}

LinkBegin(a, o, i) ==
  /\ link[a] = NoLink /\ MayLink(o)
  /\ link' = [link EXCEPT ![a] = [NoLink EXCEPT !.org = o, !.inst = {i}]]
  /\ raced' = raced \cup {p \in {o} : \E b \in Admins : link[b].org = o}
  /\ UNCHANGED <<gh, rows, hooks, cached, behind, news>>

(* GitHub knows the installation *)
LinkVerify(a, i) ==
  /\ i \in link[a].inst /\ link[a].all = {}
  /\ gh[i].state \in {"live", "suspended"}
  /\ link' = [link EXCEPT ![a] = [link[a] EXCEPT !.all = {gh[i].all},
                                               !.stale = ~Live(i) \/ gh[i].repos # {}]]
  /\ UNCHANGED <<gh, rows, hooks, cached, behind, raced, news>>

(* the row takes the selection, none of the repositories and no suspension; *)
(* an installation has one row: else the insert fails, and the request      *)
LinkEnd(a, i) ==
  /\ i \in link[a].inst /\ link[a].all # {} /\ ~Stored(i)
  /\ rows' = [rows EXCEPT ![i] = [NoRow EXCEPT !.org = link[a].org,
                                               !.all = TRUE \in link[a].all]]
  /\ behind' = IF link[a].stale \/ Pending(i) THEN behind \cup {i} ELSE behind \ {i}
  /\ link' = [link EXCEPT ![a] = NoLink]
  /\ UNCHANGED <<gh, hooks, cached, raced, news>>

LinkFails(a) ==
  /\ link[a] # NoLink
  /\ link' = [link EXCEPT ![a] = NoLink]
  /\ UNCHANGED <<gh, rows, hooks, cached, behind, raced, news>>

RemoveInstallation(o) ==
  /\ Cardinality(OfOrg(o)) = 1
  /\ rows' = [i \in Installs |-> IF i \in OfOrg(o) THEN Deleted(rows[i]) ELSE rows[i]]
  /\ UNCHANGED <<gh, hooks, link, cached, behind, raced, news>>

(* --------------------------- token resolution ---------------------------- *)
\* Wrong variant: a suspended installation is used.
Usable_Suspended(i, r) == rows[i].all \/ r \in rows[i].repos
Usable(i, r) == ~rows[i].suspended /\ (rows[i].all \/ r \in rows[i].repos)

(* with several rows of the organization scalar_one_or_none raises; without  *)
(* a usable one, or when GitHub gives no token, the user's own token is used *)
Chosen(o, r) == {i \in OfOrg(o) : /\ OfOrg(o) = {i} /\ Usable(i, r)
                                  /\ i \in cached \/ Live(i)}

ResolveToken(o, r) ==
  /\ cached' = cached \cup Chosen(o, r)
  /\ UNCHANGED <<gh, rows, hooks, link, behind, raced, news>>
ExpireToken(i) == /\ i \in cached /\ cached' = cached \ {i}
                  /\ UNCHANGED <<gh, rows, hooks, link, behind, raced, news>>

Next ==
  \/ \E i \in Installs : \/ Uninstall(i) \/ Suspend(i) \/ Unsuspend(i) \/ ExpireToken(i)
                         \/ \E r \in Repos : Grant(i, r) \/ Withdraw(i, r)
                         \/ \E rs \in SUBSET Repos : \/ Narrow(i, rs)
                                                     \/ \E all \in BOOLEAN : Install(i, all, rs)
  \/ \E n \in DOMAIN hooks : HandleHook(n) \/ LoseHook(n)
  \/ \E a \in Admins, i \in Installs : LinkVerify(a, i) \/ LinkEnd(a, i) \/ \E o \in Orgs : LinkBegin(a, o, i)
  \/ \E a \in Admins : LinkFails(a)
  \/ \E o \in Orgs : RemoveInstallation(o) \/ \E r \in Repos : ResolveToken(o, r)

Spec == Init /\ [][Next]_vars

-----------------------------------------------------------------------------
TypeOK ==
  /\ gh \in [Installs -> [state: {"new", "live", "suspended", "gone"},
                          all: BOOLEAN, repos: SUBSET Repos]]
  /\ rows \in [Installs -> [org: Orgs \cup {NoOrg}, all: BOOLEAN, suspended: BOOLEAN,
                            repos: SUBSET Repos]]
  /\ \A i \in Installs : ~Stored(i) => rows[i] = NoRow
  /\ cached \subseteq Installs /\ behind \subseteq Installs /\ raced \subseteq Orgs
  /\ link \in [Admins -> [org: Orgs \cup {NoOrg}, inst: SUBSET Installs,
                              all: SUBSET BOOLEAN, stale: BOOLEAN]]

(* An organization comes to have two installations, which every later lookup *)
(* answers with an error, only when two link requests for it were open at    *)
(* the same time.                                                            *)
TwoInstallationsNeedARace ==
  \A o \in Orgs : Cardinality(OfOrg(o)) > 1 => o \in raced

Calm(i) == i \notin behind /\ ~Pending(i)

(* When every webhook of a linked installation was handled, in order, and    *)
(* the link found the installation as the row records it, the row says what  *)
(* GitHub says: installed, suspended or not, and which selected repositories.*)
CalmRowsFollowGitHub ==
  \A i \in Installs : Stored(i) /\ Calm(i) =>
    /\ gh[i].state # "gone"
    /\ rows[i].suspended <=> gh[i].state = "suspended"
    /\ rows[i].all = gh[i].all /\ rows[i].repos = gh[i].repos

(* For such an installation the resolver chooses the app's token exactly when *)
(* GitHub would accept it for that repository, cached tokens included.        *)
CalmAnswersWork ==
  \A o \in Orgs, r \in Repos, i \in Installs : OfOrg(o) = {i} /\ Calm(i) =>
    (Grants(i, r) <=> i \in Chosen(o, r))

(* What the model says of a linked installation, and does not hold: the table *)
(* tracks "which specific repos each installation has access to (when      *)
(* using "selected" mode)".  Quiet installations only, nothing lost.       *)
SelectedReposAreKnown ==
  \A i \in Installs : Stored(i) /\ ~gh[i].all /\ Live(i) /\ hooks = <<>> /\ news = 0
    => gh[i].repos \subseteq rows[i].repos
=============================================================================
