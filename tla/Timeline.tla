------------------------------ MODULE Timeline ------------------------------
(* The commit timeline of a product, read page by page while commits are     *)
(* pushed: the newest commits of every repository are merged and sorted, a   *)
(* page starts behind the cursor of the page before.                         *)
(* (src/app/api/v1/timeline.py get_product_timeline; commits come from       *)
(* get_commits_for_timeline in src/app/services/github/read_operations.py)   *)
(* A repository whose fetch fails is left out of a page, as in the code.     *)
EXTENDS Naturals, Sequences, FiniteSets

CONSTANTS NRepos,      \* repositories of the product, numbered as they are listed
          Limit,       \* events per page, also commits fetched per repository
          MaxCommits,  \* bound: commits pushed
          MaxClock     \* bound: commit times

VARIABLES log,     \* log[r]: commits of r, newest first, as [sha, ts]
          clock,
          cursor,  \* the page to read next: none yet, one [ts, sha], or over
          shown,   \* shown[sha]: how often a page listed it, capped at 2
          fixed,   \* no commit was pushed and no fetch failed since reading began
          ended

vars == <<log, clock, cursor, shown, fixed, ended>>

Repos == 1..NRepos
Commits == UNION {{log[r][i] : i \in DOMAIN log[r]} : r \in Repos}
Sha == 1..MaxCommits

Init == /\ log = [r \in Repos |-> <<>>] /\ clock = 0
        /\ cursor = {} /\ shown = [s \in Sha |-> 0]
        /\ fixed = TRUE /\ ended = FALSE

Push(r) ==
  /\ Cardinality(Commits) < MaxCommits
  /\ log' = [log EXCEPT ![r] = <<[sha |-> Cardinality(Commits) + 1, ts |-> clock]>> \o @]
  /\ fixed' = (cursor = {} /\ ~ended)
  /\ UNCHANGED <<clock, cursor, shown, ended>>
Tick == clock < MaxClock /\ clock' = clock + 1 /\ UNCHANGED <<log, cursor, shown, fixed, ended>>

(* the first Limit commits of each repository, with their places             *)
Fetched(rs) ==
  UNION {{[e |-> log[r][i], at |-> <<r, i>>] : i \in {k \in DOMAIN log[r] : k <= Limit}} : r \in rs}

(* newest first; equal times stay in the order of the repositories           *)
Before(x, y) ==
  \/ x.e.ts > y.e.ts
  \/ /\ x.e.ts = y.e.ts
     /\ x.at[1] < y.at[1] \/ (x.at[1] = y.at[1] /\ x.at[2] < y.at[2])

(* the events from the first behind the cursor on *)
\* Wrong variant: a page begins with the cursor's own commit.
Behind_Inclusive(x, c) == x.e.ts <= c.ts
Behind(x, c) == x.e.ts <= c.ts /\ x.e.sha # c.sha

From(evs) ==
  {x \in evs : \A c \in cursor : \E y \in evs : Behind(y, c) /\ (y = x \/ Before(y, x))}

PageOf(evs) == {x \in evs : Cardinality({y \in evs : Before(y, x)}) < Limit}
LastOf(page) == {x \in page : \A y \in page : y = x \/ Before(y, x)}

ReadPage(rs) ==
  LET from == From(Fetched(rs))
      page == PageOf(from)
  IN /\ ~ended
     /\ shown' = [s \in Sha |-> IF \A x \in page : x.e.sha # s THEN shown[s]
                                ELSE IF shown[s] = 0 THEN 1 ELSE 2]
     /\ ended' = (Cardinality(from) <= Limit)
     /\ cursor' = IF Cardinality(from) <= Limit THEN {} ELSE {x.e : x \in LastOf(page)}
     /\ fixed' = (fixed /\ rs = Repos)
     /\ UNCHANGED <<log, clock>>

Reading == \E rs \in SUBSET Repos : ReadPage(rs)
Next == Tick \/ (\E r \in Repos : Push(r)) \/ Reading
Spec == Init /\ [][Next]_vars

-----------------------------------------------------------------------------
Distinct == \A c, d \in Commits : c.ts = d.ts => c = d

TypeOK ==
  /\ \A r \in Repos : log[r] \in Seq([sha: Sha, ts: 0..MaxClock])
  /\ cursor \subseteq [sha: Sha, ts: 0..MaxClock] /\ Cardinality(cursor) <= 1
  /\ shown \in [Sha -> 0..2] /\ fixed \in BOOLEAN /\ ended \in BOOLEAN

(* As long as no two commits have the same time, no commit is listed on two  *)
(* pages, although commits are pushed and fetches fail between the pages,    *)
(* and a walk through an unchanging timeline lists every commit fetched.     *)
PagesPartition ==
  Distinct => /\ \A s \in Sha : shown[s] <= 1
              /\ (ended /\ fixed) => \A x \in Fetched(Repos) : shown[x.e.sha] = 1
=============================================================================
