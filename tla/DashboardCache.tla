--------------------------- MODULE DashboardCache ---------------------------
(***************************************************************************)
(* The statistics of the dashboard: GET /dashboard serves the row stored   *)
(* for an organization while it is fresh, and reads GitHub and stores a    *)
(* new one otherwise; POST /dashboard/generate always does. The row is     *)
(* shared by all members, what is stored is read with one caller's         *)
(* memberships and tokens. A commit is an organization and a date; one     *)
(* product stands for the products of an organization.                     *)
(***************************************************************************)
EXTENDS Naturals, FiniteSets

CONSTANTS
    Users,    \* callers, one request of each at a time
    Orgs,
    Fresh,    \* how long a row is served
    MaxClock   \* bound: the clock

VARIABLES
    clock,
    commits,  \* GitHub
    cache,    \* dashboard_stats_cache, one period
    call,     \* requests that have read GitHub and not stored yet
    answer    \* history: what is wrong with the last answer

vars == <<clock, commits, cache, call, answer>>

Nothing == [there |-> FALSE]
Clock == 0 .. MaxClock
Commits == Orgs \X Clock

\* What is stored: the commits counted, when it was stored (generated_at),
\* and for the properties when GitHub was read and whether all of it was.
Stats == [there: {TRUE}, counted: SUBSET Commits, at: Clock, read: Clock, whole: BOOLEAN]

\* Types; a row is not younger than the clock, nor the reading than the row.
TypeOK ==
    /\ clock \in Clock /\ commits \subseteq Commits
    /\ \A o \in Orgs : cache[o] # Nothing =>
          cache[o] \in Stats /\ cache[o].read <= cache[o].at /\ cache[o].at <= clock
    /\ \A u \in Users : call[u] # Nothing => call[u].key \in Orgs /\ call[u].read <= clock

-----------------------------------------------------------------------------
\* The organizations a request is about, the named one or all of the
\* caller's, and the one whose row it uses: the first of them.
Asks == {a \in [scope: SUBSET Orgs, key: Orgs] : a.key \in a.scope}

\* Wrong variant: age is not looked at.
IsFresh_Always(row) == row # Nothing

IsFresh(row) == row # Nothing /\ clock < row.at + Fresh

\* Reading GitHub: organizations without a token or with an error count 0.
Aggregate(scope, readable) == {c \in commits : c[1] \in scope \cap readable}

\* What an answer may be reproached with: to be served too late, or to miss
\* commits its organization had when GitHub was read.
Wrong(o, row) ==
    {w \in {"late", "misses"} :
       \/ w = "late" /\ clock >= row.at + Fresh
       \/ w = "misses" /\ row.whole
          /\ \E c \in commits \ row.counted : c[1] = o /\ c[2] <= row.read}

ServeCached(u) ==
    /\ call[u] = Nothing
    /\ \E a \in Asks :
         /\ IsFresh(cache[a.key])
         /\ answer' = Wrong(a.key, cache[a.key])
    /\ UNCHANGED <<clock, commits, cache, call>>

Read(u, a) ==
    \E readable \in SUBSET Orgs :
      call' = [call EXCEPT ![u] = [there |-> TRUE, key |-> a.key, read |-> clock,
                                   counted |-> Aggregate(a.scope, readable),
                                   whole |-> a.scope \subseteq readable]]

\* GET /dashboard without a fresh row.
GetDashboard(u) ==
    /\ call[u] = Nothing
    /\ \E a \in Asks : ~IsFresh(cache[a.key]) /\ Read(u, a)
    /\ UNCHANGED <<clock, commits, cache, answer>>

\* POST /dashboard/generate.
GenerateDashboard(u) ==
    /\ call[u] = Nothing
    /\ \E a \in Asks : Read(u, a)
    /\ UNCHANGED <<clock, commits, cache, answer>>

\* The row is written over, whoever has written it meanwhile.
Upsert(u) ==
    /\ call[u] # Nothing
    /\ LET row == [there |-> TRUE, counted |-> call[u].counted, at |-> clock,
                   read |-> call[u].read, whole |-> call[u].whole] IN
         /\ cache' = [cache EXCEPT ![call[u].key] = row]
         /\ answer' = Wrong(call[u].key, row)
    /\ call' = [call EXCEPT ![u] = Nothing]
    /\ UNCHANGED <<clock, commits>>

Tick == clock < MaxClock /\ clock' = clock + 1

\* Commits and time go on while a request reads.
Commit(o) ==
    /\ Tick
    /\ commits' = commits \union {<<o, clock + 1>>}
    /\ UNCHANGED <<cache, call, answer>>

Wait == Tick /\ UNCHANGED <<commits, cache, call, answer>>

-----------------------------------------------------------------------------
Init ==
    /\ clock = 0 /\ commits = {}
    /\ cache = [o \in Orgs |-> Nothing]
    /\ call = [u \in Users |-> Nothing]
    /\ answer = {}

Next ==
    \/ \E u \in Users :
         ServeCached(u) \/ GetDashboard(u) \/ GenerateDashboard(u) \/ Upsert(u)
    \/ \E o \in Orgs : Commit(o)
    \/ Wait

Spec == Init /\ [][Next]_vars

-----------------------------------------------------------------------------
\* An answer comes from a reading of GitHub stored less than Fresh ago, and
\* counts every commit the organization had at that reading, whoever asked
\* then and with whatever memberships, if all repositories could be read.
AnswersAreRecent == answer = {}

\* What one would expect, and does not hold: the row of an
\* organization counts the organization's commits only.
RowsAreOfTheirOrganization ==
    \A o \in Orgs : cache[o] # Nothing => \A c \in cache[o].counted : c[1] = o
=============================================================================
