---------------------------- MODULE TeamSummaries ---------------------------
(***************************************************************************)
(* What an organization's members read about each other's work: a text     *)
(* written by a model about the commits of a period, kept in one row per   *)
(* organization and period.  A young text is served as it is, an older one *)
(* is served while a task in the background writes a new one, and a request *)
(* that finds none, or one too old, writes one itself.  A dictionary of the *)
(* process keeps it from starting two tasks.                               *)
(***************************************************************************)
EXTENDS Naturals, FiniteSets

CONSTANTS
    Requests,        \* running in the process at the same time
    Commits, ProductOf,
    Warm, Expired,   \* ages, in steps of time: 6 and 48 hours
    NoRow

VARIABLES
    work,        \* commits in the period, now
    row,
    written,     \* the age of the row's text, whatever the row says
    lock, task,  \* the background task, if any
    request

vars == <<work, row, written, lock, task, request>>

TeamProducts == {ProductOf[c] : c \in Commits}
Idle == [pc |-> "idle"]
Ages == 0 .. Expired

TypeOK ==
    /\ work \subseteq Commits /\ written \in Ages /\ lock \in BOOLEAN
    /\ row # NoRow => /\ row.of \subseteq Commits /\ row.count = Cardinality(row.of)
                      /\ row.age \in Ages /\ row.seen \in Ages
    /\ \A w \in {task} \union {request[r] : r \in Requests} :
          /\ w.pc \in {"idle", "start", "fetch", "fetched", "model", "answered"}
          /\ w.pc \in {"fetched", "model"} => w.got \subseteq Commits
          /\ w.pc = "answered" => w.of \subseteq Commits /\ w.age \in Ages

-----------------------------------------------------------------------------
(* Writing a text: the commits are fetched product by product, and those of *)
(* a product that fails are missing.  Without commits an empty text is      *)
(* stored; with as many as the row's text is about, that text stays.        *)

Text(got) == [of |-> got, count |-> Cardinality(got), age |-> 0, seen |-> 0]
Said(stale, of, age) == [pc |-> "answered", stale |-> stale, of |-> of, age |-> age, got |-> {}]

Fetched(w, failed) == [w EXCEPT !.pc = "fetched", !.got = {c \in work : ProductOf[c] \notin failed}]

Unchanged(got) == row # NoRow /\ row.count = Cardinality(got)

\* The row looked at, only the time of the look is renewed.
Looked == [row EXCEPT !.seen = 0]

-----------------------------------------------------------------------------
(* Requests.                                                               *)

\* Wrong variant: the age of the last look.
Age_Seen == row.seen

Age == row.age

Ask(r) ==
    /\ request[r] = Idle
    /\ \/ /\ row # NoRow /\ Age < Warm
          /\ request' = [request EXCEPT ![r] = Said(FALSE, row.of, written)]
          /\ UNCHANGED <<lock, task>>
       \/ /\ row # NoRow /\ Age >= Warm /\ Age < Expired
          /\ request' = [request EXCEPT ![r] = Said(TRUE, row.of, written)]
          /\ lock' = TRUE
          /\ task' = IF lock THEN task ELSE [pc |-> "start", got |-> {}]
       \/ /\ ~(row # NoRow /\ Age < Expired)
          /\ request' = [request EXCEPT ![r] = [pc |-> "fetch", got |-> {}]]
          /\ UNCHANGED <<lock, task>>
    /\ UNCHANGED <<work, row, written>>

Fetch(r, failed) ==
    /\ request[r].pc = "fetch"
    /\ request' = [request EXCEPT ![r] = Fetched(@, failed)]
    /\ UNCHANGED <<work, row, written, lock, task>>

Store(got) == row' = Text(got) /\ written' = 0

Empty(r) ==
    /\ request[r].pc = "fetched" /\ request[r].got = {}
    /\ Store({})
    /\ request' = [request EXCEPT ![r] = Said(FALSE, {}, 0)]
    /\ UNCHANGED <<work, lock, task>>

Skip(r) ==
    /\ request[r].pc = "fetched" /\ request[r].got # {} /\ Unchanged(request[r].got)
    /\ row' = Looked
    /\ request' = [request EXCEPT ![r] = [Said(FALSE, row.of, written) EXCEPT !.got = request[r].got]]
    /\ UNCHANGED <<work, written, lock, task>>

AskModel(r) ==
    /\ request[r].pc = "fetched" /\ request[r].got # {} /\ ~Unchanged(request[r].got)
    /\ request' = [request EXCEPT ![r].pc = "model"]
    /\ UNCHANGED <<work, row, written, lock, task>>

Written(r) ==
    /\ request[r].pc = "model"
    /\ Store(request[r].got)
    /\ request' = [request EXCEPT ![r] = Said(FALSE, @.got, 0)]
    /\ UNCHANGED <<work, lock, task>>

\* The model failed: an answer without texts, and nothing is stored.
Unwritten(r) ==
    /\ request[r].pc = "model"
    /\ request' = [request EXCEPT ![r] = Said(FALSE, {}, 0)]
    /\ UNCHANGED <<work, row, written, lock, task>>

End(r) ==
    /\ request[r].pc = "answered"
    /\ request' = [request EXCEPT ![r] = Idle]
    /\ UNCHANGED <<work, row, written, lock, task>>

-----------------------------------------------------------------------------
(* The background task does the same in a session of its own.              *)

\* Wrong variant: the lock stays.
Ended_Locked == task' = Idle /\ lock' = lock

\* Whichever way the task ends: the user may be gone by now, anything may raise.
Ended == task' = Idle /\ lock' = FALSE

TaskStart ==
    /\ task.pc = "start"
    /\ task' = [task EXCEPT !.pc = "fetch"]
    /\ UNCHANGED <<work, row, written, lock, request>>

TaskFetch(failed) ==
    /\ task.pc = "fetch"
    /\ task' = Fetched(task, failed)
    /\ UNCHANGED <<work, row, written, lock, request>>

TaskAskModel ==
    /\ task.pc = "fetched" /\ task.got # {} /\ ~Unchanged(task.got)
    /\ task' = [task EXCEPT !.pc = "model"]
    /\ UNCHANGED <<work, row, written, lock, request>>

TaskSkip ==
    /\ task.pc = "fetched" /\ task.got # {} /\ Unchanged(task.got)
    /\ row' = Looked /\ Ended
    /\ UNCHANGED <<work, written, request>>

TaskStore ==
    /\ \/ task.pc = "model"
       \/ task.pc = "fetched" /\ task.got = {}
    /\ Store(task.got) /\ Ended
    /\ UNCHANGED <<work, request>>

\* The user is not found, the model fails, or an exception rolls back.
TaskFails ==
    /\ task # Idle
    /\ Ended
    /\ UNCHANGED <<work, row, written, request>>

-----------------------------------------------------------------------------
\* A commit is pushed, or is older than the period by now.
Work(c) ==
    /\ work' = IF c \in work THEN work \ {c} ELSE work \union {c}
    /\ UNCHANGED <<row, written, lock, task, request>>

Older(n) == IF n < Expired THEN n + 1 ELSE n

Hours ==
    /\ row # NoRow
    /\ row' = [row EXCEPT !.age = Older(@), !.seen = Older(@)]
    /\ written' = Older(written)
    /\ UNCHANGED <<work, lock, task, request>>

Restart ==
    /\ lock' = FALSE /\ task' = Idle /\ request' = [r \in Requests |-> Idle]
    /\ UNCHANGED <<work, row, written>>

Init ==
    /\ work = {} /\ row = NoRow /\ written = 0
    /\ lock = FALSE /\ task = Idle /\ request = [r \in Requests |-> Idle]

Next ==
    \/ \E r \in Requests :
          \/ Ask(r) \/ Empty(r) \/ Skip(r) \/ AskModel(r) \/ Written(r) \/ Unwritten(r) \/ End(r)
          \/ \E failed \in SUBSET TeamProducts : Fetch(r, failed)
    \/ \E failed \in SUBSET TeamProducts : TaskFetch(failed)
    \/ TaskStart \/ TaskAskModel \/ TaskSkip \/ TaskStore \/ TaskFails
    \/ \E c \in Commits : Work(c)
    \/ Hours \/ Restart

Spec == Init /\ [][Next]_vars

-----------------------------------------------------------------------------
\* While the dictionary keeps other tasks from being started there is one that
\* will release it, whichever way it ends.
LockHasTask == lock <=> task # Idle

\* A text served as not stale is young, or exactly as many commits were found
\* just now as it is about.
FreshOrSameCount ==
    \A r \in Requests :
        request[r].pc = "answered" /\ ~request[r].stale =>
            request[r].age < Warm \/ Cardinality(request[r].got) = Cardinality(request[r].of)

\* What one would expect, and comparing numbers does not give: a text served as
\* not stale is young or about the commits there are.
FreshIsAboutTheWork ==
    \A r \in Requests :
        request[r].pc = "answered" /\ ~request[r].stale =>
            request[r].age < Warm \/ request[r].got = request[r].of

\* What one would expect, and an answer without commits does not give: while
\* there is work, a text about some of it is not replaced by an empty one.
OutagesKeepTheText ==
    [][row # NoRow /\ row.of \intersect work # {} => row'.of # {}]_vars
=============================================================================
