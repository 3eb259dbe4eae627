--------------------------- MODULE CustomDocJobs ---------------------------
(***************************************************************************)
(* Custom document generation: the rate limit, the rows of custom_doc_jobs *)
(* and the background workers that fill them, for the users of one         *)
(* product.  A worker keeps no row in memory: it asks the database between *)
(* two pieces of work whether its job was cancelled, and writes with       *)
(* UPDATE statements by job id.                                            *)
(*                                                                         *)
(* A piece of work is what costs money: the analysis of the repositories   *)
(* and each call of the language model.                                    *)
(***************************************************************************)
EXTENDS Naturals, FiniteSets

CONSTANTS
    Users,
    Jobs,            \* identities of accepted requests
    Handlers,        \* HTTP requests that can be in flight at the same time
    MaxRequests,     \* RATE_LIMITS[tier]["max_requests"]
    MaxCorrections,  \* MAX_CORRECTION_ITERATIONS
    NoUser,
    Features         \* what may happen in this instance, see FeatureKinds

\* "background", "sync": kinds of requests; "cancel": users cancel jobs;
\* "raise": a piece of work fails; "kill": the process of a worker ends;
\* "lostack": a commit is applied but reported as failed; "hour", "day": time
\* passes; "cleanup": somebody runs cleanup_expired_jobs.
FeatureKinds == {"background", "sync", "cancel", "raise", "kill", "lostack",
                 "hour", "day", "cleanup"}

ASSUME JobsAssumption ==
    /\ MaxRequests \in Nat \ {0}
    /\ MaxCorrections \in Nat
    /\ NoUser \notin Users
    /\ Features \subseteq FeatureKinds

VARIABLES
    jobs,      \* accepted requests and their rows
    workers,   \* _run_background_generation, one per job
    requests   \* user of a request that has passed the rate limit, per handler

vars == <<jobs, workers, requests>>

\* "absent": there is no row for it (never, or not any more).
Status == {"absent", "generating", "completed", "failed", "cancelled"}

\* less than one hour, one hour to a day, more than a day old
Age == {"new", "expired", "out"}

Progress == {"analyzing", "planning", "generating", "finalizing", "complete"}

Job == [user: Users \union {NoUser}, status: Status, progress: Progress,
        content: BOOLEAN, error: BOOLEAN, age: Age]

Unused == [user |-> NoUser, status |-> "absent", progress |-> "analyzing",
           content |-> FALSE, error |-> FALSE, age |-> "out"]

\* "analyzing" and "generating": reported, the work is about to begin;
\* "analyzed" and "called": it has begun.
WorkerPC == {"none", "starting", "analyzing", "analyzed", "planning", "generating",
             "called", "finalizing", "failing", "ended", "lost"}

\* late: pieces of work begun although the job was cancelled (a history variable)
Worker == [pc: WorkerPC, corrections: 0..MaxCorrections, late: Nat]
NoWorker == [pc |-> "none", corrections |-> 0, late |-> 0]

Working == WorkerPC \ {"none", "ended", "lost"}

\* Types of the state: a row only holds the statuses and stages the code names,
\* and no worker goes beyond MaxCorrections rounds.
TypeOK ==
    /\ jobs \in [Jobs -> Job]
    /\ workers \in [Jobs -> Worker]
    /\ requests \in [Handlers -> Users \union {NoUser}]

-----------------------------------------------------------------------------
(* POST custom: count the user's recent rows, later insert one.            *)

Counted(u) == {j \in Jobs : jobs[j].user = u /\ jobs[j].status # "absent" /\ jobs[j].age # "out"}

\* Wrong variant: the limit itself is still accepted.
UnderLimit_OffByOne(u) == Cardinality(Counted(u)) <= MaxRequests

UnderLimit(u) == Cardinality(Counted(u)) < MaxRequests

CheckLimit(h) ==
    /\ requests[h] = NoUser
    /\ \E u \in Users :
         /\ UnderLimit(u)
         /\ requests' = [requests EXCEPT ![h] = u]
    /\ UNCHANGED <<jobs, workers>>

\* A job identity nobody uses: an unused one, or one of a forgotten request.
Free(j) == jobs[j].user = NoUser

AcceptBackground(h) ==
    /\ "background" \in Features
    /\ requests[h] # NoUser
    /\ \E j \in Jobs :
         /\ Free(j)
         /\ jobs' = [jobs EXCEPT ![j] =
                       [Unused EXCEPT !.user = requests[h], !.status = "generating",
                                      !.age = "new"]]
         /\ workers' = [workers EXCEPT ![j] = [NoWorker EXCEPT !.pc = "starting"]]
    /\ requests' = [requests EXCEPT ![h] = NoUser]

\* A synchronous generation or an assessment runs without a row.
AcceptSync(h) ==
    /\ "sync" \in Features
    /\ requests[h] # NoUser
    /\ \E j \in Jobs :
         /\ Free(j)
         /\ jobs' = [jobs EXCEPT ![j] = [Unused EXCEPT !.user = requests[h], !.age = "new"]]
    /\ requests' = [requests EXCEPT ![h] = NoUser]
    /\ UNCHANGED workers

\* No token, no repositories, or an unknown assessment type.
Refuse(h) ==
    /\ requests[h] # NoUser
    /\ requests' = [requests EXCEPT ![h] = NoUser]
    /\ UNCHANGED <<jobs, workers>>

-----------------------------------------------------------------------------
(* POST cancel: one conditional UPDATE.                                    *)

\* Wrong variant: a job is cancelled whatever its status.
Cancellable_Any(job) == job.status # "absent"

Cancellable(job) == job.status = "generating"

Cancel(j) ==
    /\ "cancel" \in Features
    /\ Cancellable(jobs[j])
    /\ jobs' = [jobs EXCEPT ![j].status = "cancelled"]
    /\ UNCHANGED <<workers, requests>>

-----------------------------------------------------------------------------
(* The worker.                                                             *)

\* is_cancelled: false for a row that is gone.
Cancelled(j) == jobs[j].status = "cancelled"

\* An UPDATE by id: no effect on a row that is gone.
Update(j, new) == IF jobs[j].status = "absent" THEN jobs[j] ELSE new

\* Wrong variant: the next stage is entered without asking.
Enter_Unchecked(j, k, stage) ==
    /\ workers' = [workers EXCEPT ![j] = k]
    /\ jobs' = [jobs EXCEPT ![j] = Update(j, [jobs[j] EXCEPT !.progress = stage])]
    /\ UNCHANGED requests

\* A check between two stages: the worker stops, with nothing to write, or goes
\* on as k and reports the stage.
Enter(j, k, stage) ==
    /\ IF Cancelled(j)
       THEN /\ workers' = [workers EXCEPT ![j].pc = "ended"]
            /\ UNCHANGED jobs
       ELSE /\ workers' = [workers EXCEPT ![j] = k]
            /\ jobs' = [jobs EXCEPT ![j] = Update(j, [jobs[j] EXCEPT !.progress = stage])]
    /\ UNCHANGED requests

EnterAnalysis(j) ==
    /\ workers[j].pc = "starting"
    /\ Enter(j, [workers[j] EXCEPT !.pc = "analyzing"], "analyzing")

EnterPlanning(j) ==
    /\ workers[j].pc = "analyzed"
    /\ Enter(j, [workers[j] EXCEPT !.pc = "planning"], "planning")

EnterGeneration(j) ==
    /\ workers[j].pc = "planning"
    /\ Enter(j, [workers[j] EXCEPT !.pc = "generating"], "generating")

\* A piece of work begins; the job may have been cancelled since the check.
Begin(j, pc) ==
    /\ workers' = [workers EXCEPT ![j].pc = pc,
                                  ![j].late = IF Cancelled(j) THEN @ + 1 ELSE @]
    /\ UNCHANGED <<jobs, requests>>

Analyze(j) == workers[j].pc = "analyzing" /\ Begin(j, "analyzed")

CallModel(j) == workers[j].pc = "generating" /\ Begin(j, "called")

\* Wrong variant: the round is not counted.
Corrected_Uncounted(k) == [k EXCEPT !.pc = "generating"]

Corrected(k) == [k EXCEPT !.pc = "generating", !.corrections = @ + 1]

\* The validator objects to what the model wrote: ask again, with a limit.
Correct(j) ==
    /\ workers[j].pc = "called"
    /\ workers[j].corrections < MaxCorrections
    /\ Enter(j, Corrected(workers[j]), jobs[j].progress)

EnterFinalizing(j) ==
    /\ workers[j].pc = "called"
    /\ Enter(j, [workers[j] EXCEPT !.pc = "finalizing"], "finalizing")

\* Wrong variant: the status gets the word that belongs to the progress.
Result_Complete(job) ==
    [job EXCEPT !.status = "complete", !.progress = "complete", !.content = TRUE]

\* set_completed, whatever the status is by now.
Result(job) ==
    [job EXCEPT !.status = "completed", !.progress = "complete", !.content = TRUE]

Store(j) ==
    /\ workers[j].pc = "finalizing"
    /\ jobs' = [jobs EXCEPT ![j] = Update(j, Result(jobs[j]))]
    /\ \/ workers' = [workers EXCEPT ![j].pc = "ended"]
       \/ "lostack" \in Features /\ workers' = [workers EXCEPT ![j].pc = "failing"]
    /\ UNCHANGED requests

\* Wrong variant: a failure before the first stage is only logged.
Failing_Silent(k) == [k EXCEPT !.pc = IF k.pc = "starting" THEN "ended" ELSE "failing"]

Failing(k) == [k EXCEPT !.pc = "failing"]

\* An exception: the product is gone, GitHub, the model or the database fails.
Raise(j) ==
    /\ "raise" \in Features
    /\ workers[j].pc \in Working \ {"failing"}
    /\ workers' = [workers EXCEPT ![j] = Failing(workers[j])]
    /\ UNCHANGED <<jobs, requests>>

\* set_failed, whatever the status is by now.
StoreFailure(j) ==
    /\ workers[j].pc = "failing"
    /\ jobs' = [jobs EXCEPT ![j] =
                   Update(j, [jobs[j] EXCEPT !.status = "failed", !.error = TRUE])]
    /\ workers' = [workers EXCEPT ![j].pc = "ended"]
    /\ UNCHANGED requests

\* The process ends, or the failure cannot be stored either.
Lose(j) ==
    /\ "kill" \in Features
    /\ workers[j].pc \in Working
    /\ workers' = [workers EXCEPT ![j].pc = "lost"]
    /\ UNCHANGED <<jobs, requests>>

-----------------------------------------------------------------------------
(* Time, and the removal of expired rows.                                  *)

Older(from, to) ==
    jobs' = [j \in Jobs |-> IF jobs[j].age = from THEN [jobs[j] EXCEPT !.age = to] ELSE jobs[j]]

HourPasses ==
    /\ "hour" \in Features
    /\ \E j \in Jobs : jobs[j].age = "new"
    /\ Older("new", "expired")
    /\ UNCHANGED <<workers, requests>>

\* The window of the rate limit moves on; a worker has long ended by then.
DayPasses ==
    /\ "day" \in Features
    /\ \E j \in Jobs : jobs[j].age = "expired"
    /\ \A j \in Jobs : jobs[j].age = "expired" => workers[j].pc \notin Working
    /\ Older("expired", "out")
    /\ UNCHANGED <<workers, requests>>

\* cleanup_expired_jobs, which nothing in the program calls.
CleanupExpired ==
    /\ "cleanup" \in Features
    /\ \E j \in Jobs : jobs[j].status # "absent" /\ jobs[j].age # "new"
    /\ jobs' = [j \in Jobs |->
                  IF jobs[j].status # "absent" /\ jobs[j].age # "new"
                  THEN [Unused EXCEPT !.user = jobs[j].user, !.age = jobs[j].age]
                  ELSE jobs[j]]
    /\ UNCHANGED <<workers, requests>>

\* Bookkeeping of the model: the identity of a request that left the window is
\* used again.
Forget(j) ==
    /\ jobs[j].user # NoUser /\ jobs[j].age = "out"
    /\ workers[j].pc \notin Working
    /\ jobs' = [jobs EXCEPT ![j] = Unused]
    /\ workers' = [workers EXCEPT ![j] = NoWorker]
    /\ UNCHANGED requests

-----------------------------------------------------------------------------
Init ==
    /\ jobs = [j \in Jobs |-> Unused]
    /\ workers = [j \in Jobs |-> NoWorker]
    /\ requests = [h \in Handlers |-> NoUser]

RequestStep(h) == CheckLimit(h) \/ AcceptBackground(h) \/ AcceptSync(h) \/ Refuse(h)

WorkerStep(j) ==
    \/ EnterAnalysis(j) \/ Analyze(j) \/ EnterPlanning(j) \/ EnterGeneration(j)
    \/ CallModel(j) \/ Correct(j) \/ EnterFinalizing(j) \/ Store(j) \/ StoreFailure(j)

Next ==
    \/ \E h \in Handlers : RequestStep(h)
    \/ \E j \in Jobs : WorkerStep(j) \/ Cancel(j) \/ Raise(j) \/ Lose(j) \/ Forget(j)
    \/ HourPasses \/ DayPasses \/ CleanupExpired

Spec == Init /\ [][Next]_vars

\* A worker that is not lost runs on.
Fairness == \A j \in Jobs : WF_vars(WorkerStep(j))

FairSpec == Spec /\ Fairness

-----------------------------------------------------------------------------
(* What the component promises.                                            *)

\* A row has a result exactly if it says "completed": a poller that sees
\* "completed" gets content, and no other status comes with content.  Cancel
\* and the two unguarded writes of the worker interleave freely.
ResultIffCompleted ==
    \A j \in Jobs : jobs[j].content <=> jobs[j].status = "completed"

\* Workers check for cancellation before each piece of work, so a cancelled job
\* costs at most one more: the one whose check came just before the cancel.
LateWorkBounded == \A j \in Jobs : workers[j].late <= 1

\* A worker that ended, and was not lost, has left a final status behind.
EndedIsSettled ==
    \A j \in Jobs : workers[j].pc = "ended" => jobs[j].status # "generating"

\* What makes these inductive: without lost acknowledgements a worker only works
\* for a job without an outcome, an unused identity has no row, an error text
\* comes with "failed" only, and a worker that has begun a piece of work late is
\* not about to begin another while the job is cancelled.
SettledInv ==
    /\ ResultIffCompleted
    /\ EndedIsSettled
    /\ \A j \in Jobs :
         /\ jobs[j].error <=> jobs[j].status = "failed"
         /\ workers[j].pc \in Working => jobs[j].status \notin {"completed", "failed"}
         /\ Free(j) => jobs[j].status = "absent"

LateInv ==
    \A j \in Jobs :
        \/ workers[j].late = 0
        \/ /\ workers[j].late = 1
           /\ workers[j].pc \in Working \ {"failing"} =>
                \/ jobs[j].status = "absent"
                \/ /\ jobs[j].status = "cancelled"
                   /\ workers[j].pc \notin {"analyzing", "generating"}

\* What a status request answers.
Answer(job) == [status |-> job.status, content |-> job.content, error |-> job.error]

Answers == [j \in Jobs |-> Answer(jobs[j])]

View == INSTANCE JobView WITH answer <- Answers

\* Somebody who polls sees the life of a job as JobView tells it: a result that
\* was announced is never taken back, a failure never turns into a result, and
\* only a running job is cancelled.
ImplementsView == View!Spec

\* Of the requests a user had accepted in the last day there are no more than
\* the plan's limit, whether they left a row behind or not.
WithinLimit ==
    \A u \in Users :
        Cardinality({j \in Jobs : jobs[j].user = u /\ jobs[j].age # "out"}) <= MaxRequests

\* What one would expect, and does not hold: "This marks the job as cancelled
\* and stops further processing" (the docstring of the cancel endpoint), so that
\* no result is stored afterwards.
CancelledStaysCancelled ==
    [][\A j \in Jobs : jobs[j].status = "cancelled"
                          => jobs'[j].status \in {"cancelled", "absent"}]_vars

\* Every accepted background job reaches a final status, unless its process ends
\* on the way: in particular the correction loop ends.
JobsEnd ==
    \A j \in Jobs :
        (jobs[j].status = "generating")
          ~> (jobs[j].status # "generating" \/ workers[j].pc = "lost")
=============================================================================
