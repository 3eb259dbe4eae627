------------------------ MODULE CustomDocJobs_proofs ------------------------
(***************************************************************************)
(* Proofs about CustomDocJobs, for any number of users, jobs and requests  *)
(* and any limits.  A commit that is applied but reported as failed        *)
(* ("lostack") is excluded where a theorem says so.                        *)
(***************************************************************************)
EXTENDS CustomDocJobs, FiniteSetTheorems, TLAPS

LEMMA UnusedTypes == Unused \in Job /\ NoWorker \in Worker
    BY JobsAssumption
    DEF Unused, Job, Status, Progress, Age, NoWorker, Worker, WorkerPC

LEMMA EnterTypes ==
    ASSUME TypeOK, NEW j \in Jobs, NEW k \in Worker, NEW stage \in Progress,
           Enter(j, k, stage)
    PROVE  TypeOK'
<1>1. [workers[j] EXCEPT !.pc = "ended"] \in Worker
    BY DEF TypeOK, Worker, WorkerPC
<1>2. Update(j, [jobs[j] EXCEPT !.progress = stage]) \in Job
    BY DEF TypeOK, Update, Job
<1>3. CASE Cancelled(j)
    BY <1>1, <1>3 DEF Enter, TypeOK
<1>4. CASE ~Cancelled(j)
    BY <1>2, <1>4 DEF Enter, TypeOK
<1> QED  BY <1>3, <1>4

LEMMA BeginTypes ==
    ASSUME TypeOK, NEW j \in Jobs, NEW pc \in WorkerPC, Begin(j, pc)
    PROVE  TypeOK'
<1> DEFINE late == IF Cancelled(j) THEN workers[j].late + 1 ELSE workers[j].late
           k == [workers[j] EXCEPT !.pc = pc, !.late = late]
<1>1. workers[j] \in Worker /\ late \in Nat
    BY DEF TypeOK, Worker
<1>2. k \in Worker
    BY <1>1 DEF Worker
<1>3. workers' = [workers EXCEPT ![j] = k]
    BY DEF Begin, TypeOK
<1> QED  BY <1>2, <1>3 DEF Begin, TypeOK

LEMMA CorrectedType ==
    ASSUME NEW k \in Worker, k.corrections < MaxCorrections
    PROVE  Corrected(k) \in Worker
<1>1. k.corrections \in 0 .. MaxCorrections - 1
    BY JobsAssumption DEF Worker
<1>2. k.corrections + 1 \in 0 .. MaxCorrections
    BY <1>1, JobsAssumption
<1> QED  BY <1>2 DEF Corrected, Worker, WorkerPC

LEMMA RequestTypes ==
    ASSUME TypeOK, NEW h \in Handlers, RequestStep(h)
    PROVE  TypeOK'
<1> USE DEF TypeOK
<1>1. CASE CheckLimit(h)
    BY <1>1 DEF CheckLimit
<1>2. CASE AcceptBackground(h)
    <2>1. PICK j \in Jobs :
            /\ jobs' = [jobs EXCEPT ![j] =
                          [Unused EXCEPT !.user = requests[h], !.status = "generating",
                                         !.age = "new"]]
            /\ workers' = [workers EXCEPT ![j] = [NoWorker EXCEPT !.pc = "starting"]]
        BY <1>2 DEF AcceptBackground
    <2>2. [Unused EXCEPT !.user = requests[h], !.status = "generating", !.age = "new"] \in Job
        BY UnusedTypes DEF Job, Status, Age
    <2>3. [NoWorker EXCEPT !.pc = "starting"] \in Worker
        BY UnusedTypes DEF Worker, WorkerPC
    <2>4. requests' \in [Handlers -> Users \union {NoUser}]
        BY <1>2 DEF AcceptBackground
    <2> QED  BY <2>1, <2>2, <2>3, <2>4
<1>3. CASE AcceptSync(h)
    <2>1. PICK j \in Jobs :
            jobs' = [jobs EXCEPT ![j] = [Unused EXCEPT !.user = requests[h], !.age = "new"]]
        BY <1>3 DEF AcceptSync
    <2>2. [Unused EXCEPT !.user = requests[h], !.age = "new"] \in Job
        BY UnusedTypes DEF Job, Age
    <2> QED  BY <1>3, <2>1, <2>2 DEF AcceptSync
<1>4. CASE Refuse(h)
    BY <1>4 DEF Refuse
<1> QED  BY <1>1, <1>2, <1>3, <1>4 DEF RequestStep

LEMMA WorkerTypes ==
    ASSUME TypeOK, NEW j \in Jobs, WorkerStep(j)
    PROVE  TypeOK'
<1> USE DEF TypeOK
<1>0. /\ \A pc \in WorkerPC : [workers[j] EXCEPT !.pc = pc] \in Worker
      /\ jobs[j].progress \in Progress
    BY DEF Worker, Job
<1>1. CASE EnterAnalysis(j)
    BY <1>0, <1>1, EnterTypes DEF EnterAnalysis, WorkerPC, Progress
<1>2. CASE Analyze(j)
    BY <1>2, BeginTypes DEF Analyze, WorkerPC
<1>3. CASE EnterPlanning(j)
    BY <1>0, <1>3, EnterTypes DEF EnterPlanning, WorkerPC, Progress
<1>4. CASE EnterGeneration(j)
    BY <1>0, <1>4, EnterTypes DEF EnterGeneration, WorkerPC, Progress
<1>5. CASE CallModel(j)
    BY <1>5, BeginTypes DEF CallModel, WorkerPC
<1>6. CASE Correct(j)
    BY <1>0, <1>6, CorrectedType, EnterTypes DEF Correct
<1>7. CASE EnterFinalizing(j)
    BY <1>0, <1>7, EnterTypes DEF EnterFinalizing, WorkerPC, Progress
<1>8. CASE Store(j)
    <2>1. Update(j, Result(jobs[j])) \in Job
        BY DEF Update, Result, Job, Status, Progress
    <2>2. workers' \in [Jobs -> Worker]
        BY <1>0, <1>8 DEF Store, WorkerPC
    <2> QED  BY <1>8, <2>1, <2>2 DEF Store
<1>9. CASE StoreFailure(j)
    <2>1. Update(j, [jobs[j] EXCEPT !.status = "failed", !.error = TRUE]) \in Job
        BY DEF Update, Job, Status
    <2>2. workers' \in [Jobs -> Worker]
        BY <1>0, <1>9 DEF StoreFailure, WorkerPC
    <2> QED  BY <1>9, <2>1, <2>2 DEF StoreFailure
<1> QED  BY <1>1, <1>2, <1>3, <1>4, <1>5, <1>6, <1>7, <1>8, <1>9 DEF WorkerStep

LEMMA TypesStay ==
    ASSUME TypeOK, [Next]_vars
    PROVE  TypeOK'
<1>1. CASE \E h \in Handlers : RequestStep(h)
    BY <1>1, RequestTypes
<1>2. CASE \E j \in Jobs : WorkerStep(j)
    BY <1>2, WorkerTypes
<1>3. CASE \E j \in Jobs : Cancel(j)
    BY <1>3 DEF Cancel, TypeOK, Job, Status
<1>4. CASE \E j \in Jobs : Raise(j)
    BY <1>4 DEF Raise, Failing, TypeOK, Worker, WorkerPC
<1>5. CASE \E j \in Jobs : Lose(j)
    BY <1>5 DEF Lose, TypeOK, Worker, WorkerPC
<1>6. CASE \E j \in Jobs : Forget(j)
    BY <1>6, UnusedTypes DEF Forget, TypeOK
<1>7. CASE HourPasses
    BY <1>7 DEF HourPasses, Older, TypeOK, Job, Age
<1>8. CASE DayPasses
    BY <1>8 DEF DayPasses, Older, TypeOK, Job, Age
<1>9. CASE CleanupExpired
    BY <1>9, UnusedTypes DEF CleanupExpired, TypeOK, Job
<1>10. CASE UNCHANGED vars
    BY <1>10 DEF vars, TypeOK
<1> QED  BY <1>1, <1>2, <1>3, <1>4, <1>5, <1>6, <1>7, <1>8, <1>9, <1>10 DEF Next

\* Rows and workers keep their types; the rounds of correction stay within the
\* limit of the code.
THEOREM JobsTypeCorrect == Spec => []TypeOK
<1>1. Init => TypeOK
    BY UnusedTypes DEF Init, TypeOK
<1>2. TypeOK /\ [Next]_vars => TypeOK'
    BY TypesStay
<1> QED  BY <1>1, <1>2, PTL DEF Spec

-----------------------------------------------------------------------------
(* What one step does to the row and the worker of one job.                *)

SettledFor(job, k) ==
    /\ job.content <=> job.status = "completed"
    /\ job.error <=> job.status = "failed"
    /\ k.pc = "ended" => job.status # "generating"
    /\ k.pc \in Working => job.status \notin {"completed", "failed"}
    /\ job.user = NoUser => job.status = "absent"

LEMMA SettledByJob == SettledInv <=> \A j \in Jobs : SettledFor(jobs[j], workers[j])
    BY DEF SettledInv, SettledFor, ResultIffCompleted, EndedIsSettled, Free

\* The rest of a step touches the job j only.
Only(j) == \A i \in Jobs \ {j} : jobs'[i] = jobs[i] /\ workers'[i] = workers[i]

LEMMA EnterEffect ==
    ASSUME TypeOK, NEW j \in Jobs, NEW k \in Worker, NEW stage \in Progress,
           Enter(j, k, stage), workers[j].pc \in Working, k.pc \in Working,
           SettledFor(jobs[j], workers[j])
    PROVE  /\ Only(j)
           /\ SettledFor(jobs'[j], workers'[j])
<1>1. Only(j)
    BY DEF Only, Enter, TypeOK
<1>2. CASE Cancelled(j)
    BY <1>1, <1>2 DEF Enter, TypeOK, Worker, Cancelled, SettledFor, Working
<1>3. CASE ~Cancelled(j)
    <2>1. /\ workers'[j] = k
          /\ jobs'[j] = Update(j, [jobs[j] EXCEPT !.progress = stage])
        BY <1>3 DEF Enter, TypeOK
    <2>2. jobs[j] \in Job
        BY DEF TypeOK
    <2>3. /\ jobs'[j].status = jobs[j].status
          /\ jobs'[j].content = jobs[j].content
          /\ jobs'[j].error = jobs[j].error
          /\ jobs'[j].user = jobs[j].user
        BY <2>1, <2>2 DEF Update, Job
    <2>4. k.pc # "ended"
        BY DEF Working
    <2> QED  BY <1>1, <2>1, <2>3, <2>4 DEF SettledFor
<1> QED  BY <1>2, <1>3

LEMMA BeginEffect ==
    ASSUME TypeOK, NEW j \in Jobs, NEW pc \in Working, Begin(j, pc),
           workers[j].pc \in Working, SettledFor(jobs[j], workers[j])
    PROVE  /\ Only(j)
           /\ SettledFor(jobs'[j], workers'[j])
<1>1. Only(j) /\ jobs'[j] = jobs[j] /\ workers'[j].pc = pc
    BY DEF Only, Begin, TypeOK, Worker
<1>2. pc # "ended"
    BY DEF Working
<1> QED  BY <1>1, <1>2 DEF SettledFor

LEMMA WorkerEffect ==
    ASSUME TypeOK, NEW j \in Jobs, WorkerStep(j), "lostack" \notin Features,
           SettledFor(jobs[j], workers[j])
    PROVE  /\ Only(j)
           /\ SettledFor(jobs'[j], workers'[j])
<1>1. /\ workers[j] \in Worker /\ jobs[j] \in Job
      /\ jobs[j].progress \in Progress
    BY DEF TypeOK, Job
<1>2. \A pc \in Working : /\ [workers[j] EXCEPT !.pc = pc] \in Worker
                           /\ [workers[j] EXCEPT !.pc = pc].pc \in Working
    BY <1>1 DEF Worker, Working
<1>3. CASE EnterAnalysis(j)
    BY <1>2, <1>3, EnterEffect DEF EnterAnalysis, Working, WorkerPC, Progress
<1>4. CASE Analyze(j)
    BY <1>4, BeginEffect DEF Analyze, Working, WorkerPC
<1>5. CASE EnterPlanning(j)
    BY <1>2, <1>5, EnterEffect DEF EnterPlanning, Working, WorkerPC, Progress
<1>6. CASE EnterGeneration(j)
    BY <1>2, <1>6, EnterEffect DEF EnterGeneration, Working, WorkerPC, Progress
<1>7. CASE CallModel(j)
    BY <1>7, BeginEffect DEF CallModel, Working, WorkerPC
<1>8. CASE Correct(j)
    <2>1. /\ Corrected(workers[j]) \in Worker
          /\ Corrected(workers[j]).pc \in Working
        BY <1>1, <1>8, CorrectedType DEF Correct, Corrected, Worker, Working, WorkerPC
    <2>2. workers[j].pc \in Working
        BY <1>8 DEF Correct, Working, WorkerPC
    <2> QED  BY <1>1, <1>8, <2>1, <2>2, EnterEffect DEF Correct
<1>9. CASE EnterFinalizing(j)
    BY <1>2, <1>9, EnterEffect DEF EnterFinalizing, Working, WorkerPC, Progress
<1>10. CASE Store(j)
    <2>1. /\ Only(j)
          /\ workers[j].pc \in Working
          /\ workers'[j].pc = "ended"
          /\ jobs'[j] = Update(j, Result(jobs[j]))
        BY <1>10 DEF Store, Only, TypeOK, Worker, Working, WorkerPC
    <2>2. CASE jobs[j].status = "absent"
        BY <2>1, <2>2 DEF Update, SettledFor, Working
    <2>3. CASE jobs[j].status # "absent"
        <3>1. /\ jobs'[j].status = "completed"
              /\ jobs'[j].content = TRUE
              /\ jobs'[j].error = jobs[j].error
              /\ jobs'[j].user = jobs[j].user
            BY <1>1, <2>1, <2>3 DEF Update, Result, Job
        <3> QED  BY <2>1, <2>3, <3>1 DEF SettledFor, Working
    <2> QED  BY <2>2, <2>3
<1>11. CASE StoreFailure(j)
    <2>1. /\ Only(j)
          /\ workers[j].pc \in Working
          /\ workers'[j].pc = "ended"
          /\ jobs'[j] = Update(j, [jobs[j] EXCEPT !.status = "failed", !.error = TRUE])
        BY <1>11 DEF StoreFailure, Only, TypeOK, Worker, Working, WorkerPC
    <2>2. CASE jobs[j].status = "absent"
        BY <2>1, <2>2 DEF Update, SettledFor, Working
    <2>3. CASE jobs[j].status # "absent"
        <3>1. /\ jobs'[j].status = "failed"
              /\ jobs'[j].content = jobs[j].content
              /\ jobs'[j].error = TRUE
              /\ jobs'[j].user = jobs[j].user
            BY <1>1, <2>1, <2>3 DEF Update, Job
        <3> QED  BY <2>1, <2>3, <3>1 DEF SettledFor, Working
    <2> QED  BY <2>2, <2>3
<1> QED  BY <1>3, <1>4, <1>5, <1>6, <1>7, <1>8, <1>9, <1>10, <1>11 DEF WorkerStep

LEMMA RequestEffect ==
    ASSUME TypeOK, NEW h \in Handlers, RequestStep(h), NEW i \in Jobs,
           SettledFor(jobs[i], workers[i])
    PROVE  SettledFor(jobs'[i], workers'[i])
<1>1. CASE CheckLimit(h)
    BY <1>1 DEF CheckLimit, SettledFor
<1>2. CASE AcceptBackground(h)
    <2>1. PICK j \in Jobs :
            /\ Free(j)
            /\ jobs' = [jobs EXCEPT ![j] =
                          [Unused EXCEPT !.user = requests[h], !.status = "generating",
                                         !.age = "new"]]
            /\ workers' = [workers EXCEPT ![j] = [NoWorker EXCEPT !.pc = "starting"]]
        BY <1>2 DEF AcceptBackground
    <2>2. CASE i = j
        <3>1. /\ jobs'[i].status = "generating" /\ jobs'[i].content = FALSE /\ jobs'[i].error = FALSE
              /\ jobs'[i].user = requests[h] /\ workers'[i].pc = "starting"
            BY <2>1, <2>2 DEF TypeOK, Unused, NoWorker
        <3> QED  BY <1>2, <2>1, <2>2, <3>1 DEF AcceptBackground, Free, SettledFor
    <2> QED  BY <2>1, <2>2 DEF TypeOK, SettledFor
<1>3. CASE AcceptSync(h)
    <2>1. PICK j \in Jobs :
            jobs' = [jobs EXCEPT ![j] = [Unused EXCEPT !.user = requests[h], !.age = "new"]]
        BY <1>3 DEF AcceptSync
    <2>2. CASE i = j
        <3>1. /\ jobs'[i].status = "absent" /\ jobs'[i].content = FALSE /\ jobs'[i].error = FALSE
              /\ workers' = workers
            BY <1>3, <2>1, <2>2 DEF AcceptSync, TypeOK, Unused
        <3> QED  BY <3>1 DEF SettledFor
    <2> QED  BY <1>3, <2>1, <2>2 DEF AcceptSync, TypeOK, SettledFor
<1>4. CASE Refuse(h)
    BY <1>4 DEF Refuse, SettledFor
<1> QED  BY <1>1, <1>2, <1>3, <1>4 DEF RequestStep

LEMMA OtherEffect ==
    ASSUME TypeOK, NEW i \in Jobs, SettledFor(jobs[i], workers[i]),
           \/ \E j \in Jobs : Cancel(j) \/ Raise(j) \/ Lose(j) \/ Forget(j)
           \/ HourPasses \/ DayPasses \/ CleanupExpired
    PROVE  SettledFor(jobs'[i], workers'[i])
<1>0. jobs[i] \in Job /\ workers[i] \in Worker
    BY DEF TypeOK
<1>1. ASSUME NEW j \in Jobs, Cancel(j) PROVE  SettledFor(jobs'[i], workers'[i])
    <2>1. workers' = workers /\ (i # j => jobs'[i] = jobs[i])
        BY <1>1 DEF Cancel, TypeOK
    <2>2. i = j => /\ jobs[i].status = "generating" /\ jobs'[i].status = "cancelled"
                   /\ jobs'[i].content = jobs[i].content
                   /\ jobs'[i].error = jobs[i].error /\ jobs'[i].user = jobs[i].user
        BY <1>0, <1>1 DEF Cancel, Cancellable, TypeOK, Job
    <2> QED  BY <2>1, <2>2 DEF SettledFor
<1>2. ASSUME NEW j \in Jobs, Raise(j) PROVE  SettledFor(jobs'[i], workers'[i])
    <2>1. jobs' = jobs /\ (i # j => workers'[i] = workers[i])
        BY <1>2 DEF Raise, TypeOK
    <2>2. i = j => workers[i].pc \in Working /\ workers'[i].pc = "failing"
        BY <1>0, <1>2 DEF Raise, Failing, TypeOK, Worker
    <2> QED  BY <2>1, <2>2 DEF SettledFor
<1>3. ASSUME NEW j \in Jobs, Lose(j) PROVE  SettledFor(jobs'[i], workers'[i])
    <2>1. jobs' = jobs /\ (i # j => workers'[i] = workers[i])
        BY <1>3 DEF Lose, TypeOK
    <2>2. i = j => workers'[i].pc = "lost"
        BY <1>0, <1>3 DEF Lose, TypeOK, Worker
    <2> QED  BY <2>1, <2>2 DEF SettledFor, Working
<1>4. ASSUME NEW j \in Jobs, Forget(j) PROVE  SettledFor(jobs'[i], workers'[i])
    BY <1>0, <1>4 DEF Forget, TypeOK, Unused, NoWorker, SettledFor
<1>5. ASSUME HourPasses \/ DayPasses PROVE  SettledFor(jobs'[i], workers'[i])
    <2>1. /\ workers' = workers /\ jobs'[i].status = jobs[i].status
          /\ jobs'[i].content = jobs[i].content
          /\ jobs'[i].error = jobs[i].error /\ jobs'[i].user = jobs[i].user
        BY <1>0, <1>5 DEF HourPasses, DayPasses, Older, Job
    <2> QED  BY <2>1 DEF SettledFor
<1>6. ASSUME CleanupExpired PROVE  SettledFor(jobs'[i], workers'[i])
    <2>1. /\ workers' = workers
          /\ \/ jobs'[i] = jobs[i]
             \/ jobs'[i].status = "absent" /\ jobs'[i].content = FALSE /\ jobs'[i].error = FALSE
        BY <1>6 DEF CleanupExpired, Unused
    <2> QED  BY <2>1 DEF SettledFor
<1> QED  BY <1>1, <1>2, <1>3, <1>4, <1>5, <1>6

\* One step: every job stays settled.
LEMMA StepEffect ==
    ASSUME TypeOK, SettledInv, [Next]_vars, "lostack" \notin Features
    PROVE  SettledInv'
<1> SUFFICES ASSUME NEW i \in Jobs
             PROVE  SettledFor(jobs'[i], workers'[i])
    BY DEF SettledInv, SettledFor, ResultIffCompleted, EndedIsSettled, Free
<1>0. SettledFor(jobs[i], workers[i])
    BY SettledByJob
<1>1. CASE \E h \in Handlers : RequestStep(h)
    BY <1>0, <1>1, RequestEffect
<1>2. CASE \E j \in Jobs : WorkerStep(j)
    <2>1. PICK j \in Jobs : WorkerStep(j)
        BY <1>2
    <2>2. CASE i = j
        BY <1>0, <2>1, <2>2, WorkerEffect
    <2>3. CASE i # j
        <3>1. SettledFor(jobs[j], workers[j])
            BY SettledByJob
        <3>2. jobs'[i] = jobs[i] /\ workers'[i] = workers[i]
            BY <2>1, <2>3, <3>1, WorkerEffect DEF Only
        <3> QED  BY <1>0, <3>2 DEF SettledFor
    <2> QED  BY <2>2, <2>3
<1>3. CASE \/ \E j \in Jobs : Cancel(j) \/ Raise(j) \/ Lose(j) \/ Forget(j)
           \/ HourPasses \/ DayPasses \/ CleanupExpired
    BY <1>0, <1>3, OtherEffect
<1>4. CASE UNCHANGED vars
    BY <1>0, <1>4 DEF vars, SettledFor
<1> QED  BY <1>1, <1>2, <1>3, <1>4 DEF Next

LEMMA SettledAlways ==
    ASSUME "lostack" \notin Features
    PROVE  Spec => []SettledInv
<1>1. Init => SettledInv
    BY DEF Init, Unused, NoWorker, SettledInv, ResultIffCompleted, EndedIsSettled, Free, Working
<1>2. TypeOK /\ SettledInv /\ [Next]_vars => SettledInv'
    BY StepEffect
<1> QED  BY <1>1, <1>2, JobsTypeCorrect, PTL DEF Spec

\* A row has a result exactly if it says "completed", however cancels, failures
\* and the unguarded writes of the workers interleave.
THEOREM ResultInvariant ==
    ASSUME "lostack" \notin Features
    PROVE  Spec => []ResultIffCompleted
<1>1. SettledInv => ResultIffCompleted
    BY DEF SettledInv
<1> QED  BY <1>1, SettledAlways, PTL

\* A worker that ended in order has left a final status behind.
THEOREM EndedInvariant ==
    ASSUME "lostack" \notin Features
    PROVE  Spec => []EndedIsSettled
<1>1. SettledInv => EndedIsSettled
    BY DEF SettledInv
<1> QED  BY <1>1, SettledAlways, PTL

-----------------------------------------------------------------------------
(* The refinement: a step changes statuses as a step of JobView does, and  *)
(* the status of a settled row determines the whole answer.                *)

Same(i) == jobs'[i].status = jobs[i].status

\* The status of j goes from a member of "from" to "to", no other one changes.
Moves(j, from, to) ==
    /\ jobs[j].status \in from
    /\ jobs'[j].status = to
    /\ \A i \in Jobs \ {j} : Same(i)

StatusStep ==
    \/ \A i \in Jobs : Same(i) \/ jobs'[i].status = "absent"
    \/ \E j \in Jobs :
         \/ Moves(j, {"absent"}, "generating")
         \/ Moves(j, {"generating", "cancelled"}, "completed")
         \/ Moves(j, {"generating", "cancelled"}, "failed")
         \/ Moves(j, {"generating"}, "cancelled")

LEMMA WorkerStatus ==
    ASSUME TypeOK, SettledInv, NEW j \in Jobs, WorkerStep(j)
    PROVE  StatusStep
<1>1. jobs[j] \in Job /\ workers[j] \in Worker
    BY DEF TypeOK
<1>3. CASE EnterAnalysis(j) \/ EnterPlanning(j) \/ EnterGeneration(j) \/ Correct(j)
             \/ EnterFinalizing(j)
    <2>1. \E k, stage : Enter(j, k, stage)
        BY <1>3 DEF EnterAnalysis, EnterPlanning, EnterGeneration, Correct, EnterFinalizing
    <2> QED  BY <1>1, <2>1 DEF Enter, Update, TypeOK, Job, StatusStep, Same
<1>4. CASE Analyze(j) \/ CallModel(j)
    BY <1>4 DEF Analyze, CallModel, Begin, StatusStep, Same
<1>5. CASE Store(j) \/ StoreFailure(j)
    <2>1. workers[j].pc \in Working
        BY <1>5 DEF Store, StoreFailure, Working, WorkerPC
    <2>2. jobs[j].status \in {"absent", "generating", "cancelled"}
        BY <1>1, <2>1 DEF SettledInv, Job, Status
    <2>3. \A i \in Jobs \ {j} : Same(i)
        BY <1>5 DEF Store, StoreFailure, TypeOK, Same
    <2>4. CASE jobs[j].status = "absent"
        <3>1. Same(j)
            BY <1>5, <2>4 DEF Store, StoreFailure, Update, TypeOK, Same
        <3> QED  BY <2>3, <3>1 DEF StatusStep
    <2>5. CASE jobs[j].status # "absent"
        <3>1. jobs'[j].status \in {"completed", "failed"}
            <4>1. CASE Store(j)
                <5>1. jobs'[j] = Result(jobs[j])
                    BY <2>5, <4>1 DEF Store, Update, TypeOK
                <5> QED  BY <1>1, <5>1 DEF Result, Job
            <4>2. CASE StoreFailure(j)
                <5>1. jobs'[j] = [jobs[j] EXCEPT !.status = "failed", !.error = TRUE]
                    BY <2>5, <4>2 DEF StoreFailure, Update, TypeOK
                <5> QED  BY <1>1, <5>1 DEF Job
            <4> QED  BY <1>5, <4>1, <4>2
        <3> QED  BY <2>2, <2>3, <2>5, <3>1 DEF StatusStep, Moves
    <2> QED  BY <2>4, <2>5
<1> QED  BY <1>3, <1>4, <1>5 DEF WorkerStep

LEMMA NextStatus ==
    ASSUME TypeOK, SettledInv, [Next]_vars
    PROVE  StatusStep
<1>1. CASE \E h \in Handlers : RequestStep(h)
    <2>1. PICK h \in Handlers : RequestStep(h)
        BY <1>1
    <2>2. CASE CheckLimit(h) \/ Refuse(h)
        BY <2>2 DEF CheckLimit, Refuse, StatusStep, Same
    <2>3. CASE AcceptBackground(h)
        <3>1. PICK j \in Jobs :
                /\ Free(j)
                /\ jobs' = [jobs EXCEPT ![j] =
                              [Unused EXCEPT !.user = requests[h], !.status = "generating",
                                             !.age = "new"]]
            BY <2>3 DEF AcceptBackground
        <3>2. jobs[j].status = "absent" /\ jobs'[j].status = "generating"
            BY <3>1 DEF SettledInv, TypeOK, Unused
        <3>3. \A i \in Jobs \ {j} : Same(i)
            BY <3>1 DEF TypeOK, Same
        <3> QED  BY <3>2, <3>3 DEF StatusStep, Moves
    <2>4. CASE AcceptSync(h)
        <3>1. PICK j \in Jobs :
                jobs' = [jobs EXCEPT ![j] = [Unused EXCEPT !.user = requests[h], !.age = "new"]]
            BY <2>4 DEF AcceptSync
        <3> QED  BY <3>1 DEF TypeOK, Unused, StatusStep, Same
    <2> QED  BY <2>1, <2>2, <2>3, <2>4 DEF RequestStep
<1>2. CASE \E j \in Jobs : WorkerStep(j)
    BY <1>2, WorkerStatus
<1>3. ASSUME NEW j \in Jobs, Cancel(j) PROVE StatusStep
    <2>1. jobs[j].status = "generating" /\ jobs'[j].status = "cancelled"
        BY <1>3 DEF Cancel, Cancellable, TypeOK, Job
    <2>2. \A i \in Jobs \ {j} : Same(i)
        BY <1>3 DEF Cancel, TypeOK, Same
    <2> QED  BY <2>1, <2>2 DEF StatusStep, Moves
<1>4. ASSUME NEW j \in Jobs, Raise(j) \/ Lose(j) PROVE StatusStep
    BY <1>4 DEF Raise, Lose, StatusStep, Same
<1>5. ASSUME NEW j \in Jobs, Forget(j) PROVE StatusStep
    BY <1>5 DEF Forget, TypeOK, Unused, StatusStep, Same
<1>6. CASE HourPasses \/ DayPasses
    BY <1>6 DEF HourPasses, DayPasses, Older, TypeOK, Job, StatusStep, Same
<1>7. CASE CleanupExpired
    BY <1>7 DEF CleanupExpired, Unused, StatusStep, Same
<1>8. CASE UNCHANGED vars
    BY <1>8 DEF vars, StatusStep, Same
<1> QED  BY <1>1, <1>2, <1>3, <1>4, <1>5, <1>6, <1>7, <1>8 DEF Next

LEMMA AnswerByStatus ==
    ASSUME NEW job \in Job, NEW k, SettledFor(job, k)
    PROVE  /\ job.status = "absent" => Answer(job) = View!NotFound
           /\ job.status = "generating" => Answer(job) = View!Waiting
           /\ job.status = "completed" => Answer(job) = View!Done
           /\ job.status = "failed" => Answer(job) = View!Broken
           /\ job.status = "cancelled" => Answer(job) = View!Cancelled
    BY DEF SettledFor, Job, Answer, View!Text, View!NotFound, View!Waiting, View!Done,
           View!Broken, View!Cancelled

LEMMA StepRefines ==
    ASSUME TypeOK, SettledInv, TypeOK', SettledInv', [Next]_vars
    PROVE  View!Next
<1>1. \A i \in Jobs :
        /\ jobs[i] \in Job /\ SettledFor(jobs[i], workers[i])
        /\ jobs'[i] \in Job /\ SettledFor(jobs'[i], workers'[i])
    BY DEF TypeOK, SettledInv, SettledFor, ResultIffCompleted, EndedIsSettled, Free
<1>2. \A i \in Jobs : Same(i) => Answer(jobs'[i]) = Answer(jobs[i])
    <2> SUFFICES ASSUME NEW i \in Jobs, Same(i)
                 PROVE  Answer(jobs'[i]) = Answer(jobs[i])
        OBVIOUS
    <2>1. jobs[i].status \in Status
        BY <1>1 DEF Job
    <2> QED  BY <1>1, <2>1, AnswerByStatus DEF Same, Status
<1>3. ASSUME NEW j \in Jobs, \A i \in Jobs \ {j} : Same(i), NEW new, Answer(jobs'[j]) = new
      PROVE  View!Becomes(j, new)
    BY <1>2, <1>3 DEF View!Becomes, Answers
<1>4. CASE \A i \in Jobs : Same(i) \/ jobs'[i].status = "absent"
    <2> DEFINE gone == {i \in Jobs : ~Same(i)}
    <2>1. \A i \in Jobs : Answer(jobs'[i]) = IF i \in gone THEN View!NotFound
                                                         ELSE Answer(jobs[i])
        BY <1>1, <1>2, <1>4, AnswerByStatus
    <2>2. Answers' = [i \in Jobs |-> IF i \in gone THEN View!NotFound ELSE Answers[i]]
        BY <2>1 DEF Answers
    <2>3. gone \in SUBSET Jobs
        OBVIOUS
    <2> QED  BY <2>2, <2>3 DEF View!Next, View!Remove
<1>5. ASSUME NEW j \in Jobs, Moves(j, {"absent"}, "generating") PROVE View!Next
    <2>1. Answers[j] = View!NotFound /\ Answer(jobs'[j]) = View!Waiting
        BY <1>1, <1>5, AnswerByStatus DEF Moves, Answers
    <2>2. View!Becomes(j, View!Waiting)
        BY <1>3, <1>5, <2>1 DEF Moves
    <2> QED  BY <2>1, <2>2 DEF View!Next, View!Accept
<1>6. ASSUME NEW j \in Jobs, Moves(j, {"generating", "cancelled"}, "completed") PROVE View!Next
    <2>1. Answers[j] \in {View!Waiting, View!Cancelled} /\ Answer(jobs'[j]) = View!Done
        BY <1>1, <1>6, AnswerByStatus DEF Moves, Answers
    <2>2. View!Becomes(j, View!Done)
        BY <1>3, <1>6, <2>1 DEF Moves
    <2> QED  BY <2>1, <2>2 DEF View!Next, View!Complete
<1>7. ASSUME NEW j \in Jobs, Moves(j, {"generating", "cancelled"}, "failed") PROVE View!Next
    <2>1. Answers[j] \in {View!Waiting, View!Cancelled} /\ Answer(jobs'[j]) = View!Broken
        BY <1>1, <1>7, AnswerByStatus DEF Moves, Answers
    <2>2. View!Becomes(j, View!Broken)
        BY <1>3, <1>7, <2>1 DEF Moves
    <2> QED  BY <2>1, <2>2 DEF View!Next, View!Fail
<1>8. ASSUME NEW j \in Jobs, Moves(j, {"generating"}, "cancelled") PROVE View!Next
    <2>1. Answers[j] = View!Waiting /\ Answer(jobs'[j]) = View!Cancelled
        BY <1>1, <1>8, AnswerByStatus DEF Moves, Answers
    <2>2. View!Becomes(j, View!Cancelled)
        BY <1>3, <1>8, <2>1 DEF Moves
    <2> QED  BY <2>1, <2>2 DEF View!Next, View!Cancel
<1>9. StatusStep
    BY NextStatus
<1> QED  BY <1>4, <1>5, <1>6, <1>7, <1>8, <1>9 DEF StatusStep

\* Rows and workers implement what a poller is promised: a result that was
\* announced stays, a failure never becomes a result, only running jobs are
\* cancelled, and every answer comes with exactly the text that belongs to it.
THEOREM Refinement ==
    ASSUME "lostack" \notin Features
    PROVE  Spec => ImplementsView
<1>1. Init => View!Init
    BY DEF Init, Unused, Answers, Answer, View!Init, View!NotFound, View!Text
<1>2. /\ TypeOK /\ SettledInv /\ TypeOK' /\ SettledInv' /\ [Next]_vars
      => View!Next
    BY StepRefines
<1> QED  BY <1>1, <1>2, JobsTypeCorrect, SettledAlways, PTL DEF Spec, ImplementsView, View!Spec

-----------------------------------------------------------------------------
(* A cancelled job costs at most one more piece of work, lost              *)
(* acknowledgements or not.                                                *)

LateFor(job, k) ==
    \/ k.late = 0
    \/ /\ k.late = 1
       /\ k.pc \in Working \ {"failing"} =>
            \/ job.status = "absent"
            \/ job.status = "cancelled" /\ k.pc \notin {"analyzing", "generating"}

LEMMA EnterLate ==
    ASSUME TypeOK, NEW j \in Jobs, NEW k \in Worker, NEW stage \in Progress,
           Enter(j, k, stage), k.late = workers[j].late,
           workers[j].pc \in Working \ {"failing"}, LateFor(jobs[j], workers[j])
    PROVE  Only(j) /\ LateFor(jobs'[j], workers'[j])
<1>1. Only(j) /\ workers[j] \in Worker /\ jobs[j] \in Job
    BY DEF Only, Enter, TypeOK
<1>2. CASE Cancelled(j)
    <2>1. workers'[j].pc = "ended" /\ workers'[j].late = workers[j].late
        BY <1>1, <1>2 DEF Enter, TypeOK, Worker
    <2> QED  BY <1>1, <2>1 DEF LateFor, Working
<1>3. CASE ~Cancelled(j)
    <2>1. workers'[j].late = workers[j].late /\ jobs'[j].status = jobs[j].status
        BY <1>1, <1>3 DEF Enter, TypeOK, Update, Job
    <2> QED  BY <1>1, <1>3, <2>1 DEF LateFor, Cancelled
<1> QED  BY <1>2, <1>3

LEMMA BeginLate ==
    ASSUME TypeOK, NEW j \in Jobs, NEW pc \in {"analyzed", "called"}, Begin(j, pc),
           workers[j].pc \in {"analyzing", "generating"}, LateFor(jobs[j], workers[j])
    PROVE  Only(j) /\ LateFor(jobs'[j], workers'[j])
<1>1. /\ Only(j) /\ jobs'[j] = jobs[j] /\ workers'[j].pc = pc
      /\ workers'[j].late = IF Cancelled(j) THEN workers[j].late + 1 ELSE workers[j].late
    BY DEF Only, Begin, TypeOK, Worker
<1>2. workers[j].late \in Nat /\ workers[j].pc \in Working \ {"failing"}
    BY DEF TypeOK, Worker, Working, WorkerPC
<1>3. CASE Cancelled(j)
    <2>1. workers[j].late = 0
        BY <1>2, <1>3 DEF LateFor, Cancelled
    <2> QED  BY <1>1, <1>3, <2>1 DEF LateFor, Cancelled
<1>4. CASE ~Cancelled(j)
    BY <1>1, <1>2, <1>4 DEF LateFor, Cancelled
<1> QED  BY <1>3, <1>4

LEMMA WorkerLate ==
    ASSUME TypeOK, NEW j \in Jobs, WorkerStep(j), LateFor(jobs[j], workers[j])
    PROVE  Only(j) /\ LateFor(jobs'[j], workers'[j])
<1>1. workers[j] \in Worker /\ jobs[j].progress \in Progress
    BY DEF TypeOK, Job
<1>2. \A pc \in WorkerPC : /\ [workers[j] EXCEPT !.pc = pc] \in Worker
                            /\ [workers[j] EXCEPT !.pc = pc].late = workers[j].late
    BY <1>1 DEF Worker
<1>3. CASE EnterAnalysis(j)
    BY <1>2, <1>3, EnterLate DEF EnterAnalysis, Working, WorkerPC, Progress
<1>4. CASE Analyze(j)
    BY <1>4, BeginLate DEF Analyze
<1>5. CASE EnterPlanning(j)
    BY <1>2, <1>5, EnterLate DEF EnterPlanning, Working, WorkerPC, Progress
<1>6. CASE EnterGeneration(j)
    BY <1>2, <1>6, EnterLate DEF EnterGeneration, Working, WorkerPC, Progress
<1>7. CASE CallModel(j)
    BY <1>7, BeginLate DEF CallModel
<1>8. CASE Correct(j)
    <2>1. /\ Corrected(workers[j]) \in Worker
          /\ Corrected(workers[j]).late = workers[j].late
        BY <1>1, <1>8, CorrectedType DEF Correct, Corrected, Worker
    <2>2. workers[j].pc \in Working \ {"failing"}
        BY <1>8 DEF Correct, Working, WorkerPC
    <2> QED  BY <1>1, <1>8, <2>1, <2>2, EnterLate DEF Correct
<1>9. CASE EnterFinalizing(j)
    BY <1>2, <1>9, EnterLate DEF EnterFinalizing, Working, WorkerPC, Progress
<1>10. CASE Store(j) \/ StoreFailure(j)
    <2>1. /\ Only(j)
          /\ workers'[j].pc \in {"ended", "failing"}
          /\ workers'[j].late = workers[j].late
        BY <1>1, <1>10 DEF Store, StoreFailure, Only, TypeOK, Worker
    <2> QED  BY <2>1 DEF LateFor, Working
<1> QED  BY <1>3, <1>4, <1>5, <1>6, <1>7, <1>8, <1>9, <1>10 DEF WorkerStep

LEMMA RequestLate ==
    ASSUME TypeOK, NEW h \in Handlers, RequestStep(h), NEW i \in Jobs,
           LateFor(jobs[i], workers[i])
    PROVE  LateFor(jobs'[i], workers'[i])
<1>1. CASE CheckLimit(h) \/ Refuse(h)
    BY <1>1 DEF CheckLimit, Refuse
<1>2. CASE AcceptBackground(h)
    <2>1. PICK j \in Jobs :
            /\ jobs' = [jobs EXCEPT ![j] =
                          [Unused EXCEPT !.user = requests[h], !.status = "generating",
                                         !.age = "new"]]
            /\ workers' = [workers EXCEPT ![j] = [NoWorker EXCEPT !.pc = "starting"]]
        BY <1>2 DEF AcceptBackground
    <2> QED  BY <2>1 DEF TypeOK, NoWorker, LateFor
<1>3. CASE AcceptSync(h)
    <2>1. PICK j \in Jobs :
            jobs' = [jobs EXCEPT ![j] = [Unused EXCEPT !.user = requests[h], !.age = "new"]]
        BY <1>3 DEF AcceptSync
    <2> QED  BY <1>3, <2>1 DEF AcceptSync, TypeOK, Unused, LateFor
<1> QED  BY <1>1, <1>2, <1>3 DEF RequestStep

LEMMA OtherLate ==
    ASSUME TypeOK, NEW i \in Jobs, LateFor(jobs[i], workers[i]),
           \/ \E j \in Jobs : Cancel(j) \/ Raise(j) \/ Lose(j) \/ Forget(j)
           \/ HourPasses \/ DayPasses \/ CleanupExpired
    PROVE  LateFor(jobs'[i], workers'[i])
<1>0. jobs[i] \in Job /\ workers[i] \in Worker
    BY DEF TypeOK
<1>1. ASSUME NEW j \in Jobs, Cancel(j) PROVE LateFor(jobs'[i], workers'[i])
    <2>1. workers' = workers /\ (jobs'[i] = jobs[i] \/ jobs[i].status = "generating")
        BY <1>1 DEF Cancel, Cancellable, TypeOK
    <2> QED  BY <2>1 DEF LateFor
<1>2. ASSUME NEW j \in Jobs, Raise(j) \/ Lose(j) PROVE LateFor(jobs'[i], workers'[i])
    <2>1. /\ jobs' = jobs
          /\ \/ workers'[i] = workers[i]
             \/ /\ workers'[i].pc \in {"failing", "lost"}
                /\ workers'[i].late = workers[i].late
        BY <1>0, <1>2 DEF Raise, Lose, Failing, TypeOK, Worker
    <2> QED  BY <2>1 DEF LateFor, Working
<1>3. ASSUME NEW j \in Jobs, Forget(j) PROVE LateFor(jobs'[i], workers'[i])
    BY <1>3 DEF Forget, TypeOK, NoWorker, LateFor
<1>4. ASSUME HourPasses \/ DayPasses PROVE LateFor(jobs'[i], workers'[i])
    <2>1. workers' = workers /\ jobs'[i].status = jobs[i].status
        BY <1>0, <1>4 DEF HourPasses, DayPasses, Older, Job
    <2> QED  BY <2>1 DEF LateFor
<1>5. ASSUME CleanupExpired PROVE LateFor(jobs'[i], workers'[i])
    <2>1. workers' = workers /\ (jobs'[i] = jobs[i] \/ jobs'[i].status = "absent")
        BY <1>5 DEF CleanupExpired, Unused
    <2> QED  BY <2>1 DEF LateFor
<1> QED  BY <1>1, <1>2, <1>3, <1>4, <1>5

\* The check between two pieces of work bounds what a cancelled job still costs.
THEOREM LateWorkInvariant == Spec => []LateWorkBounded
<1>1. Init => LateInv
    BY DEF Init, NoWorker, LateInv
<1>2. TypeOK /\ LateInv /\ [Next]_vars => LateInv'
    <2> SUFFICES ASSUME TypeOK, LateInv, [Next]_vars, NEW i \in Jobs
                 PROVE  LateFor(jobs'[i], workers'[i])
        BY DEF LateInv, LateFor
    <2>1. \A j \in Jobs : LateFor(jobs[j], workers[j])
        BY DEF LateInv, LateFor
    <2>2. CASE \E h \in Handlers : RequestStep(h)
        BY <2>1, <2>2, RequestLate
    <2>3. CASE \E j \in Jobs : WorkerStep(j)
        <3>1. PICK j \in Jobs : WorkerStep(j)
            BY <2>3
        <3>2. Only(j) /\ LateFor(jobs'[j], workers'[j])
            BY <2>1, <3>1, WorkerLate
        <3>3. i # j => jobs'[i] = jobs[i] /\ workers'[i] = workers[i]
            BY <3>2 DEF Only
        <3>4. CASE i = j
            BY <3>2, <3>4
        <3>5. CASE i # j
            BY <2>1, <3>3, <3>5
        <3> QED  BY <3>4, <3>5
    <2>4. CASE \/ \E j \in Jobs : Cancel(j) \/ Raise(j) \/ Lose(j) \/ Forget(j)
               \/ HourPasses \/ DayPasses \/ CleanupExpired
        BY <2>1, <2>4, OtherLate
    <2>5. CASE UNCHANGED vars
        BY <2>1, <2>5 DEF vars
    <2> QED  BY <2>2, <2>3, <2>4, <2>5 DEF Next
<1>3. LateInv => LateWorkBounded
    BY DEF LateInv, LateWorkBounded
<1> QED  BY <1>1, <1>2, <1>3, JobsTypeCorrect, PTL DEF Spec

-----------------------------------------------------------------------------
(* The limit, when the requests of a process do not overlap and every one  *)
(* leaves a row: the window never holds more than the limit.               *)

OneAtATime == \A g, h \in Handlers : g = h
AllRows == "sync" \notin Features /\ "cleanup" \notin Features

Recent(u) == {j \in Jobs : jobs[j].user = u /\ jobs[j].age # "out"}
Bounded(S, n) == IsFiniteSet(S) /\ Cardinality(S) <= n

\* What was accepted lately has a row; a request that passed the check finds
\* the window as it was then, or emptier.
LimitInv ==
    /\ \A j \in Jobs : jobs[j].user # NoUser /\ jobs[j].age # "out" => jobs[j].status # "absent"
    /\ \A u \in Users : Bounded(Recent(u), MaxRequests)
    /\ \A h \in Handlers : requests[h] # NoUser => Bounded(Recent(requests[h]), MaxRequests - 1)

LEMMA RecentIsCounted ==
    ASSUME LimitInv, NEW u \in Users
    PROVE  Counted(u) = Recent(u)
BY JobsAssumption DEF LimitInv, Counted, Recent

\* A window that loses jobs stays within its bounds.
LEMMA FewerRecent ==
    ASSUME TypeOK, LimitInv, requests' = requests,
           \A u \in Users : Recent(u)' \subseteq Recent(u),
           \A j \in Jobs : jobs'[j].user # NoUser /\ jobs'[j].age # "out" => jobs'[j].status # "absent"
    PROVE  LimitInv'
<1>1. ASSUME NEW u \in Users, NEW n \in Int, Bounded(Recent(u), n) PROVE Bounded(Recent(u)', n)
    <2>1. /\ IsFiniteSet(Recent(u)') /\ Cardinality(Recent(u)') <= Cardinality(Recent(u))
        BY <1>1, FS_Subset DEF Bounded
    <2>2. Cardinality(Recent(u)') \in Nat /\ Cardinality(Recent(u)) \in Nat
        BY <1>1, <2>1, FS_CardinalityType DEF Bounded
    <2> QED  BY <1>1, <2>1, <2>2 DEF Bounded
<1>2. \A u \in Users : Bounded(Recent(u)', MaxRequests)
    BY <1>1, JobsAssumption DEF LimitInv
<1>3. ASSUME NEW h \in Handlers, requests[h] # NoUser
      PROVE  Bounded(Recent(requests[h])', MaxRequests - 1)
    <2>1. requests[h] \in Users
        BY <1>3 DEF TypeOK
    <2>2. requests'[h] = requests[h]
        OBVIOUS
    <2>3. Bounded(Recent(requests[h]), MaxRequests - 1)
        BY <1>3 DEF LimitInv
    <2> DEFINE u == requests[h]
    <2>4. Bounded({j \in Jobs : jobs'[j].user = u /\ jobs'[j].age # "out"}, MaxRequests - 1)
        <3> HIDE DEF u
        <3> SUFFICES ASSUME NEW w \in Users, Bounded(Recent(w), MaxRequests - 1)
                     PROVE  Bounded({j \in Jobs : jobs'[j].user = w /\ jobs'[j].age # "out"}, MaxRequests - 1)
            BY <2>1, <2>3 DEF u
        <3> QED  BY <1>1, JobsAssumption DEF Recent
    <2> QED  BY <2>2, <2>4 DEF Recent
<1> QED  BY <1>2, <1>3 DEF LimitInv

\* No job comes into the window, and none in it loses its row.
Leaves(i) ==
    \/ jobs'[i].user = NoUser
    \/ jobs'[i].age = "out"
    \/ /\ jobs'[i].user = jobs[i].user /\ jobs[i].age # "out"
       /\ jobs[i].status # "absent" => jobs'[i].status # "absent"

LEMMA LeavingKeepsLimit ==
    ASSUME TypeOK, LimitInv, requests' = requests, \A i \in Jobs : Leaves(i)
    PROVE  LimitInv'
<1>1. \A u \in Users : Recent(u)' \subseteq Recent(u)
    BY JobsAssumption DEF Recent, Leaves
<1>2. \A i \in Jobs : jobs'[i].user # NoUser /\ jobs'[i].age # "out" => jobs'[i].status # "absent"
    BY DEF LimitInv, Leaves
<1> QED  BY <1>1, <1>2, FewerRecent

LEMMA WorkerLeaves ==
    ASSUME TypeOK, NEW j \in Jobs, WorkerStep(j) \/ Cancel(j) \/ Raise(j) \/ Lose(j) \/ Forget(j)
    PROVE  requests' = requests /\ \A i \in Jobs : Leaves(i)
<1> USE DEF Leaves
<1>0. jobs[j] \in Job /\ jobs \in [Jobs -> Job]
    BY DEF TypeOK
<1>1. ASSUME NEW k, NEW stage, Enter(j, k, stage)
      PROVE  requests' = requests /\ \A i \in Jobs : Leaves(i)
    <2>1. CASE Cancelled(j)
        BY <1>1, <2>1 DEF Enter
    <2>2. CASE ~Cancelled(j)
        BY <1>0, <1>1, <2>2 DEF Enter, Update, Job
    <2> QED  BY <2>1, <2>2
<1>2. ASSUME EnterAnalysis(j) \/ EnterPlanning(j) \/ EnterGeneration(j) \/ Correct(j) \/ EnterFinalizing(j)
      PROVE  requests' = requests /\ \A i \in Jobs : Leaves(i)
    <2>1. \E k, stage : Enter(j, k, stage)
        BY <1>2 DEF EnterAnalysis, EnterPlanning, EnterGeneration, Correct, EnterFinalizing
    <2> QED  BY <1>1, <2>1
<1>3. ASSUME Analyze(j) \/ CallModel(j) \/ Raise(j) \/ Lose(j)
      PROVE  requests' = requests /\ \A i \in Jobs : Leaves(i)
    BY <1>3 DEF Analyze, CallModel, Begin, Raise, Lose
<1>4. CASE Store(j)
    BY <1>0, <1>4 DEF Store, Update, Result, Job
<1>5. CASE StoreFailure(j)
    BY <1>0, <1>5 DEF StoreFailure, Update, Job
<1>6. CASE Cancel(j)
    BY <1>0, <1>6 DEF Cancel, Job
<1>7. CASE Forget(j)
    BY <1>0, <1>7 DEF Forget, Unused
<1> QED  BY <1>2, <1>3, <1>4, <1>5, <1>6, <1>7 DEF WorkerStep

LEMMA TimeLeaves ==
    ASSUME TypeOK, HourPasses \/ DayPasses
    PROVE  requests' = requests /\ \A i \in Jobs : Leaves(i)
<1>1. /\ requests' = requests
      /\ Older("new", "expired") \/ Older("expired", "out")
    BY DEF HourPasses, DayPasses
<1>2. ASSUME NEW i \in Jobs PROVE Leaves(i)
    <2>1. jobs[i] \in Job
        BY DEF TypeOK
    <2>2. \/ jobs'[i] = jobs[i]
          \/ jobs[i].age = "new" /\ jobs'[i] = [jobs[i] EXCEPT !.age = "expired"]
          \/ jobs'[i] = [jobs[i] EXCEPT !.age = "out"]
        BY <1>1 DEF Older
    <2>3. CASE jobs'[i] = jobs[i]
        BY <2>3 DEF Leaves
    <2>4. CASE jobs[i].age = "new" /\ jobs'[i] = [jobs[i] EXCEPT !.age = "expired"]
        BY <2>1, <2>4 DEF Leaves, Job
    <2>5. CASE jobs'[i] = [jobs[i] EXCEPT !.age = "out"]
        BY <2>1, <2>5 DEF Leaves, Job
    <2> QED  BY <2>2, <2>3, <2>4, <2>5
<1> QED  BY <1>1, <1>2

LEMMA RequestLimit ==
    ASSUME TypeOK, LimitInv, OneAtATime, AllRows, NEW h \in Handlers, RequestStep(h)
    PROVE  LimitInv'
<1>0. /\ jobs \in [Jobs -> Job] /\ requests \in [Handlers -> Users \union {NoUser}]
      /\ MaxRequests \in Nat \ {0} /\ NoUser \notin Users
    BY JobsAssumption DEF TypeOK
<1>1. CASE CheckLimit(h)
    <2>1. PICK u \in Users : UnderLimit(u) /\ requests' = [requests EXCEPT ![h] = u]
        BY <1>1 DEF CheckLimit
    <2>2. jobs' = jobs
        BY <1>1 DEF CheckLimit
    <2>3. IsFiniteSet(Recent(u)) /\ Cardinality(Recent(u)) < MaxRequests
        BY <2>1, RecentIsCounted DEF UnderLimit, LimitInv, Bounded
    <2>4. Cardinality(Recent(u)) \in Nat
        BY <2>3, FS_CardinalityType
    <2>5. Bounded(Recent(u), MaxRequests - 1)
        BY <1>0, <2>3, <2>4 DEF Bounded
    <2>6. \A g \in Handlers : requests'[g] = u
        BY <1>0, <2>1 DEF OneAtATime
    <2>7. \A g \in Handlers : Bounded(Recent(requests[g])', MaxRequests - 1)
        BY <2>2, <2>5, <2>6 DEF Recent
    <2>8. \A v \in Users : Recent(v)' = Recent(v)
        BY <2>2 DEF Recent
    <2> QED  BY <2>2, <2>7, <2>8 DEF LimitInv
<1>2. CASE AcceptBackground(h)
    <2>1. PICK j \in Jobs :
            /\ Free(j)
            /\ jobs' = [jobs EXCEPT ![j] =
                          [Unused EXCEPT !.user = requests[h], !.status = "generating", !.age = "new"]]
        BY <1>2 DEF AcceptBackground
    <2>2. requests[h] \in Users /\ requests' = [requests EXCEPT ![h] = NoUser]
        BY <1>0, <1>2 DEF AcceptBackground
    <2>3. \A g \in Handlers : requests'[g] = NoUser
        BY <1>0, <2>2 DEF OneAtATime
    <2>4. /\ jobs'[j].user = requests[h] /\ jobs'[j].status = "generating" /\ jobs'[j].age = "new"
          /\ \A i \in Jobs \ {j} : jobs'[i] = jobs[i]
          /\ jobs[j].user = NoUser
        BY <1>0, <2>1 DEF Unused, Free
    <2>5. \A i \in Jobs : jobs'[i].user # NoUser /\ jobs'[i].age # "out" => jobs'[i].status # "absent"
        BY <2>4 DEF LimitInv
    <2>6. ASSUME NEW u \in Users PROVE Bounded(Recent(u)', MaxRequests)
        <3>1. CASE u = requests[h]
            <4>1. Recent(u)' = Recent(u) \union {j} /\ j \notin Recent(u)
                BY <1>0, <2>2, <2>4, <3>1 DEF Recent
            <4>2. Bounded(Recent(u), MaxRequests - 1)
                BY <1>0, <2>2, <3>1 DEF LimitInv
            <4>3. IsFiniteSet(Recent(u)') /\ Cardinality(Recent(u)') = Cardinality(Recent(u)) + 1
                BY <4>1, <4>2, FS_AddElement DEF Bounded
            <4>4. Cardinality(Recent(u)) \in Nat
                BY <4>2, FS_CardinalityType DEF Bounded
            <4> QED  BY <1>0, <4>2, <4>3, <4>4 DEF Bounded
        <3>2. CASE u # requests[h]
            <4>1. Recent(u)' = Recent(u)
                BY <1>0, <2>4, <3>2 DEF Recent
            <4> QED  BY <4>1 DEF LimitInv
        <3> QED  BY <3>1, <3>2
    <2> QED  BY <2>3, <2>5, <2>6 DEF LimitInv
<1>3. CASE AcceptSync(h)
    BY <1>3 DEF AcceptSync, AllRows
<1>4. CASE Refuse(h)
    <2>1. jobs' = jobs /\ \A g \in Handlers : requests'[g] = NoUser
        BY <1>0, <1>4 DEF Refuse, OneAtATime
    <2>2. \A v \in Users : Recent(v)' = Recent(v)
        BY <2>1 DEF Recent
    <2> QED  BY <2>1, <2>2 DEF LimitInv
<1> QED  BY <1>1, <1>2, <1>3, <1>4 DEF RequestStep

LEMMA StepLimit ==
    ASSUME TypeOK, LimitInv, OneAtATime, AllRows, Next
    PROVE  LimitInv'
<1>1. ASSUME NEW h \in Handlers, RequestStep(h) PROVE LimitInv'
    BY <1>1, RequestLimit
<1>2. ASSUME NEW j \in Jobs, WorkerStep(j) \/ Cancel(j) \/ Raise(j) \/ Lose(j) \/ Forget(j)
      PROVE  LimitInv'
    BY <1>2, WorkerLeaves, LeavingKeepsLimit
<1>3. ASSUME HourPasses \/ DayPasses PROVE LimitInv'
    BY <1>3, TimeLeaves, LeavingKeepsLimit
<1>4. ~CleanupExpired
    BY DEF CleanupExpired, AllRows
<1> QED  BY <1>1, <1>2, <1>3, <1>4 DEF Next

LEMMA LimitBegins == Init => LimitInv
<1> SUFFICES ASSUME Init PROVE LimitInv
    OBVIOUS
<1>1. \A j \in Jobs : jobs[j].user = NoUser
    BY DEF Init, Unused
<1>2. \A u \in Users : Recent(u) = {}
    BY <1>1, JobsAssumption DEF Recent
<1>3. \A u \in Users : Bounded(Recent(u), MaxRequests)
    BY <1>2, FS_EmptySet, JobsAssumption DEF Bounded
<1>4. \A h \in Handlers : requests[h] = NoUser
    BY DEF Init
<1> QED  BY <1>1, <1>3, <1>4 DEF LimitInv

\* One request at a time, each leaving a row: of the requests a user had
\* accepted in the last day there are never more than the limit, although the
\* rows are counted before the work and inserted after it.
THEOREM LimitKept ==
    ASSUME OneAtATime, AllRows
    PROVE  Spec => []WithinLimit
<1>1. Init => LimitInv
    BY LimitBegins
<1>2. TypeOK /\ LimitInv /\ [Next]_vars => LimitInv'
    <2> SUFFICES ASSUME TypeOK, LimitInv, [Next]_vars PROVE LimitInv'
        OBVIOUS
    <2>1. CASE UNCHANGED vars
        BY <2>1 DEF vars, LimitInv, Recent
    <2> QED  BY <2>1, StepLimit
<1>3. LimitInv => WithinLimit
    BY DEF LimitInv, Bounded, Recent, WithinLimit
<1> QED  BY <1>1, <1>2, <1>3, JobsTypeCorrect, PTL DEF Spec
=============================================================================
