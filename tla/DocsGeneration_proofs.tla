------------------------ MODULE DocsGeneration_proofs ------------------------
(***************************************************************************)
(* Proofs about DocsGeneration, for any number of tasks, requests,         *)
(* repository states and documents and any set of faults.                  *)
(***************************************************************************)
EXTENDS DocsGeneration, TLAPS

(* What the session writes is a row again.                                 *)

LEMMA RowTypes ==
    ASSUME NEW copy \in Row
    PROVE  /\ Generating(copy) \in Row
           /\ Completed(copy) \in Row
           /\ \A text \in ErrorText : Failed(copy, text) \in Row
    BY DEF Row, Generating, Completed, Failed, Status, ErrorText, Age

LEMMA FlushType ==
    ASSUME row \in Row, NEW copy \in Row, NEW new \in Row
    PROVE  Flush(copy, new) \in Row
    BY DEF Row, Flush, Written

LEMMA ReportedType ==
    ASSUME NEW r \in Row, NEW ok
    PROVE  Reported(ok, r) \in Row
    BY DEF Row, Reported, Age

LEMMA CommittedType ==
    ASSUME NEW r \in Row, NEW k \in Task
    PROVE  Committed(k, r) \in Row
    BY DEF Row, Task, Committed

LEMMA TaskTypes ==
    ASSUME NEW k \in Task, NEW ok
    PROVE  Noted(ok, k) \in Task /\ Clean(k) \in Task
    BY DEF Task, Noted, Clean, Age

LEMMA AnalyzedType ==
    ASSUME TypeOK, NEW k \in Task, NEW renamed \in BOOLEAN
    PROVE  /\ Analyzed(k, renamed) \in Task
           /\ \A pc \in TaskPC : [k EXCEPT !.pc = pc] \in Task
    BY DEF TypeOK, Task, TaskPC, Analyzed, Fingerprint

LEMMA IdleTypes == EmptyRow \in Row /\ IdleTask \in Task /\ IdleHandler \in Handler
    BY DEF EmptyRow, Row, Status, ErrorText, Age, Fingerprint, IdleTask, Task, TaskPC,
           IdleHandler, Handler, Op

LEMMA ReportType ==
    ASSUME TypeOK, NEW t \in Tasks, NEW k \in Task, NEW r \in Row, Report(t, k, r)
    PROVE  tasks' \in [Tasks -> Task] /\ row' \in Row
    BY ReportedType, TaskTypes DEF Report, TypeOK

-----------------------------------------------------------------------------
(* Every step keeps the types.                                             *)

LEMMA HandlerTypes ==
    ASSUME TypeOK, NEW h \in Handlers, HandlerStep(h)
    PROVE  TypeOK'
<1> USE ConstantsAssumption DEF TypeOK
<1>1. CASE StartLoad(h)
    BY <1>1 DEF StartLoad, Handler, Op
<1>2. ASSUME NEW m \in {"full", "additive"}, NEW copy \in Row, Launch(h, m, copy)
      PROVE  TypeOK'
    <2>1. PICK t \in Tasks :
            /\ tasks' = [tasks EXCEPT ![t] = [IdleTask EXCEPT !.pc = "pending", !.mode = m]]
            /\ row' = Flush(copy, Generating(copy))
            /\ owner' = IF copy.status # "generating" THEN t ELSE owner
            /\ genAge' = IF copy.status # "generating" THEN "fresh" ELSE genAge
            /\ handlers' = [handlers EXCEPT ![h] = IdleHandler]
            /\ UNCHANGED <<rowAge, code, docs, lost, promised>>
        BY <1>2 DEF Launch
    <2>2. [IdleTask EXCEPT !.pc = "pending", !.mode = m] \in Task
        BY IdleTypes DEF Task, TaskPC
    <2>3. row' \in Row
        BY <2>1, RowTypes, FlushType
    <2> QED  BY <2>1, <2>2, <2>3, IdleTypes DEF Age
<1>3. CASE StartCommit(h)
    BY <1>2, <1>3 DEF StartCommit, Handler
<1>4. CASE AutoCheck(h)
    BY <1>4, IdleTypes DEF AutoCheck, Handler, Op
<1>5. CASE AutoLoad(h)
    <2>1. handlers' = [handlers EXCEPT ![h] = [handlers[h] EXCEPT !.op = "autoload", !.copy = row]]
        BY <1>5 DEF AutoLoad
    <2>2. [handlers[h] EXCEPT !.op = "autoload", !.copy = row] \in Handler
        BY DEF Handler, Op
    <2> QED  BY <1>5, <2>1, <2>2 DEF AutoLoad
<1>6. CASE AutoCommit(h)
    BY <1>2, <1>6 DEF AutoCommit, Handler
<1>7. CASE PollLoad(h)
    BY <1>7 DEF PollLoad, Handler, Op
<1>8. ASSUME NEW text \in ErrorText,
             row' = Flush(handlers[h].copy, Failed(handlers[h].copy, text))
      PROVE  row' \in Row
    BY <1>8, RowTypes, FlushType DEF Handler
<1>9. CASE PollCommit(h)
    BY <1>8, <1>9, IdleTypes DEF PollCommit, ErrorText
<1>10. CASE ResetLoad(h)
    BY <1>10 DEF ResetLoad, Handler, Op
<1>11. CASE ResetCommit(h)
    BY <1>8, <1>11, IdleTypes DEF ResetCommit, ErrorText
<1>12. CASE GiveUp(h)
    BY <1>12, IdleTypes DEF GiveUp
<1> QED
    BY <1>1, <1>3, <1>4, <1>5, <1>6, <1>7, <1>9, <1>10, <1>11, <1>12
    DEF HandlerStep, HandlerCommit

LEMMA TaskStepTypes ==
    ASSUME TypeOK, NEW t \in Tasks, TaskStep(t)
    PROVE  TypeOK'
<1> USE DEF TypeOK
<1> DEFINE k == tasks[t]
<1>0. k \in Task
    OBVIOUS
<1>a. \A pc \in TaskPC : [k EXCEPT !.pc = pc] \in Task
    BY <1>0 DEF Task
<1>1. CASE Load(t)
    BY <1>0, <1>1 DEF Load, Task, TaskPC, Row
<1>2. CASE BeginRun(t)
    BY <1>0, <1>a, <1>2, ReportType DEF BeginRun, TaskPC
<1>3. CASE Analyze(t)
    <2>1. PICK renamed \in BOOLEAN, saved \in BOOLEAN :
            LET c == IF saved THEN Clean(k) ELSE k
                r == IF saved THEN Committed(k, row) ELSE row
            IN  \/ Report(t, [c EXCEPT !.pc = "finishing"], r)
                \/ Report(t, Analyzed(c, renamed), r)
                \/ Report(t, [c EXCEPT !.pc = "v1"], r)
                \/ tasks' = [tasks EXCEPT ![t] = [c EXCEPT !.pc = "failing"]] /\ row' = r
        BY <1>3 DEF Analyze
    <2> DEFINE c == IF saved THEN Clean(k) ELSE k
               r == IF saved THEN Committed(k, row) ELSE row
    <2>2. c \in Task /\ r \in Row
        BY <1>0, TaskTypes, CommittedType
    <2>3. /\ \A pc \in TaskPC : [c EXCEPT !.pc = pc] \in Task
          /\ Analyzed(c, renamed) \in Task
        BY <2>2, AnalyzedType
    <2>4. tasks' \in [Tasks -> Task] /\ row' \in Row
        BY <2>1, <2>2, <2>3, ReportType DEF TaskPC
    <2> QED  BY <1>3, <2>4 DEF Analyze
<1>4. CASE Plan(t)
    <2>1. ASSUME NEW topics \in SUBSET Topics PROVE Planned(k, topics) \in Task
        <3> DEFINE pc == IF topics = {} THEN "postprocessing" ELSE "generating"
        <3>1. pc \in TaskPC
            BY DEF TaskPC
        <3>2. Planned(k, topics) = [k EXCEPT !.plan = topics, !.todo = topics, !.pc = pc]
            BY DEF Planned
        <3> HIDE DEF pc
        <3> QED  BY <1>0, <3>1, <3>2 DEF Task
    <2>2. CASE Report(t, [k EXCEPT !.pc = "v1"], row)
        BY <1>a, <1>4, <2>2, ReportType DEF Plan, TaskPC
    <2>3. CASE row' = row /\ \E topics \in SUBSET Topics :
                               tasks' = [tasks EXCEPT ![t] = Planned(k, topics)]
        BY <1>4, <2>1, <2>3 DEF Plan
    <2> QED  BY <1>4, <2>2, <2>3 DEF Plan
<1>5. CASE BeginDoc(t)
    BY <1>a, <1>5, ReportType DEF BeginDoc, TaskPC
<1>6. CASE FinishDoc(t)
    <2>1. \A i \in k.todo : DocDone(k, i) \in Task /\ i \in Topics
        BY <1>0 DEF DocDone, Task, TaskPC
    <2>2. \A i \in k.todo : Clean(DocDone(k, i)) \in Task
        BY <2>1, TaskTypes
    <2>3. Committed(k, row) \in Row
        BY <1>0, CommittedType
    <2> QED  BY <1>6, <2>1, <2>2, <2>3 DEF FinishDoc
<1>7. CASE RunV1(t)
    <2>1. [k EXCEPT !.pc = "postprocessing", !.fp = NoVersion] \in Task
        BY <1>0 DEF Task, TaskPC, Fingerprint
    <2>2. Committed(k, row) \in Row
        BY <1>0, CommittedType
    <2> QED  BY <1>a, <1>7, <2>1, <2>2, TaskTypes, ReportType DEF RunV1, TaskPC
<1>8. CASE Postprocess(t)
    <2>1. [k EXCEPT !.pc = "saving"] \in Task
        BY <1>a DEF TaskPC
    <2>2. Committed([k EXCEPT !.pc = "saving"], row) \in Row
        BY <2>1, CommittedType
    <2> QED  BY <1>8, <2>1, <2>2, TaskTypes, ReportType DEF Postprocess
<1>9. CASE SaveFingerprint(t)
    <2>1. [k EXCEPT !.pc = "finishing"] \in Task
        BY <1>a DEF TaskPC
    <2>2. Saved(k, row) \in Row /\ k.plan \subseteq Topics
        BY <1>0 DEF Saved, Row, Task
    <2> QED  BY <1>9, <2>1, <2>2, ReportType DEF SaveFingerprint
<1>10. CASE FinalLoad(t)
    <2>1. [IdleTask EXCEPT !.pc = IF k.pc = "finishing" THEN "completing" ELSE "aborting",
                           !.copy = row] \in Task
        BY IdleTypes DEF Task, TaskPC
    <2> QED  BY <1>10, <2>1 DEF FinalLoad
<1>11. CASE FinalCommit(t)
    <2>1. k.copy \in Row
        BY <1>0 DEF Task
    <2>2. Final(k) \in Row
        BY <2>1, RowTypes DEF Final, ErrorText
    <2>3. row' \in Row
        BY <1>11, <2>1, <2>2, FlushType DEF FinalCommit
    <2> QED  BY <1>11, <2>3, IdleTypes DEF FinalCommit
<1> QED
    BY <1>1, <1>2, <1>3, <1>4, <1>5, <1>6, <1>7, <1>8, <1>9, <1>10, <1>11
    DEF TaskStep

\* Every variable keeps its type, whatever interleaves with whatever.
THEOREM TypeCorrect == Spec => []TypeOK
<1>1. Init => TypeOK
    BY IdleTypes DEF Init, TypeOK, Age
<1>2. TypeOK /\ [Next]_vars => TypeOK'
    <2> SUFFICES ASSUME TypeOK, [Next]_vars PROVE TypeOK'
        OBVIOUS
    <2>1. ASSUME NEW h \in Handlers, HandlerStep(h) PROVE TypeOK'
        BY <2>1, HandlerTypes
    <2>2. ASSUME NEW t \in Tasks, TaskStep(t) PROVE TypeOK'
        BY <2>2, TaskStepTypes
    <2>3. ASSUME NEW t \in Tasks, Lose(t) PROVE TypeOK'
        BY <2>3, IdleTypes DEF Lose, TypeOK
    <2>4. CASE CodeChanges
        BY <2>4 DEF CodeChanges, TypeOK
    <2>5. CASE DeleteDocuments
        BY <2>5 DEF DeleteDocuments, TypeOK
    <2>6. CASE TimePasses
        <3>1. row' \in Row
            BY <2>6 DEF TimePasses, TypeOK, Row, Older, Age
        <3>2. \A t \in Tasks : [tasks[t] EXCEPT !.prog = Older(tasks[t].prog)] \in Task
            BY DEF TypeOK, Task, Older, Age
        <3> QED  BY <2>6, <3>1, <3>2 DEF TimePasses, TypeOK, Age
    <2>7. CASE UNCHANGED vars
        BY <2>7 DEF vars, TypeOK
    <2> QED  BY <2>1, <2>2, <2>3, <2>4, <2>5, <2>6, <2>7 DEF Next
<1> QED  BY <1>1, <1>2, PTL DEF Spec

-----------------------------------------------------------------------------
(* A stage of a run, up to the stored fingerprint, writes no status, leaves *)
(* the other tasks alone and does not end its own.                          *)

Stage(t) ==
    \/ Load(t) \/ BeginRun(t) \/ Analyze(t) \/ Plan(t) \/ BeginDoc(t)
    \/ FinishDoc(t) \/ RunV1(t) \/ Postprocess(t) \/ SaveFingerprint(t)

LastPC == {"ended", "completing", "aborting"}

LEMMA RowStatusKept ==
    ASSUME NEW r \in Row, NEW k \in Task, NEW ok
    PROVE  /\ Reported(ok, r).status = r.status
           /\ Committed(k, r).status = r.status
           /\ Saved(k, r).status = r.status
           /\ Noted(ok, k).pc = k.pc
           /\ Clean(k).pc = k.pc
    BY DEF Row, Task, Reported, Committed, Saved, Noted, Clean

LEMMA ReportEffect ==
    ASSUME TypeOK, NEW t \in Tasks, NEW k \in Task, NEW r \in Row, Report(t, k, r),
           r.status = row.status, k.pc \notin LastPC
    PROVE  /\ row'.status = row.status
           /\ tasks'[t].pc \notin LastPC
           /\ \A u \in Tasks \ {t} : tasks'[u] = tasks[u]
    BY RowStatusKept DEF Report, TypeOK

LEMMA StageEffect ==
    ASSUME TypeOK, NEW t \in Tasks, Stage(t)
    PROVE  /\ row'.status = row.status
           /\ tasks'[t].pc \notin LastPC
           /\ \A u \in Tasks \ {t} : tasks'[u] = tasks[u]
           /\ owner' = owner /\ lost' = lost
           /\ Live(t)
<1> DEFINE k == tasks[t]
<1>0. k \in Task /\ row \in Row
    BY DEF TypeOK
<1>a. \A pc \in TaskPC : [k EXCEPT !.pc = pc] \in Task /\ [k EXCEPT !.pc = pc].pc = pc
    BY <1>0 DEF Task
<1>1. CASE Load(t)
    BY <1>0, <1>1 DEF Load, Live, LastPC, TypeOK, Task
<1>2. CASE BeginRun(t)
    BY <1>0, <1>a, <1>2, ReportEffect DEF BeginRun, Live, LastPC, TaskPC, TypeOK
<1>3. CASE Analyze(t)
    <2>1. PICK renamed \in BOOLEAN, saved \in BOOLEAN :
            LET c == IF saved THEN Clean(k) ELSE k
                r == IF saved THEN Committed(k, row) ELSE row
            IN  \/ Report(t, [c EXCEPT !.pc = "finishing"], r)
                \/ Report(t, Analyzed(c, renamed), r)
                \/ Report(t, [c EXCEPT !.pc = "v1"], r)
                \/ tasks' = [tasks EXCEPT ![t] = [c EXCEPT !.pc = "failing"]] /\ row' = r
        BY <1>3 DEF Analyze
    <2> DEFINE c == IF saved THEN Clean(k) ELSE k
               r == IF saved THEN Committed(k, row) ELSE row
    <2>2. c \in Task /\ r \in Row /\ r.status = row.status
        BY <1>0, TaskTypes, CommittedType, RowStatusKept
    <2> HIDE DEF c, r
    <2>3. /\ \A pc \in TaskPC : [c EXCEPT !.pc = pc] \in Task /\ [c EXCEPT !.pc = pc].pc = pc
          /\ Analyzed(c, renamed) \in Task /\ Analyzed(c, renamed).pc = "planning"
        BY <2>2, AnalyzedType DEF Task, Analyzed
    <2>4. /\ row'.status = row.status
          /\ tasks'[t].pc \notin LastPC
          /\ \A u \in Tasks \ {t} : tasks'[u] = tasks[u]
        <3>1. CASE Report(t, [c EXCEPT !.pc = "finishing"], r)
            BY <2>2, <2>3, <3>1, ReportEffect DEF TaskPC, LastPC
        <3>2. CASE Report(t, Analyzed(c, renamed), r)
            BY <2>2, <2>3, <3>2, ReportEffect DEF TaskPC, LastPC
        <3>3. CASE Report(t, [c EXCEPT !.pc = "v1"], r)
            BY <2>2, <2>3, <3>3, ReportEffect DEF TaskPC, LastPC
        <3>4. CASE tasks' = [tasks EXCEPT ![t] = [c EXCEPT !.pc = "failing"]] /\ row' = r
            BY <2>2, <2>3, <3>4 DEF TaskPC, LastPC, TypeOK
        <3> QED  BY <2>1, <3>1, <3>2, <3>3, <3>4 DEF c, r
    <2> QED  BY <1>3, <2>4 DEF Analyze, Live
<1>4. CASE Plan(t)
    <2>1. \A topics \in SUBSET Topics : Planned(k, topics).pc \notin LastPC
        BY <1>0 DEF Planned, Task, LastPC
    <2> QED  BY <1>0, <1>a, <1>4, <2>1, ReportEffect DEF Plan, Live, TaskPC, LastPC, TypeOK
<1>5. CASE BeginDoc(t)
    BY <1>0, <1>a, <1>5, ReportEffect DEF BeginDoc, Live, TaskPC, LastPC
<1>6. CASE FinishDoc(t)
    <2>1. \A i \in k.todo : DocDone(k, i) \in Task /\ DocDone(k, i).pc \notin LastPC
        BY <1>0 DEF DocDone, Task, TaskPC, LastPC
    <2>2. \A i \in k.todo : Clean(DocDone(k, i)).pc \notin LastPC
        BY <1>0, <2>1, RowStatusKept
    <2>3. Committed(k, row).status = row.status
        BY <1>0, RowStatusKept
    <2> QED  BY <1>6, <2>1, <2>2, <2>3 DEF FinishDoc, Live, TypeOK
<1>7. CASE RunV1(t)
    <2> DEFINE c == [k EXCEPT !.pc = "postprocessing", !.fp = NoVersion]
    <2>1. c \in Task /\ c.pc = "postprocessing"
        BY <1>0 DEF Task, TaskPC, Fingerprint
    <2> HIDE DEF c
    <2>2. Clean(c) \in Task /\ Clean(c).pc = "postprocessing"
        BY <1>0, <2>1, TaskTypes, RowStatusKept
    <2>3. Committed(k, row) \in Row /\ Committed(k, row).status = row.status
        BY <1>0, CommittedType, RowStatusKept
    <2>4. \/ Report(t, c, row)
          \/ Report(t, Clean(c), Committed(k, row))
          \/ tasks' = [tasks EXCEPT ![t].pc = "failing"] /\ UNCHANGED row
        BY <1>7 DEF RunV1, c
    <2>5. CASE Report(t, c, row)
        BY <1>0, <1>7, <2>1, <2>5, ReportEffect DEF RunV1, Live, LastPC
    <2>6. CASE Report(t, Clean(c), Committed(k, row))
        BY <1>7, <2>2, <2>3, <2>6, ReportEffect DEF RunV1, Live, LastPC
    <2>7. CASE tasks' = [tasks EXCEPT ![t].pc = "failing"] /\ UNCHANGED row
        BY <1>0, <1>a, <1>7, <2>7 DEF RunV1, Live, LastPC, TaskPC, TypeOK
    <2> QED  BY <2>4, <2>5, <2>6, <2>7
<1>8. CASE Postprocess(t)
    <2> DEFINE c == [k EXCEPT !.pc = "saving"]
    <2>1. c \in Task /\ c.pc = "saving"
        BY <1>a DEF TaskPC
    <2> HIDE DEF c
    <2>2. Clean(c) \in Task /\ Clean(c).pc = "saving"
        BY <1>0, <2>1, TaskTypes, RowStatusKept
    <2>3. Committed(c, row) \in Row /\ Committed(c, row).status = row.status
        BY <1>0, <2>1, CommittedType, RowStatusKept
    <2>4. Report(t, c, row) \/ Report(t, Clean(c), Committed(c, row))
        BY <1>8 DEF Postprocess, c
    <2>5. /\ row'.status = row.status
          /\ tasks'[t].pc \notin LastPC
          /\ \A u \in Tasks \ {t} : tasks'[u] = tasks[u]
        BY <1>0, <2>1, <2>2, <2>3, <2>4, ReportEffect DEF LastPC
    <2> QED  BY <1>8, <2>5 DEF Postprocess, Live
<1>9. CASE SaveFingerprint(t)
    <2>1. Saved(k, row) \in Row /\ Saved(k, row).status = row.status
        BY <1>0 DEF Saved, Row, Task
    <2> QED  BY <1>0, <1>a, <1>9, <2>1, ReportEffect
             DEF SaveFingerprint, Live, TaskPC, LastPC
<1> QED
    BY <1>1, <1>2, <1>3, <1>4, <1>5, <1>6, <1>7, <1>8, <1>9 DEF Stage

-----------------------------------------------------------------------------
(* A row that says "generating" has a task that answers for it.            *)

\* What a request does to the row, the tasks and the owner: it starts a task,
\* or it leaves the tasks alone and the row "generating" only if it was.
LEMMA RequestEffect ==
    ASSUME TypeOK, NEW h \in Handlers, HandlerStep(h)
    PROVE  /\ lost' = lost
           /\ \/ /\ tasks' = tasks /\ owner' = owner
                 /\ row'.status = "generating" => row.status = "generating"
                 /\ row'.progress # "none" => row.progress # "none"
              \/ \E t \in Tasks :
                   /\ ~Live(t)
                   /\ tasks' = [tasks EXCEPT ![t] = tasks'[t]]
                   /\ tasks'[t].pc = "pending"
                   /\ \/ row'.status = "generating" /\ owner' = t
                      \/ row'.status = row.status /\ owner' = owner
                   /\ row'.progress # "none" => row.progress # "none"
<1> USE DEF TypeOK
<1>1. ASSUME NEW text \in ErrorText,
             row' = Flush(handlers[h].copy, Failed(handlers[h].copy, text))
      PROVE  /\ row'.status = "generating" => row.status = "generating"
             /\ row'.progress # "none" => row.progress # "none"
    BY <1>1 DEF Flush, Failed, Written, Handler, Row
<1>2. ASSUME NEW m, NEW copy \in Row, Launch(h, m, copy)
      PROVE  \E t \in Tasks :
                   /\ ~Live(t)
                   /\ tasks' = [tasks EXCEPT ![t] = tasks'[t]]
                   /\ tasks'[t].pc = "pending"
                   /\ \/ row'.status = "generating" /\ owner' = t
                      \/ row'.status = row.status /\ owner' = owner
                   /\ row'.progress # "none" => row.progress # "none"
    <2>1. PICK t \in Tasks :
            /\ ~Live(t)
            /\ tasks' = [tasks EXCEPT ![t] = [IdleTask EXCEPT !.pc = "pending", !.mode = m]]
            /\ row' = Flush(copy, Generating(copy))
            /\ owner' = IF copy.status # "generating" THEN t ELSE owner
        BY <1>2 DEF Launch
    <2>2. /\ tasks' = [tasks EXCEPT ![t] = tasks'[t]]
          /\ tasks'[t].pc = "pending"
        BY <2>1 DEF IdleTask
    <2>3. /\ \/ row'.status = "generating" /\ owner' = t
             \/ row'.status = row.status /\ owner' = owner
          /\ row'.progress # "none" => row.progress # "none"
        BY <2>1 DEF Flush, Generating, Written, Row
    <2> QED  BY <2>1, <2>2, <2>3
<1>3. CASE StartLoad(h)  BY <1>3 DEF StartLoad
<1>4. CASE StartCommit(h)
    BY <1>2, <1>4 DEF StartCommit, Launch, Handler
<1>5. CASE AutoCheck(h)  BY <1>5 DEF AutoCheck
<1>6. CASE AutoLoad(h)   BY <1>6 DEF AutoLoad
<1>7. CASE AutoCommit(h)
    BY <1>2, <1>7 DEF AutoCommit, Launch, Handler
<1>8. CASE PollLoad(h)   BY <1>8 DEF PollLoad
<1>9. CASE PollCommit(h)
    BY <1>1, <1>9 DEF PollCommit, ErrorText
<1>10. CASE ResetLoad(h) BY <1>10 DEF ResetLoad
<1>11. CASE ResetCommit(h)
    BY <1>1, <1>11 DEF ResetCommit, ErrorText
<1>12. CASE GiveUp(h)    BY <1>12 DEF GiveUp
<1> QED
    BY <1>3, <1>4, <1>5, <1>6, <1>7, <1>8, <1>9, <1>10, <1>11, <1>12
    DEF HandlerStep, HandlerCommit

LEMMA FinalLoadEffect ==
    ASSUME TypeOK, NEW t \in Tasks, FinalLoad(t)
    PROVE  /\ tasks'[t].copy = row /\ tasks'[t].pc # "ended" /\ Live(t)
           /\ \A u \in Tasks \ {t} : tasks'[u] = tasks[u]
           /\ UNCHANGED <<row, owner, lost>>
    BY DEF FinalLoad, TypeOK, IdleTask, Live

\* The strengthening of GeneratingHasOwner is inductive.
THEOREM OwnerInductive == Spec => []OwnerInv
<1>1. Init => OwnerInv
    BY ConstantsAssumption
    DEF Init, OwnerInv, GeneratingHasOwner, EmptyRow
<1>2. TypeOK /\ OwnerInv /\ [Next]_vars => OwnerInv'
    <2> SUFFICES ASSUME TypeOK, OwnerInv, [Next]_vars PROVE OwnerInv'
        OBVIOUS
    <2> USE ConstantsAssumption DEF OwnerInv, GeneratingHasOwner, Live
    <2>1. ASSUME NEW h \in Handlers, HandlerStep(h) PROVE OwnerInv'
        <3>0. lost' = lost
            BY <2>1, RequestEffect
        <3>1. CASE /\ tasks' = tasks /\ owner' = owner
                   /\ row'.status = "generating" => row.status = "generating"
            BY <3>0, <3>1
        <3>2. ASSUME NEW t \in Tasks, ~Live(t),
                     tasks' = [tasks EXCEPT ![t] = tasks'[t]],
                     tasks'[t].pc = "pending",
                     \/ row'.status = "generating" /\ owner' = t
                     \/ row'.status = row.status /\ owner' = owner
              PROVE  OwnerInv'
            <4>1. CASE owner' = t
                BY <3>0, <3>2, <4>1
            <4>2. CASE owner' # t
                <5>1. row'.status = row.status /\ owner' = owner
                    BY <3>2, <4>2
                <5>2. owner \in Tasks => tasks'[owner] = tasks[owner]
                    BY <3>2, <4>2, <5>1 DEF TypeOK
                <5> QED  BY <3>0, <5>1, <5>2
            <4> QED  BY <4>1, <4>2
        <3> QED  BY <2>1, <3>1, <3>2, RequestEffect
    <2>2. ASSUME NEW t \in Tasks, Stage(t) PROVE OwnerInv'
        BY <2>2, StageEffect DEF LastPC
    <2>3. ASSUME NEW t \in Tasks, FinalLoad(t) PROVE OwnerInv'
        BY <2>3, FinalLoadEffect
    <2>4. ASSUME NEW t \in Tasks, FinalCommit(t) PROVE OwnerInv'
        <3>1. /\ tasks[t].pc \in {"completing", "aborting"}
              /\ row' = Flush(tasks[t].copy, Final(tasks[t]))
              /\ owner' = IF owner = t THEN NoTask ELSE owner
              /\ \A u \in Tasks \ {t} : tasks'[u] = tasks[u]
              /\ lost' = lost
            BY <2>4 DEF FinalCommit, TypeOK
        <3>2. tasks[t].copy \in Row /\ Final(tasks[t]).status \in {"completed", "failed"}
            BY DEF TypeOK, Task, Row, Final, Completed, Failed
        <3>3. row'.status = Written(row.status, tasks[t].copy.status, Final(tasks[t]).status)
            BY <3>1 DEF Flush
        <3>4. row'.status = "generating" => row.status = "generating"
            BY <3>2, <3>3 DEF Written
        <3>5. CASE owner = t
            BY <3>1, <3>2, <3>3, <3>4, <3>5 DEF Written
        <3>6. CASE owner # t
            BY <3>1, <3>4, <3>6 DEF TypeOK
        <3> QED  BY <3>5, <3>6
    <2>5. ASSUME NEW t \in Tasks, Lose(t) PROVE OwnerInv'
        BY <2>5 DEF Lose, TypeOK
    <2>6. CASE CodeChanges
        BY <2>6 DEF CodeChanges
    <2>7. CASE DeleteDocuments
        BY <2>7 DEF DeleteDocuments
    <2>8. CASE TimePasses
        <3>1. /\ row'.status = row.status /\ owner' = owner /\ lost' = lost
              /\ \A t \in Tasks : tasks'[t].pc = tasks[t].pc /\ tasks'[t].copy = tasks[t].copy
            BY <2>8 DEF TimePasses, TypeOK, Row, Task
        <3> QED  BY <3>1
    <2>9. CASE UNCHANGED vars
        BY <2>9 DEF vars
    <2> QED
        BY <2>1, <2>2, <2>3, <2>4, <2>5, <2>6, <2>7, <2>8, <2>9 DEF Next, TaskStep, Stage
<1> QED  BY <1>1, <1>2, TypeCorrect, PTL DEF Spec

\* As long as the row says "generating", the task whose start wrote that is
\* alive or was lost; a task that ends in order takes "generating" away.
THEOREM OwnerInvariant == Spec => []GeneratingHasOwner
<1>1. OwnerInv => GeneratingHasOwner
    BY DEF OwnerInv
<1> QED  BY <1>1, OwnerInductive, PTL

-----------------------------------------------------------------------------
(* Nothing is left behind by tasks that end in order.                      *)

\* When no task is alive and none was lost, the row is settled: no status
\* "generating" and no progress report remain.
THEOREM Settled == Spec => []QuietIsSettled
<1>1. Init => ProgressInv
    BY DEF Init, ProgressInv, EmptyRow
<1>2. TypeOK /\ ProgressInv /\ [Next]_vars => ProgressInv'
    <2> SUFFICES ASSUME TypeOK, ProgressInv, [Next]_vars,
                        row'.progress # "none", ~lost'
                 PROVE  \E t \in Tasks :
                          /\ tasks'[t].pc # "ended"
                          /\ tasks'[t].pc \in {"completing", "aborting"}
                               => tasks'[t].copy.progress # "none"
        BY DEF ProgressInv, Live
    <2> DEFINE Clears(k) == /\ k.pc # "ended"
                            /\ k.pc \in {"completing", "aborting"} => k.copy.progress # "none"
    <2>0. (row.progress # "none" /\ ~lost) => \E t \in Tasks : Clears(tasks[t])
        BY DEF ProgressInv, Live
    <2> SUFFICES \E t \in Tasks : Clears(tasks'[t])
        OBVIOUS
    <2>1. ASSUME NEW h \in Handlers, HandlerStep(h) PROVE \E t \in Tasks : Clears(tasks'[t])
        <3>1. row.progress # "none" /\ lost' = lost
            BY <2>1, RequestEffect
        <3>2. PICK u \in Tasks : Clears(tasks[u])
            BY <2>0, <3>1
        <3>3. CASE tasks' = tasks
            BY <3>2, <3>3
        <3>4. ASSUME NEW t \in Tasks, ~Live(t), tasks' = [tasks EXCEPT ![t] = tasks'[t]]
              PROVE  tasks'[u] = tasks[u]
            BY <3>2, <3>4 DEF TypeOK, Live
        <3> QED  BY <2>1, <3>2, <3>3, <3>4, RequestEffect
    <2>2. ASSUME NEW t \in Tasks, Stage(t) PROVE Clears(tasks'[t])
        BY <2>2, StageEffect DEF LastPC
    <2>3. ASSUME NEW t \in Tasks, FinalLoad(t) PROVE Clears(tasks'[t])
        BY <2>3, FinalLoadEffect
    <2>4. ASSUME NEW t \in Tasks, FinalCommit(t) PROVE \E u \in Tasks : Clears(tasks'[u])
        <3>1. /\ tasks[t].pc \in {"completing", "aborting"}
              /\ row' = Flush(tasks[t].copy, Final(tasks[t]))
              /\ \A u \in Tasks \ {t} : tasks'[u] = tasks[u]
              /\ lost' = lost
            BY <2>4 DEF FinalCommit, TypeOK
        <3>2. tasks[t].copy \in Row /\ Final(tasks[t]).progress = "none"
            BY DEF TypeOK, Task, Row, Final, Completed, Failed
        <3>3. row'.progress = Written(row.progress, tasks[t].copy.progress, Final(tasks[t]).progress)
            BY <3>1 DEF Flush
        <3>4. tasks[t].copy.progress = "none" /\ row.progress # "none"
            BY <3>2, <3>3 DEF Written
        <3>5. PICK u \in Tasks : Clears(tasks[u])
            BY <2>0, <3>1, <3>4
        <3>6. u # t
            BY <3>1, <3>4, <3>5
        <3> QED  BY <3>1, <3>5, <3>6
    <2>5. ASSUME NEW t \in Tasks, Lose(t) PROVE FALSE
        BY <2>5 DEF Lose
    <2>6. CASE CodeChanges
        BY <2>0, <2>6 DEF CodeChanges
    <2>7. CASE DeleteDocuments
        BY <2>0, <2>7 DEF DeleteDocuments
    <2>8. CASE TimePasses
        <3>1. /\ row.progress # "none" /\ lost' = lost
              /\ \A t \in Tasks : tasks'[t].pc = tasks[t].pc /\ tasks'[t].copy = tasks[t].copy
            BY <2>8 DEF TimePasses, TypeOK, Row, Task, Older
        <3> QED  BY <2>0, <3>1
    <2>9. CASE UNCHANGED vars
        BY <2>0, <2>9 DEF vars
    <2> QED
        BY <2>1, <2>2, <2>3, <2>4, <2>5, <2>6, <2>7, <2>8, <2>9 DEF Next, TaskStep, Stage
<1>3. TypeOK /\ OwnerInv /\ ProgressInv => QuietIsSettled
    BY DEF QuietIsSettled, OwnerInv, GeneratingHasOwner, ProgressInv, TypeOK
<1> QED  BY <1>1, <1>2, <1>3, TypeCorrect, OwnerInductive, PTL DEF Spec

-----------------------------------------------------------------------------
(* The stored fingerprint: a run stores it once its plan is carried out.   *)

AtWork == {"generating", "writing", "postprocessing", "saving"}

\* What a task with a fingerprint to store has taken off its plan exists, and
\* past the documents nothing is left of the plan.
PlanInv ==
    \A t \in Tasks :
      (tasks[t].fp # NoVersion /\ tasks[t].pc \in AtWork) =>
        /\ tasks[t].plan \ tasks[t].todo \subseteq docs
        /\ tasks[t].pc \in {"postprocessing", "saving"} => tasks[t].todo = {}

Carried(k) ==
    (k.fp # NoVersion /\ k.pc \in AtWork) =>
      /\ k.plan \ k.todo \subseteq docs'
      /\ k.pc \in {"postprocessing", "saving"} => k.todo = {}

LEMMA FingerprintKept ==
    ASSUME NEW r \in Row, NEW k \in Task, NEW ok
    PROVE  /\ Reported(ok, r).fp = r.fp /\ Committed(k, r).fp = r.fp
           /\ Carried(k) => Carried(Noted(ok, k)) /\ Carried(Clean(k))
    BY DEF Row, Task, Reported, Committed, Noted, Clean, Carried

\* A report of a task whose next record is carried out.
LEMMA ReportCarried ==
    ASSUME TypeOK, NEW t \in Tasks, NEW k \in Task, NEW r \in Row, Report(t, k, r), Carried(k)
    PROVE  /\ row'.fp = r.fp /\ Carried(tasks'[t])
           /\ \A u \in Tasks \ {t} : tasks'[u] = tasks[u]
    BY FingerprintKept DEF Report, TypeOK

\* A stage of a task changes its own record only, and stores a fingerprint last.
LEMMA StageCarried ==
    ASSUME TypeOK, PlanInv, NEW t \in Tasks, Stage(t), docs \subseteq docs', "docfail" \notin Faults
    PROVE  /\ Carried(tasks'[t])
           /\ \A u \in Tasks \ {t} : tasks'[u] = tasks[u]
           /\ \/ row'.fp = row.fp /\ promised' = promised
              \/ promised' \subseteq docs'
<1> DEFINE k == tasks[t]
<1>0. k \in Task /\ row \in Row
    BY DEF TypeOK
<1>a. \A pc \in TaskPC : [k EXCEPT !.pc = pc] \in Task /\ [k EXCEPT !.pc = pc].pc = pc
    BY <1>0 DEF Task
<1>b. \A pc \in TaskPC \ AtWork : Carried([k EXCEPT !.pc = pc])
    BY <1>a DEF Carried
<1>c. Carried(k)
    BY DEF PlanInv, Carried
<1>d. \A pc \in TaskPC \ AtWork :
         Report(t, [k EXCEPT !.pc = pc], row) =>
           /\ row'.fp = row.fp /\ Carried(tasks'[t])
           /\ \A u \in Tasks \ {t} : tasks'[u] = tasks[u]
    BY <1>0, <1>a, <1>b, ReportCarried
<1>1. CASE Load(t)
    BY <1>0, <1>1 DEF Load, TypeOK, Task, Carried, AtWork
<1>2. CASE BeginRun(t)
    <2>1. CASE tasks' = [tasks EXCEPT ![t].pc = "failing"] /\ UNCHANGED row
        BY <1>a, <1>b, <1>2, <2>1 DEF BeginRun, TaskPC, AtWork, TypeOK
    <2>2. CASE \E pc \in {"analyzing", "failing"} : Report(t, [k EXCEPT !.pc = pc], row)
        BY <1>d, <1>2, <2>2 DEF BeginRun, TaskPC, AtWork
    <2> QED  BY <1>2, <2>1, <2>2 DEF BeginRun
<1>3. CASE Analyze(t)
    <2>1. PICK renamed \in BOOLEAN, saved \in BOOLEAN :
            LET c == IF saved THEN Clean(k) ELSE k
                r == IF saved THEN Committed(k, row) ELSE row
            IN  \/ Report(t, [c EXCEPT !.pc = "finishing"], r)
                \/ Report(t, Analyzed(c, renamed), r)
                \/ Report(t, [c EXCEPT !.pc = "v1"], r)
                \/ tasks' = [tasks EXCEPT ![t] = [c EXCEPT !.pc = "failing"]] /\ row' = r
        BY <1>3 DEF Analyze
    <2> DEFINE c == IF saved THEN Clean(k) ELSE k
               r == IF saved THEN Committed(k, row) ELSE row
    <2>2. c \in Task /\ r \in Row /\ r.fp = row.fp
        BY <1>0, TaskTypes, CommittedType, FingerprintKept
    <2> HIDE DEF c, r
    <2>3. /\ \A pc \in TaskPC : [c EXCEPT !.pc = pc] \in Task
          /\ \A pc \in TaskPC \ AtWork : Carried([c EXCEPT !.pc = pc])
          /\ Analyzed(c, renamed) \in Task /\ Carried(Analyzed(c, renamed))
        <3>1. \A pc \in TaskPC : [c EXCEPT !.pc = pc] \in Task /\ [c EXCEPT !.pc = pc].pc = pc
            BY <2>2 DEF Task
        <3>2. Analyzed(c, renamed) \in Task /\ Analyzed(c, renamed).pc = "planning"
            BY <2>2, AnalyzedType DEF Task, Analyzed
        <3> QED  BY <3>1, <3>2 DEF Carried, AtWork
    <2>4. /\ row'.fp = row.fp /\ Carried(tasks'[t])
          /\ \A u \in Tasks \ {t} : tasks'[u] = tasks[u]
        <3>1. CASE Report(t, [c EXCEPT !.pc = "finishing"], r)
            BY <2>2, <2>3, <3>1, ReportCarried DEF TaskPC, AtWork
        <3>2. CASE Report(t, Analyzed(c, renamed), r)
            BY <2>2, <2>3, <3>2, ReportCarried
        <3>3. CASE Report(t, [c EXCEPT !.pc = "v1"], r)
            BY <2>2, <2>3, <3>3, ReportCarried DEF TaskPC, AtWork
        <3>4. CASE tasks' = [tasks EXCEPT ![t] = [c EXCEPT !.pc = "failing"]] /\ row' = r
            BY <2>2, <2>3, <3>4 DEF TaskPC, AtWork, TypeOK
        <3> QED  BY <2>1, <3>1, <3>2, <3>3, <3>4 DEF c, r
    <2> QED  BY <1>3, <2>4 DEF Analyze
<1>4. CASE Plan(t)
    <2>1. \A topics \in SUBSET Topics : Carried(Planned(k, topics))
        BY <1>0 DEF Planned, Task, Carried, AtWork
    <2>2. CASE Report(t, [k EXCEPT !.pc = "v1"], row)
        BY <1>d, <1>4, <2>2 DEF Plan, TaskPC, AtWork
    <2>3. CASE row' = row /\ \E topics \in SUBSET Topics :
                               tasks' = [tasks EXCEPT ![t] = Planned(k, topics)]
        BY <1>4, <2>1, <2>3 DEF Plan, TypeOK
    <2> QED  BY <1>4, <2>2, <2>3 DEF Plan
<1>5. CASE BeginDoc(t)
    <2>1. Carried([k EXCEPT !.pc = "writing"])
        BY <1>0, <1>5, <1>c DEF BeginDoc, Carried, Task, AtWork
    <2> QED  BY <1>0, <1>a, <1>5, <2>1, ReportCarried DEF BeginDoc, TaskPC
<1>6. CASE FinishDoc(t)
    <2>1. PICK i \in k.todo :
             /\ docs' = docs \union {i}
             /\ tasks' = [tasks EXCEPT ![t] = Clean(DocDone(k, i))]
             /\ row' = Committed(k, row)
        BY <1>6 DEF FinishDoc
    <2>2. DocDone(k, i) \in Task
        BY <1>0 DEF DocDone, Task, TaskPC
    <2>3. Carried(DocDone(k, i))
        <3>1. k.pc = "writing"
            BY <1>6 DEF FinishDoc
        <3>2. k.fp # NoVersion => k.plan \ k.todo \subseteq docs
            BY <3>1 DEF PlanInv, AtWork
        <3>3. /\ DocDone(k, i).todo = k.todo \ {i} /\ DocDone(k, i).plan = k.plan
              /\ DocDone(k, i).fp = k.fp
              /\ DocDone(k, i).pc = IF k.todo \ {i} = {} THEN "postprocessing" ELSE "generating"
            BY <1>0 DEF DocDone, Task
        <3> QED  BY <2>1, <3>2, <3>3 DEF Carried
    <2> QED  BY <1>0, <1>6, <2>1, <2>2, <2>3, FingerprintKept DEF FinishDoc, TypeOK
<1>7. CASE RunV1(t)
    <2> DEFINE c == [k EXCEPT !.pc = "postprocessing", !.fp = NoVersion]
    <2>1. c \in Task /\ Carried(c)
        BY <1>0 DEF Task, TaskPC, Fingerprint, Carried
    <2> HIDE DEF c
    <2>2. Clean(c) \in Task /\ Carried(Clean(c))
        BY <1>0, <2>1, TaskTypes, FingerprintKept
    <2>3. Committed(k, row) \in Row /\ Committed(k, row).fp = row.fp
        BY <1>0, CommittedType, FingerprintKept
    <2>4. \/ Report(t, c, row)
          \/ Report(t, Clean(c), Committed(k, row))
          \/ tasks' = [tasks EXCEPT ![t].pc = "failing"] /\ UNCHANGED row
        BY <1>7 DEF RunV1, c
    <2>5. CASE Report(t, c, row)
        BY <1>0, <1>7, <2>1, <2>5, ReportCarried DEF RunV1
    <2>6. CASE Report(t, Clean(c), Committed(k, row))
        BY <1>7, <2>2, <2>3, <2>6, ReportCarried DEF RunV1
    <2>7. CASE tasks' = [tasks EXCEPT ![t].pc = "failing"] /\ UNCHANGED row
        BY <1>0, <1>a, <1>b, <1>7, <2>7 DEF RunV1, TaskPC, AtWork, TypeOK
    <2> QED  BY <2>4, <2>5, <2>6, <2>7
<1>8. CASE Postprocess(t)
    <2> DEFINE c == [k EXCEPT !.pc = "saving"]
    <2>1. c \in Task /\ Carried(c)
        BY <1>0, <1>c, <1>8 DEF Postprocess, Task, TaskPC, Carried, AtWork
    <2> HIDE DEF c
    <2>2. Clean(c) \in Task /\ Carried(Clean(c))
        BY <1>0, <2>1, TaskTypes, FingerprintKept
    <2>3. Committed(c, row) \in Row /\ Committed(c, row).fp = row.fp
        BY <1>0, <2>1, CommittedType, FingerprintKept
    <2>4. Report(t, c, row) \/ Report(t, Clean(c), Committed(c, row))
        BY <1>8 DEF Postprocess, c
    <2> QED  BY <1>0, <1>8, <2>1, <2>2, <2>3, <2>4, ReportCarried DEF Postprocess
<1>9. CASE SaveFingerprint(t)
    <2>1. PICK ok \in Outcome :
            /\ Report(t, [k EXCEPT !.pc = "finishing"], IF ok THEN Saved(k, row) ELSE row)
            /\ promised' = IF ok /\ k.fp # NoVersion THEN k.plan ELSE promised
        BY <1>9 DEF SaveFingerprint
    <2> DEFINE r == IF ok THEN Saved(k, row) ELSE row
    <2>2. r \in Row /\ (~(ok /\ k.fp # NoVersion) => r.fp = row.fp)
        BY <1>0 DEF Saved, Row, Task
    <2>3. /\ row'.fp = r.fp /\ Carried(tasks'[t])
          /\ \A u \in Tasks \ {t} : tasks'[u] = tasks[u]
        <3>1. /\ [k EXCEPT !.pc = "finishing"] \in Task
              /\ Carried([k EXCEPT !.pc = "finishing"])
            BY <1>a, <1>b DEF TaskPC, AtWork
        <3> HIDE DEF r
        <3> QED  BY <2>1, <2>2, <3>1, ReportCarried DEF r
    <2>4. CASE ok /\ k.fp # NoVersion
        <3>1. k.plan \subseteq docs
            BY <1>9, <2>4 DEF SaveFingerprint, PlanInv, AtWork
        <3> QED  BY <2>1, <2>3, <2>4, <3>1
    <2>5. CASE ~(ok /\ k.fp # NoVersion)
        BY <2>1, <2>2, <2>3, <2>5
    <2> QED  BY <2>4, <2>5
<1> QED
    BY <1>1, <1>2, <1>3, <1>4, <1>5, <1>6, <1>7, <1>8, <1>9 DEF Stage

\* What a request does to tasks and fingerprint: a task it starts has none.
LEMMA RequestCarried ==
    ASSUME TypeOK, PlanInv, NEW h \in Handlers, HandlerStep(h)
    PROVE  PlanInv' /\ row'.fp = row.fp /\ docs' = docs /\ promised' = promised
<1>1. ASSUME NEW m, NEW copy \in Row, Launch(h, m, copy) PROVE PlanInv' /\ row'.fp = row.fp
    <2>1. PICK t \in Tasks :
            /\ tasks' = [tasks EXCEPT ![t] = [IdleTask EXCEPT !.pc = "pending", !.mode = m]]
            /\ row' = Flush(copy, Generating(copy))
            /\ docs' = docs
        BY <1>1 DEF Launch
    <2>2. [IdleTask EXCEPT !.pc = "pending", !.mode = m].fp = NoVersion
        BY DEF IdleTask
    <2>3. row'.fp = row.fp
        BY <2>1 DEF Flush, Generating, Written, Row
    <2>4. tasks'[t].fp = NoVersion /\ \A u \in Tasks : u # t => tasks'[u] = tasks[u]
        BY <2>1, <2>2 DEF TypeOK
    <2> QED  BY <2>1, <2>3, <2>4 DEF PlanInv
<1>2. ASSUME tasks' = tasks, docs' = docs PROVE PlanInv'
    BY <1>2 DEF PlanInv
<1>3. ASSUME NEW text \in ErrorText,
             row' = Flush(handlers[h].copy, Failed(handlers[h].copy, text))
      PROVE  row'.fp = row.fp
    BY <1>3 DEF Flush, Failed, Written, Handler, Row, TypeOK
<1>4. CASE StartLoad(h)    BY <1>2, <1>4 DEF StartLoad
<1>5. CASE StartCommit(h)
    BY <1>1, <1>5 DEF StartCommit, Launch, Handler, TypeOK
<1>6. CASE AutoCheck(h)    BY <1>2, <1>6 DEF AutoCheck
<1>7. CASE AutoLoad(h)     BY <1>2, <1>7 DEF AutoLoad
<1>8. CASE AutoCommit(h)
    BY <1>1, <1>8 DEF AutoCommit, Launch, Handler, TypeOK
<1>9. CASE PollLoad(h)     BY <1>2, <1>9 DEF PollLoad
<1>10. CASE PollCommit(h)
    BY <1>2, <1>3, <1>10 DEF PollCommit, ErrorText
<1>11. CASE ResetLoad(h)   BY <1>2, <1>11 DEF ResetLoad
<1>12. CASE ResetCommit(h)
    BY <1>2, <1>3, <1>12 DEF ResetCommit, ErrorText
<1>13. CASE GiveUp(h)      BY <1>2, <1>13 DEF GiveUp
<1> QED
    BY <1>4, <1>5, <1>6, <1>7, <1>8, <1>9, <1>10, <1>11, <1>12, <1>13
    DEF HandlerStep, HandlerCommit

\* As long as no document fails and none is deleted, the fingerprint that lets
\* later runs skip their work stands for all documents of the run that stored
\* it, whatever other runs, resets, crashes and lost writes come in between.
THEOREM FingerprintStandsForDocs ==
    Faults \cap {"docfail", "delete"} = {} => (Spec => []FingerprintMeansDocs)
<1> SUFFICES ASSUME "docfail" \notin Faults, "delete" \notin Faults
             PROVE  Spec => []FingerprintMeansDocs
    OBVIOUS
<1> DEFINE Inv == PlanInv /\ FingerprintMeansDocs
<1>1. Init => Inv
    BY DEF Init, PlanInv, FingerprintMeansDocs, EmptyRow, IdleTask
<1>2. TypeOK /\ Inv /\ [Next]_vars => Inv'
    <2> SUFFICES ASSUME TypeOK, PlanInv, FingerprintMeansDocs, [Next]_vars PROVE Inv'
        OBVIOUS
    <2>1. ASSUME NEW h \in Handlers, HandlerStep(h) PROVE Inv'
        BY <2>1, RequestCarried DEF FingerprintMeansDocs
    <2>2. ASSUME NEW t \in Tasks, Stage(t) PROVE Inv'
        <3>1. docs \subseteq docs'
            BY <2>2 DEF Stage, Load, BeginRun, Analyze, Plan, BeginDoc, FinishDoc, RunV1,
                        Postprocess, SaveFingerprint
        <3>2. /\ Carried(tasks'[t])
              /\ \A u \in Tasks \ {t} : tasks'[u] = tasks[u]
              /\ \/ row'.fp = row.fp /\ promised' = promised
                 \/ promised' \subseteq docs'
            BY <2>2, <3>1, StageCarried
        <3>3. FingerprintMeansDocs'
            BY <3>1, <3>2 DEF FingerprintMeansDocs
        <3>4. PlanInv'
            BY <3>1, <3>2 DEF PlanInv, Carried
        <3> QED  BY <3>3, <3>4
    <2>3. ASSUME NEW t \in Tasks, UNCHANGED <<docs, promised>>, row'.fp = row.fp,
                 tasks'[t].fp = NoVersion, \A u \in Tasks \ {t} : tasks'[u] = tasks[u]
          PROVE  Inv'
        BY <2>3 DEF PlanInv, FingerprintMeansDocs
    <2>4. ASSUME NEW t \in Tasks, FinalLoad(t) PROVE Inv'
        BY <2>3, <2>4 DEF FinalLoad, TypeOK, IdleTask
    <2>5. ASSUME NEW t \in Tasks, FinalCommit(t) PROVE Inv'
        <3>1. row'.fp = row.fp
            BY <2>5 DEF FinalCommit, TypeOK, Task, Row, Final, Completed, Failed, Flush, Written
        <3>2. tasks'[t].fp = NoVersion /\ \A u \in Tasks \ {t} : tasks'[u] = tasks[u]
            BY <2>5 DEF FinalCommit, TypeOK, IdleTask
        <3> QED  BY <2>3, <2>5, <3>1, <3>2 DEF FinalCommit
    <2>6. ASSUME NEW t \in Tasks, Lose(t) PROVE Inv'
        BY <2>3, <2>6 DEF Lose, TypeOK, IdleTask
    <2>7. CASE CodeChanges
        BY <2>7 DEF CodeChanges, PlanInv, FingerprintMeansDocs
    <2>8. CASE DeleteDocuments
        BY <2>8 DEF DeleteDocuments
    <2>9. CASE TimePasses
        <3>1. /\ row'.fp = row.fp /\ UNCHANGED <<docs, promised>>
              /\ \A t \in Tasks : /\ tasks'[t].pc = tasks[t].pc /\ tasks'[t].fp = tasks[t].fp
                                  /\ tasks'[t].plan = tasks[t].plan
                                  /\ tasks'[t].todo = tasks[t].todo
            BY <2>9 DEF TimePasses, TypeOK, Row, Task
        <3> QED  BY <3>1 DEF PlanInv, FingerprintMeansDocs
    <2>10. CASE UNCHANGED vars
        BY <2>10 DEF vars, PlanInv, FingerprintMeansDocs
    <2> QED
        BY <2>1, <2>2, <2>4, <2>5, <2>6, <2>7, <2>8, <2>9, <2>10 DEF Next, TaskStep, Stage
<1> QED  BY <1>1, <1>2, TypeCorrect, PTL DEF Spec

-----------------------------------------------------------------------------
(* One request at a time, no reset and no fifteen minutes: the check that  *)
(* refuses a second start does its work.                                   *)

\* No session has anything stale to write or to judge the row by.
NothingStale ==
    /\ rowAge = "fresh" /\ row.progress # "stale"
    /\ \A t \in Tasks : tasks[t].prog # "stale"
    /\ \A h \in Handlers : handlers[h].copy.progress # "stale"

\* A live task has the row to itself; a request that is to start one has seen
\* the row as it still is, with no task alive.
Exclusive ==
    /\ AtMostOneLiveTask /\ ErrorIffFailed
    /\ \A t \in Tasks :
         /\ Live(t) => row.status = "generating"
         /\ tasks[t].pc \in {"completing", "aborting"} =>
              tasks[t].copy.status = "generating" /\ tasks[t].copy.error = "none"
    /\ \A h \in Handlers :
         /\ handlers[h].op \in {"start", "auto", "autoload"} => row.status # "generating"
         /\ handlers[h].op \in {"start", "autoload"} =>
              handlers[h].copy.status = row.status /\ handlers[h].copy.error = row.error
         /\ handlers[h].op # "reset"

SerialInv == NothingStale /\ Exclusive

LEMMA FreshKept ==
    ASSUME NEW r \in Row, NEW k \in Task, NEW ok, r.progress # "stale", k.prog # "stale"
    PROVE  /\ Reported(ok, r).error = r.error /\ Reported(ok, r).progress # "stale"
           /\ Committed(k, r).error = r.error /\ Committed(k, r).progress # "stale"
           /\ Noted(ok, k).prog # "stale" /\ Clean(k).prog # "stale"
    BY DEF Row, Task, Reported, Committed, Noted, Clean

LEMMA ReportFresh ==
    ASSUME TypeOK, NEW t \in Tasks, NEW k \in Task, NEW r \in Row, Report(t, k, r),
           r.progress # "stale", k.prog # "stale"
    PROVE  row'.error = r.error /\ row'.progress # "stale" /\ tasks'[t].prog # "stale"
    BY FreshKept DEF Report, TypeOK

LEMMA StageFresh ==
    ASSUME TypeOK, NothingStale, NEW t \in Tasks, Stage(t)
    PROVE  /\ row'.error = row.error /\ row'.progress # "stale" /\ tasks'[t].prog # "stale"
           /\ UNCHANGED <<rowAge, handlers>>
<1> DEFINE k == tasks[t]
           Goal == row'.error = row.error /\ row'.progress # "stale" /\ tasks'[t].prog # "stale"
<1>0. k \in Task /\ row \in Row /\ k.prog # "stale" /\ row.progress # "stale"
    BY DEF TypeOK, NothingStale
<1>a. \A pc \in TaskPC : [k EXCEPT !.pc = pc] \in Task /\ [k EXCEPT !.pc = pc].prog = k.prog
    BY <1>0 DEF Task
<1>b. UNCHANGED <<rowAge, handlers>>
    BY DEF Stage, Load, BeginRun, Analyze, Plan, BeginDoc, FinishDoc, RunV1, Postprocess,
           SaveFingerprint
<1> SUFFICES Goal
    BY <1>b
<1>c. \A pc \in TaskPC : Report(t, [k EXCEPT !.pc = pc], row) => Goal
    BY <1>0, <1>a, ReportFresh
<1>d. \A pc \in TaskPC : tasks' = [tasks EXCEPT ![t] = [k EXCEPT !.pc = pc]] /\ row' = row => Goal
    BY <1>0, <1>a DEF TypeOK
<1>1. CASE Load(t)
    BY <1>0, <1>1 DEF Load, TypeOK, Task
<1>2. CASE BeginRun(t)
    BY <1>c, <1>d, <1>2 DEF BeginRun, TaskPC
<1>3. CASE Analyze(t)
    <2>1. PICK renamed \in BOOLEAN, saved \in BOOLEAN :
            LET c == IF saved THEN Clean(k) ELSE k
                r == IF saved THEN Committed(k, row) ELSE row
            IN  \/ Report(t, [c EXCEPT !.pc = "finishing"], r)
                \/ Report(t, Analyzed(c, renamed), r)
                \/ Report(t, [c EXCEPT !.pc = "v1"], r)
                \/ tasks' = [tasks EXCEPT ![t] = [c EXCEPT !.pc = "failing"]] /\ row' = r
        BY <1>3 DEF Analyze
    <2> DEFINE c == IF saved THEN Clean(k) ELSE k
               r == IF saved THEN Committed(k, row) ELSE row
    <2>2. /\ c \in Task /\ r \in Row
          /\ r.error = row.error /\ r.progress # "stale" /\ c.prog # "stale"
        BY <1>0, TaskTypes, CommittedType, FreshKept
    <2> HIDE DEF c, r
    <2>3. /\ \A pc \in TaskPC : [c EXCEPT !.pc = pc] \in Task /\ [c EXCEPT !.pc = pc].prog = c.prog
          /\ Analyzed(c, renamed) \in Task /\ Analyzed(c, renamed).prog = c.prog
        BY <2>2, AnalyzedType DEF Task, Analyzed
    <2>4. CASE Report(t, [c EXCEPT !.pc = "finishing"], r)
        BY <2>2, <2>3, <2>4, ReportFresh DEF TaskPC
    <2>5. CASE Report(t, Analyzed(c, renamed), r)
        BY <2>2, <2>3, <2>5, ReportFresh
    <2>6. CASE Report(t, [c EXCEPT !.pc = "v1"], r)
        BY <2>2, <2>3, <2>6, ReportFresh DEF TaskPC
    <2>7. CASE tasks' = [tasks EXCEPT ![t] = [c EXCEPT !.pc = "failing"]] /\ row' = r
        BY <2>2, <2>3, <2>7 DEF TaskPC, TypeOK
    <2> QED  BY <2>1, <2>4, <2>5, <2>6, <2>7 DEF c, r
<1>4. CASE Plan(t)
    <2>1. CASE Report(t, [k EXCEPT !.pc = "v1"], row)
        BY <1>c, <2>1 DEF TaskPC
    <2>2. CASE row' = row /\ \E topics \in SUBSET Topics :
                               tasks' = [tasks EXCEPT ![t] = Planned(k, topics)]
        BY <1>0, <2>2 DEF TypeOK, Planned, Task
    <2> QED  BY <1>4, <2>1, <2>2 DEF Plan
<1>5. CASE BeginDoc(t)
    BY <1>c, <1>5 DEF BeginDoc, TaskPC
<1>6. CASE FinishDoc(t)
    <2>1. PICK i \in k.todo :
             \/ tasks' = [tasks EXCEPT ![t] = Clean(DocDone(k, i))] /\ row' = Committed(k, row)
             \/ tasks' = [tasks EXCEPT ![t] = DocDone(k, i)] /\ row' = row
        BY <1>6 DEF FinishDoc
    <2>2. DocDone(k, i) \in Task /\ DocDone(k, i).prog = k.prog
        BY <1>0 DEF DocDone, Task, TaskPC
    <2> QED  BY <1>0, <2>1, <2>2, FreshKept DEF TypeOK
<1>7. CASE RunV1(t)
    <2> DEFINE c == [k EXCEPT !.pc = "postprocessing", !.fp = NoVersion]
    <2>1. c \in Task /\ c.prog # "stale"
        BY <1>0 DEF Task, TaskPC, Fingerprint
    <2> HIDE DEF c
    <2>2. Clean(c) \in Task /\ Clean(c).prog # "stale"
        BY <1>0, <2>1, TaskTypes, FreshKept
    <2>3. /\ Committed(k, row) \in Row /\ Committed(k, row).error = row.error
          /\ Committed(k, row).progress # "stale"
        BY <1>0, CommittedType, FreshKept
    <2>4. \/ Report(t, c, row)
          \/ Report(t, Clean(c), Committed(k, row))
          \/ tasks' = [tasks EXCEPT ![t].pc = "failing"] /\ UNCHANGED row
        BY <1>7 DEF RunV1, c
    <2>5. CASE Report(t, c, row)
        BY <1>0, <2>1, <2>5, ReportFresh
    <2>6. CASE Report(t, Clean(c), Committed(k, row))
        BY <2>2, <2>3, <2>6, ReportFresh
    <2>7. CASE tasks' = [tasks EXCEPT ![t].pc = "failing"] /\ UNCHANGED row
        BY <1>d, <2>7 DEF TaskPC, TypeOK
    <2> QED  BY <2>4, <2>5, <2>6, <2>7
<1>8. CASE Postprocess(t)
    <2> DEFINE c == [k EXCEPT !.pc = "saving"]
    <2>1. c \in Task /\ c.prog # "stale"
        BY <1>0, <1>a DEF TaskPC
    <2> HIDE DEF c
    <2>2. Clean(c) \in Task /\ Clean(c).prog # "stale"
        BY <1>0, <2>1, TaskTypes, FreshKept
    <2>3. /\ Committed(c, row) \in Row /\ Committed(c, row).error = row.error
          /\ Committed(c, row).progress # "stale"
        BY <1>0, <2>1, CommittedType, FreshKept
    <2>4. Report(t, c, row) \/ Report(t, Clean(c), Committed(c, row))
        BY <1>8 DEF Postprocess, c
    <2> QED  BY <1>0, <2>1, <2>2, <2>3, <2>4, ReportFresh
<1>9. CASE SaveFingerprint(t)
    <2>1. PICK ok \in Outcome :
            Report(t, [k EXCEPT !.pc = "finishing"], IF ok THEN Saved(k, row) ELSE row)
        BY <1>9 DEF SaveFingerprint
    <2> DEFINE r == IF ok THEN Saved(k, row) ELSE row
    <2>2. r \in Row /\ r.error = row.error /\ r.progress = row.progress
        BY <1>0 DEF Saved, Row, Task
    <2> HIDE DEF r
    <2> QED  BY <1>0, <1>a, <2>1, <2>2, ReportFresh DEF TaskPC, r
<1> QED
    BY <1>1, <1>2, <1>3, <1>4, <1>5, <1>6, <1>7, <1>8, <1>9 DEF Stage

OneRequest == \A g, h \in Handlers : g = h

LEMMA SerialRequests ==
    ASSUME TypeOK, SerialInv, OneRequest, "reset" \notin Faults, NEW h \in Handlers, HandlerStep(h)
    PROVE  SerialInv'
<1> USE DEF SerialInv
<1>0. /\ NothingStale /\ Exclusive
      /\ handlers[h] \in Handler /\ row \in Row
      /\ \A g \in Handlers : g = h
    BY DEF TypeOK, OneRequest
<1>1. ASSUME NEW m, row.status # "generating", handlers[h].copy.status = row.status,
             handlers[h].copy.error = row.error, Launch(h, m, handlers[h].copy)
      PROVE  SerialInv'
    <2> DEFINE copy == handlers[h].copy
    <2>1. PICK t \in Tasks :
            /\ tasks' = [tasks EXCEPT ![t] = [IdleTask EXCEPT !.pc = "pending", !.mode = m]]
            /\ row' = Flush(copy, Generating(copy))
            /\ handlers' = [handlers EXCEPT ![h] = IdleHandler]
            /\ rowAge' = rowAge
        BY <1>1 DEF Launch
    <2>2. copy \in Row
        BY <1>0 DEF Handler
    <2>3. row'.status = "generating" /\ row'.error = "none" /\ row'.progress # "stale"
        BY <1>0, <1>1, <2>1, <2>2 DEF Flush, Generating, Written, Row, NothingStale
    <2>4. /\ tasks'[t].pc = "pending" /\ tasks'[t].prog = "none"
          /\ \A u \in Tasks : u # t => tasks'[u] = tasks[u]
        BY <2>1 DEF TypeOK, IdleTask
    <2>5. \A u \in Tasks : ~Live(u)
        BY <1>0, <1>1 DEF Exclusive
    <2>6. handlers'[h].op = "none" /\ handlers'[h].copy.progress = "none"
        BY <2>1 DEF TypeOK, IdleHandler, EmptyRow
    <2>7. NothingStale'
        BY <1>0, <2>1, <2>3, <2>4, <2>6 DEF NothingStale
    <2>8. Exclusive'
        BY <1>0, <2>3, <2>4, <2>5, <2>6 DEF Exclusive, AtMostOneLiveTask, ErrorIffFailed, Live
    <2> QED  BY <2>7, <2>8
<1>2. ASSUME NEW k, handlers' = [handlers EXCEPT ![h] = k], k.copy.progress # "stale",
             k.op # "reset",
             k.op \in {"start", "auto", "autoload"} => row.status # "generating",
             k.op \in {"start", "autoload"} =>
               k.copy.status = row.status /\ k.copy.error = row.error,
             UNCHANGED <<row, rowAge, tasks>>
      PROVE  SerialInv'
    <2>1. handlers'[h] = k
        BY <1>2 DEF TypeOK
    <2>2. NothingStale'
        BY <1>0, <1>2, <2>1 DEF NothingStale
    <2>3. Exclusive'
        BY <1>0, <1>2, <2>1 DEF Exclusive, AtMostOneLiveTask, ErrorIffFailed, Live
    <2> QED  BY <2>2, <2>3
<1>3. IdleHandler.op = "none" /\ IdleHandler.copy.progress = "none"
    BY DEF IdleHandler, EmptyRow
<1>4. CASE StartLoad(h)
    <2>1. PICK m \in Modes : handlers' = [handlers EXCEPT ![h] = [op |-> "start", mode |-> m, copy |-> row]]
        BY <1>4 DEF StartLoad
    <2> DEFINE k == [op |-> "start", mode |-> m, copy |-> row]
    <2>2. k.op = "start" /\ k.copy = row
        OBVIOUS
    <2> HIDE DEF k
    <2> QED  BY <1>0, <1>2, <1>4, <2>1, <2>2 DEF k, StartLoad, StartAllowed, NothingStale
<1>5. CASE StartCommit(h)
    BY <1>0, <1>1, <1>5 DEF StartCommit, Exclusive
<1>6. CASE AutoCheck(h)
    <2> DEFINE k == [IdleHandler EXCEPT !.op = "auto"]
    <2>1. k.op = "auto" /\ k.copy.progress = "none"
        BY DEF IdleHandler, EmptyRow
    <2>2. handlers' = [handlers EXCEPT ![h] = k]
        BY <1>6 DEF AutoCheck
    <2> HIDE DEF k
    <2> QED  BY <1>2, <1>6, <2>1, <2>2 DEF AutoCheck, StartAllowed
<1>7. CASE AutoLoad(h)
    <2> DEFINE k == [handlers[h] EXCEPT !.op = "autoload", !.copy = row]
    <2>1. k.op = "autoload" /\ k.copy = row
        BY <1>0 DEF Handler
    <2>2. handlers' = [handlers EXCEPT ![h] = k]
        BY <1>7 DEF AutoLoad, TypeOK
    <2>3. row.status # "generating" /\ row.progress # "stale"
        BY <1>0, <1>7 DEF AutoLoad, Exclusive, NothingStale
    <2> HIDE DEF k
    <2> QED  BY <1>2, <1>7, <2>1, <2>2, <2>3 DEF AutoLoad
<1>8. CASE AutoCommit(h)
    BY <1>0, <1>1, <1>8 DEF AutoCommit, Exclusive
<1>9. CASE PollLoad(h)
    <2> DEFINE k == [op |-> "poll", mode |-> "full", copy |-> row]
    <2>1. k.op = "poll" /\ k.copy = row
        OBVIOUS
    <2>2. handlers' = [handlers EXCEPT ![h] = k]
        BY <1>9 DEF PollLoad
    <2> HIDE DEF k
    <2> QED  BY <1>0, <1>2, <1>9, <2>1, <2>2 DEF PollLoad, NothingStale
<1>10. CASE PollCommit(h)
    <2>1. ~LooksStale(handlers[h].copy)
        BY <1>0 DEF LooksStale, NothingStale
    <2>2. row' = row /\ handlers' = [handlers EXCEPT ![h] = IdleHandler]
        BY <1>10, <2>1 DEF PollCommit
    <2> QED  BY <1>2, <1>3, <1>10, <2>2 DEF PollCommit
<1>11. CASE GiveUp(h)
    BY <1>2, <1>3, <1>11 DEF GiveUp
<1>12. ~ResetLoad(h) /\ ~ResetCommit(h)
    BY <1>0 DEF ResetLoad, ResetCommit, Exclusive
<1> QED
    BY <1>4, <1>5, <1>6, <1>7, <1>8, <1>9, <1>10, <1>11, <1>12 DEF HandlerStep, HandlerCommit

LEMMA SerialTasks ==
    ASSUME TypeOK, SerialInv, NEW t \in Tasks, TaskStep(t) \/ Lose(t)
    PROVE  SerialInv'
<1> USE DEF SerialInv
<1>0. NothingStale /\ Exclusive
    OBVIOUS
<1>1. CASE Stage(t)
    <2>1. /\ row'.status = row.status
          /\ tasks'[t].pc \notin LastPC
          /\ \A u \in Tasks \ {t} : tasks'[u] = tasks[u]
          /\ Live(t)
        BY <1>1, StageEffect
    <2>2. /\ row'.error = row.error /\ row'.progress # "stale" /\ tasks'[t].prog # "stale"
          /\ rowAge' = rowAge /\ handlers' = handlers
        BY <1>0, <1>1, StageFresh
    <2>3. NothingStale'
        BY <1>0, <2>1, <2>2 DEF NothingStale
    <2>4. Exclusive'
        BY <1>0, <2>1, <2>2 DEF Exclusive, AtMostOneLiveTask, ErrorIffFailed, Live, LastPC
    <2> QED  BY <2>3, <2>4
<1>2. CASE FinalLoad(t)
    <2>1. /\ tasks'[t].copy = row /\ Live(t)
          /\ \A u \in Tasks \ {t} : tasks'[u] = tasks[u]
          /\ tasks'[t].prog = "none" /\ UNCHANGED <<row, rowAge, handlers>>
        BY <1>2, FinalLoadEffect DEF FinalLoad, TypeOK, IdleTask
    <2>2. row.status = "generating" /\ row.error = "none"
        BY <1>0, <2>1 DEF Exclusive, ErrorIffFailed
    <2>3. NothingStale'
        BY <1>0, <2>1 DEF NothingStale
    <2>4. Exclusive'
        BY <1>0, <2>1, <2>2 DEF Exclusive, AtMostOneLiveTask, ErrorIffFailed, Live
    <2> QED  BY <2>3, <2>4
<1>3. CASE FinalCommit(t)
    <2>1. /\ tasks[t].pc \in {"completing", "aborting"} /\ Live(t)
          /\ row' = Flush(tasks[t].copy, Final(tasks[t]))
          /\ tasks'[t] = IdleTask /\ \A u \in Tasks \ {t} : tasks'[u] = tasks[u]
          /\ UNCHANGED <<rowAge, handlers>>
        BY <1>3 DEF FinalCommit, TypeOK, Live
    <2>2. IdleTask.pc = "ended" /\ IdleTask.prog = "none"
        BY DEF IdleTask
    <2>3. /\ tasks[t].copy.status = "generating" /\ tasks[t].copy.error = "none"
          /\ row.status = "generating" /\ row.error = "none"
          /\ tasks[t].copy \in Row
        BY <1>0, <2>1 DEF Exclusive, ErrorIffFailed, TypeOK, Task
    <2>4. \/ row'.status = "completed" /\ row'.error = "none"
          \/ row'.status = "failed" /\ row'.error = "exception"
        <3> DEFINE new == Final(tasks[t])
        <3>1. \/ new.status = "completed" /\ new.error = "none"
              \/ new.status = "failed" /\ new.error = "exception"
            BY <2>3 DEF Final, Completed, Failed, Row
        <3>2. /\ row'.status = Written(row.status, tasks[t].copy.status, new.status)
              /\ row'.error = Written(row.error, tasks[t].copy.error, new.error)
            BY <2>1 DEF Flush
        <3> HIDE DEF new
        <3> QED  BY <2>3, <3>1, <3>2 DEF Written
    <2>5. row'.progress # "stale"
        <3>1. Final(tasks[t]).progress = "none"
            BY <2>3 DEF Final, Completed, Failed, Row
        <3> QED  BY <1>0, <2>1, <3>1 DEF Flush, Written, NothingStale
    <2>6. NothingStale'
        BY <1>0, <2>1, <2>2, <2>5 DEF NothingStale
    <2>7. Exclusive'
        BY <1>0, <2>1, <2>2, <2>3, <2>4 DEF Exclusive, AtMostOneLiveTask, ErrorIffFailed, Live
    <2> QED  BY <2>6, <2>7
<1>4. CASE Lose(t)
    <2>1. /\ tasks'[t] = IdleTask /\ \A u \in Tasks \ {t} : tasks'[u] = tasks[u]
          /\ UNCHANGED <<row, rowAge, handlers>>
        BY <1>4 DEF Lose, TypeOK
    <2>2. IdleTask.pc = "ended" /\ IdleTask.prog = "none"
        BY DEF IdleTask
    <2>3. NothingStale'
        BY <1>0, <2>1, <2>2 DEF NothingStale
    <2>4. Exclusive'
        BY <1>0, <2>1, <2>2 DEF Exclusive, AtMostOneLiveTask, ErrorIffFailed, Live
    <2> QED  BY <2>3, <2>4
<1> QED  BY <1>1, <1>2, <1>3, <1>4 DEF TaskStep, Stage

LEMMA SerialInductive ==
    ASSUME OneRequest, Faults \cap {"reset", "time"} = {}
    PROVE  Spec => []SerialInv
<1>1. Init => SerialInv
    BY DEF Init, SerialInv, NothingStale, Exclusive, AtMostOneLiveTask, ErrorIffFailed, Live,
           EmptyRow, IdleTask, IdleHandler
<1>2. TypeOK /\ SerialInv /\ [Next]_vars => SerialInv'
    <2> SUFFICES ASSUME TypeOK, SerialInv, [Next]_vars PROVE SerialInv'
        OBVIOUS
    <2>1. ASSUME NEW h \in Handlers, HandlerStep(h) PROVE SerialInv'
        BY <2>1, SerialRequests
    <2>2. ASSUME NEW t \in Tasks, TaskStep(t) \/ Lose(t) PROVE SerialInv'
        BY <2>2, SerialTasks
    <2>3. ASSUME UNCHANGED <<row, rowAge, tasks, handlers>> PROVE SerialInv'
        BY <2>3 DEF SerialInv, NothingStale, Exclusive, AtMostOneLiveTask, ErrorIffFailed, Live
    <2>4. CASE CodeChanges
        BY <2>3, <2>4 DEF CodeChanges
    <2>5. CASE DeleteDocuments
        BY <2>3, <2>5 DEF DeleteDocuments
    <2>6. CASE UNCHANGED vars
        BY <2>3, <2>6 DEF vars
    <2> QED  BY <2>1, <2>2, <2>4, <2>5, <2>6 DEF Next, TimePasses
<1> QED  BY <1>1, <1>2, TypeCorrect, PTL DEF Spec

\* One request at a time, and nobody resets a generation or waits for fifteen
\* minutes: a product never has two generations running, whatever run fails, is
\* killed or cannot write its final status.
THEOREM OneGeneration ==
    OneRequest /\ Faults \cap {"reset", "time"} = {} => (Spec => []AtMostOneLiveTask)
<1>1. SerialInv => AtMostOneLiveTask
    BY DEF SerialInv, Exclusive
<1> SUFFICES ASSUME OneRequest, Faults \cap {"reset", "time"} = {}
             PROVE  Spec => []AtMostOneLiveTask
    OBVIOUS
<1> QED  BY <1>1, SerialInductive, PTL

\* Under the same conditions the row has an error text exactly when it failed.
THEOREM ErrorsAreFailures ==
    OneRequest /\ Faults \cap {"reset", "time"} = {} => (Spec => []ErrorIffFailed)
<1>1. SerialInv => ErrorIffFailed
    BY DEF SerialInv, Exclusive
<1> SUFFICES ASSUME OneRequest, Faults \cap {"reset", "time"} = {}
             PROVE  Spec => []ErrorIffFailed
    OBVIOUS
<1> QED  BY <1>1, SerialInductive, PTL
=============================================================================
