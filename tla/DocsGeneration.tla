--------------------------- MODULE DocsGeneration ---------------------------
(***************************************************************************)
(* AI documentation generation of ONE product: the four HTTP operations    *)
(* that touch the product's docs_generation_* columns (generate, status,   *)
(* reset, the automatic trigger) and the background tasks they start.      *)
(*                                                                         *)
(* Every database session of the code works on a copy of the product row:  *)
(* it loads the row, awaits other queries, assigns attributes and commits. *)
(* SQLAlchemy then writes only the columns whose value differs from the    *)
(* loaded one.  "copy" is that loaded row and Flush is that write.         *)
(*                                                                         *)
(* Time is kept only as far as the code compares it with                   *)
(* DOCS_GENERATION_TIMEOUT_MINUTES: a timestamp is "fresh" or "stale".     *)
(***************************************************************************)
EXTENDS Naturals, FiniteSets

CONSTANTS
    Tasks,      \* identities of background tasks; one is reused once it ended
    Handlers,   \* HTTP requests that can be in flight at the same time
    Versions,   \* states of the repositories, as far as a fingerprint tells
    Topics,     \* documents the planner may ask for
    Modes,      \* modes that requests ask for; the mode only words the prompt
    NoVersion,  \* a NULL fingerprint
    NoTask,     \* no task is responsible for the row
    LostTask,   \* the responsible task ended without writing a final status
    Faults      \* what may go wrong in this instance, see FaultKinds

\* "kill": a process ends; "exception": a stage raises and the run fails;
\* "dbfail": a write fails and the code swallows it; "docfail": a document is
\* not generated; "delete": documents are deleted; "reset": a user resets;
\* "time": fifteen minutes go by.
FaultKinds == {"kill", "exception", "dbfail", "docfail", "delete", "reset", "time"}

ASSUME ConstantsAssumption ==
    /\ Faults \subseteq FaultKinds
    /\ Modes \subseteq {"full", "additive"}
    /\ NoVersion \notin Versions
    /\ NoTask \notin Tasks /\ LostTask \notin Tasks /\ NoTask # LostTask

VARIABLES
    row,        \* the product's columns, as committed
    rowAge,     \* age of products.updated_at, which no code path renews
    code,       \* what the linked repositories contain now
    docs,       \* generated documents that exist
    tasks,      \* run_document_orchestrator, one record per task
    handlers,   \* HTTP requests between their load and their commit
    owner,      \* history: the task started by the commit that set "generating"
    genAge,     \* history: time since that commit
    lost,       \* history: some task ended without writing a final status
    promised    \* history: what the run behind the stored fingerprint had planned

vars == <<row, rowAge, code, docs, tasks, handlers, owner, genAge, lost, promised>>

Age == {"fresh", "stale"}
Status == {"idle", "generating", "completed", "failed"}
ErrorText == {"none", "timeout", "cancelled", "exception"}
Fingerprint == Versions \union {NoVersion}

Row == [status: Status, error: ErrorText, progress: Age \union {"none"},
        fp: Fingerprint]

EmptyRow == [status |-> "idle", error |-> "none", progress |-> "none",
             fp |-> NoVersion]

TaskPC == {"ended", "pending", "starting", "analyzing", "planning",
           "generating", "writing", "v1", "postprocessing", "saving",
           "finishing", "completing", "failing", "aborting"}

\* prog/dirty: the task's own session holds the progress it reported last and
\* writes it again with its next commit; old: the fingerprint it loaded.
Task == [pc: TaskPC, mode: {"full", "additive"}, old: Fingerprint,
         fp: Fingerprint, prog: Age \union {"none"}, dirty: BOOLEAN,
         plan: SUBSET Topics, todo: SUBSET Topics, copy: Row]

IdleTask == [pc |-> "ended", mode |-> "full", old |-> NoVersion,
             fp |-> NoVersion, prog |-> "none", dirty |-> FALSE,
             plan |-> {}, todo |-> {}, copy |-> EmptyRow]

Op == {"none", "start", "auto", "autoload", "poll", "reset"}
Handler == [op: Op, mode: {"full", "additive"}, copy: Row]
IdleHandler == [op |-> "none", mode |-> "full", copy |-> EmptyRow]

Live(t) == tasks[t].pc # "ended"

\* Types of the state: the row only holds the values its columns may have, and
\* every copy of it in a session is such a row as well.
TypeOK ==
    /\ row \in Row
    /\ rowAge \in Age
    /\ code \in Versions
    /\ docs \subseteq Topics
    /\ tasks \in [Tasks -> Task]
    /\ handlers \in [Handlers -> Handler]
    /\ owner \in Tasks \union {NoTask, LostTask}
    /\ genAge \in Age
    /\ lost \in BOOLEAN
    /\ promised \subseteq Topics

-----------------------------------------------------------------------------
(* The session: load a copy, write back the changed columns.               *)

Written(db, old, new) == IF new # old THEN new ELSE db

Flush(copy, new) ==
    [status   |-> Written(row.status, copy.status, new.status),
     error    |-> Written(row.error, copy.error, new.error),
     progress |-> Written(row.progress, copy.progress, new.progress),
     fp       |-> Written(row.fp, copy.fp, new.fp)]

\* Wrong variant: a start that leaves the error of the previous run.
Generating_KeepsError(copy) ==
    [copy EXCEPT !.status = "generating", !.progress = "none"]

Generating(copy) ==
    [copy EXCEPT !.status = "generating", !.error = "none", !.progress = "none"]

\* Wrong variant: a completion that leaves the last progress report.
Completed_KeepsProgress(copy) ==
    [copy EXCEPT !.status = "completed", !.error = "none"]

Completed(copy) ==
    [copy EXCEPT !.status = "completed", !.error = "none", !.progress = "none"]

Failed(copy, text) ==
    [copy EXCEPT !.status = "failed", !.error = text, !.progress = "none"]

\* A write that may be lost to a database error the code swallows.
Outcome == IF "dbfail" \in Faults THEN BOOLEAN ELSE {TRUE}

\* _update_progress: a session of its own writes the column; the attribute of
\* the task's long-lived product object is set too and becomes dirty there.
Reported(ok, r) == IF ok THEN [r EXCEPT !.progress = "fresh"] ELSE r
Noted(ok, k) == IF ok THEN [k EXCEPT !.prog = "fresh", !.dirty = TRUE] ELSE k

\* A commit of the task's long-lived session: the dirty progress goes along.
Committed(k, r) == IF k.dirty THEN [r EXCEPT !.progress = k.prog] ELSE r
Clean(k) == [k EXCEPT !.dirty = FALSE]

-----------------------------------------------------------------------------
(* POST generate-docs: load and check, later commit and start a task.      *)

\* Wrong variant: a start that only refuses while progress is being reported.
StartAllowed_ByProgress(r) == r.progress = "none"

StartAllowed(r) == r.status # "generating"

StartLoad(h) ==
    /\ handlers[h].op = "none"
    /\ StartAllowed(row)
    /\ \E m \in Modes :
         handlers' = [handlers EXCEPT ![h] =
                        [op |-> "start", mode |-> m, copy |-> row]]
    /\ UNCHANGED <<row, rowAge, code, docs, tasks, owner, genAge, lost, promised>>

\* The commit that marks the row, and the task it leaves behind.
Launch(h, m, copy) ==
    \E t \in Tasks :
        /\ ~Live(t)
        /\ tasks' = [tasks EXCEPT ![t] = [IdleTask EXCEPT !.pc = "pending", !.mode = m]]
        /\ row' = Flush(copy, Generating(copy))
        /\ owner' = IF copy.status # "generating" THEN t ELSE owner
        /\ genAge' = IF copy.status # "generating" THEN "fresh" ELSE genAge
        /\ handlers' = [handlers EXCEPT ![h] = IdleHandler]
        /\ UNCHANGED <<rowAge, code, docs, lost, promised>>

StartCommit(h) ==
    /\ handlers[h].op = "start"
    /\ Launch(h, handlers[h].mode, handlers[h].copy)

(* maybe_auto_trigger_docs: the check is made in the caller's session, the *)
(* write in a fresh one that loads the row again and does not check it.    *)

AutoCheck(h) ==
    /\ handlers[h].op = "none"
    /\ StartAllowed(row)
    /\ handlers' = [handlers EXCEPT ![h] = [IdleHandler EXCEPT !.op = "auto"]]
    /\ UNCHANGED <<row, rowAge, code, docs, tasks, owner, genAge, lost, promised>>

AutoLoad(h) ==
    /\ handlers[h].op = "auto"
    /\ handlers' = [handlers EXCEPT ![h].op = "autoload", ![h].copy = row]
    /\ UNCHANGED <<row, rowAge, code, docs, tasks, owner, genAge, lost, promised>>

AutoCommit(h) ==
    /\ handlers[h].op = "autoload"
    /\ Launch(h, "additive", handlers[h].copy)

(* GET docs-status: a row that looks abandoned is marked failed.           *)

PollLoad(h) ==
    /\ handlers[h].op = "none"
    /\ row.status = "generating"
    /\ handlers' = [handlers EXCEPT ![h] =
                      [op |-> "poll", mode |-> "full", copy |-> row]]
    /\ UNCHANGED <<row, rowAge, code, docs, tasks, owner, genAge, lost, promised>>

\* Wrong variant: without progress a row is never found to be abandoned.
LooksStale_NoFallback(copy) == copy.progress = "stale"

\* With no progress to date the generation by, updated_at of the product is used.
LooksStale(copy) ==
    \/ copy.progress = "stale"
    \/ copy.progress = "none" /\ rowAge = "stale"

PollCommit(h) ==
    /\ handlers[h].op = "poll"
    /\ row' = IF LooksStale(handlers[h].copy)
              THEN Flush(handlers[h].copy, Failed(handlers[h].copy, "timeout"))
              ELSE row
    /\ handlers' = [handlers EXCEPT ![h] = IdleHandler]
    /\ UNCHANGED <<rowAge, code, docs, tasks, owner, genAge, lost, promised>>

(* POST reset-docs-generation                                              *)

ResetLoad(h) ==
    /\ "reset" \in Faults
    /\ handlers[h].op = "none"
    /\ row.status = "generating"
    /\ handlers' = [handlers EXCEPT ![h] =
                      [op |-> "reset", mode |-> "full", copy |-> row]]
    /\ UNCHANGED <<row, rowAge, code, docs, tasks, owner, genAge, lost, promised>>

ResetCommit(h) ==
    /\ handlers[h].op = "reset"
    /\ row' = Flush(handlers[h].copy, Failed(handlers[h].copy, "cancelled"))
    /\ handlers' = [handlers EXCEPT ![h] = IdleHandler]
    /\ UNCHANGED <<rowAge, code, docs, tasks, owner, genAge, lost, promised>>

\* A start without GitHub access, or a request whose process went away.
GiveUp(h) ==
    /\ handlers[h].op # "none"
    /\ handlers' = [handlers EXCEPT ![h] = IdleHandler]
    /\ UNCHANGED <<row, rowAge, code, docs, tasks, owner, genAge, lost, promised>>

-----------------------------------------------------------------------------
(* run_document_orchestrator, one action per stage.  Progress reports that *)
(* follow each other with no work between them are one write.              *)

\* The task t becomes k and reports progress on top of the row r.
Report(t, k, r) ==
    \E ok \in Outcome :
        /\ tasks' = [tasks EXCEPT ![t] = Noted(ok, k)]
        /\ row' = Reported(ok, r)

Load(t) ==
    /\ tasks[t].pc = "pending"
    /\ tasks' = [tasks EXCEPT ![t].pc = "starting", ![t].old = row.fp]
    /\ UNCHANGED <<row, rowAge, code, docs, handlers, owner, genAge, lost, promised>>

BeginRun(t) ==
    /\ tasks[t].pc = "starting"
    /\ \/ Report(t, [tasks[t] EXCEPT !.pc = "analyzing"], row)
       \/ /\ "exception" \in Faults
          /\ \/ Report(t, [tasks[t] EXCEPT !.pc = "failing"], row)
             \/ /\ tasks' = [tasks EXCEPT ![t].pc = "failing"]
                /\ UNCHANGED row
    /\ UNCHANGED <<rowAge, code, docs, handlers, owner, genAge, lost, promised>>

\* should_skip_generation, against the fingerprint loaded when the task began.
Unchanged(k) == k.old # NoVersion /\ k.old = code

\* Fingerprint kept for the end of the run; none after a rename and a retry.
Analyzed(k, renamed) ==
    [k EXCEPT !.pc = "planning", !.fp = IF renamed THEN NoVersion ELSE code]

\* Analysis, retried once if GitHub reports a renamed repository; recording the
\* new name commits the task's session.  Every failure falls back to v1.
Analyze(t) ==
    /\ tasks[t].pc = "analyzing"
    /\ \E renamed, saved \in BOOLEAN :
         LET k == IF saved THEN Clean(tasks[t]) ELSE tasks[t]
             r == IF saved THEN Committed(tasks[t], row) ELSE row
         IN  /\ saved => renamed
             /\ \/ /\ ~renamed /\ Unchanged(k)
                   /\ Report(t, [k EXCEPT !.pc = "finishing"], r)
                \/ /\ renamed \/ ~Unchanged(k)
                   /\ Report(t, Analyzed(k, renamed), r)
                \/ Report(t, [k EXCEPT !.pc = "v1"], r)
                \/ /\ "exception" \in Faults
                   /\ tasks' = [tasks EXCEPT ![t] = [k EXCEPT !.pc = "failing"]]
                   /\ row' = r
    /\ UNCHANGED <<rowAge, code, docs, handlers, owner, genAge, lost, promised>>

Planned(k, topics) ==
    [k EXCEPT !.plan = topics, !.todo = topics,
              !.pc = IF topics = {} THEN "postprocessing" ELSE "generating"]

\* The planner is an external model: it may ask for any set of documents.
Plan(t) ==
    /\ tasks[t].pc = "planning"
    /\ \/ /\ \E topics \in SUBSET Topics :
              tasks' = [tasks EXCEPT ![t] = Planned(tasks[t], topics)]
          /\ UNCHANGED row
       \/ Report(t, [tasks[t] EXCEPT !.pc = "v1"], row)
    /\ UNCHANGED <<rowAge, code, docs, handlers, owner, genAge, lost, promised>>

BeginDoc(t) ==
    /\ tasks[t].pc = "generating"
    /\ Report(t, [tasks[t] EXCEPT !.pc = "writing"], row)
    /\ UNCHANGED <<rowAge, code, docs, handlers, owner, genAge, lost, promised>>

\* Wrong variant: the loop over the plan is left after its first document.
DocDone_First(k, i) ==
    [k EXCEPT !.todo = k.todo \ {i}, !.pc = "postprocessing"]

\* The batch goes on after a document that failed.
DocDone(k, i) ==
    [k EXCEPT !.todo = k.todo \ {i},
              !.pc = IF k.todo \ {i} = {} THEN "postprocessing" ELSE "generating"]

FinishDoc(t) ==
    LET k == tasks[t] IN
    /\ k.pc = "writing"
    /\ \E i \in k.todo :
         \/ /\ docs' = docs \union {i}
            /\ tasks' = [tasks EXCEPT ![t] = Clean(DocDone(k, i))]
            /\ row' = Committed(k, row)
         \/ /\ "docfail" \in Faults
            /\ tasks' = [tasks EXCEPT ![t] = DocDone(k, i)]
            /\ UNCHANGED <<docs, row>>
    /\ UNCHANGED <<rowAge, code, handlers, owner, genAge, lost, promised>>

\* The legacy flow: scan and import, then the blueprint agent.
RunV1(t) ==
    LET k == tasks[t] IN
    /\ k.pc = "v1"
    /\ \/ Report(t, [k EXCEPT !.pc = "postprocessing", !.fp = NoVersion], row)
       \/ Report(t, Clean([k EXCEPT !.pc = "postprocessing", !.fp = NoVersion]),
                 Committed(k, row))
       \/ /\ "exception" \in Faults
          /\ tasks' = [tasks EXCEPT ![t].pc = "failing"]
          /\ UNCHANGED row
    /\ UNCHANGED <<rowAge, code, docs, handlers, owner, genAge, lost, promised>>

\* Changelog and plans: each may commit, a failure of either is swallowed.
Postprocess(t) ==
    LET k == [tasks[t] EXCEPT !.pc = "saving"] IN
    /\ tasks[t].pc = "postprocessing"
    /\ \/ Report(t, k, row)
       \/ Report(t, Clean(k), Committed(k, row))
    /\ UNCHANGED <<rowAge, code, docs, handlers, owner, genAge, lost, promised>>

Saved(k, r) == IF k.fp # NoVersion THEN [r EXCEPT !.fp = k.fp] ELSE r

SaveFingerprint(t) ==
    LET k == tasks[t] IN
    /\ k.pc = "saving"
    /\ \E ok \in Outcome :
         /\ Report(t, [k EXCEPT !.pc = "finishing"], IF ok THEN Saved(k, row) ELSE row)
         /\ promised' = IF ok /\ k.fp # NoVersion THEN k.plan ELSE promised
    /\ UNCHANGED <<rowAge, code, docs, handlers, owner, genAge, lost>>

(* _mark_generation_completed and _mark_generation_failed: a fresh session; *)
(* nothing of the long-lived one is committed any more.                    *)

FinalLoad(t) ==
    /\ tasks[t].pc \in {"finishing", "failing"}
    /\ tasks' = [tasks EXCEPT ![t] =
                   [IdleTask EXCEPT
                      !.pc = IF tasks[t].pc = "finishing" THEN "completing" ELSE "aborting",
                      !.copy = row]]
    /\ UNCHANGED <<row, rowAge, code, docs, handlers, owner, genAge, lost, promised>>

\* Wrong variant: an exception leaves the row as it is.
Final_Silent(k) == IF k.pc = "completing" THEN Completed(k.copy) ELSE k.copy

Final(k) ==
    IF k.pc = "completing" THEN Completed(k.copy) ELSE Failed(k.copy, "exception")

FinalCommit(t) ==
    LET k == tasks[t] IN
    /\ k.pc \in {"completing", "aborting"}
    /\ row' = Flush(k.copy, Final(k))
    /\ tasks' = [tasks EXCEPT ![t] = IdleTask]
    /\ owner' = IF owner = t THEN NoTask ELSE owner
    /\ UNCHANGED <<rowAge, code, docs, handlers, genAge, lost, promised>>

\* The task is gone and no final status was written: its process ended, or the
\* final write failed (a completion is tried once, a failure three times).
Lose(t) ==
    /\ \/ "kill" \in Faults /\ Live(t)
       \/ "dbfail" \in Faults /\ tasks[t].pc \in {"completing", "aborting"}
    /\ tasks' = [tasks EXCEPT ![t] = IdleTask]
    /\ owner' = IF owner = t THEN LostTask ELSE owner
    /\ lost' = TRUE
    /\ UNCHANGED <<row, rowAge, code, docs, handlers, genAge, promised>>

-----------------------------------------------------------------------------
(* The world around: commits to the repositories, the deletion of one or   *)
(* of all generated documents, and fifteen minutes.                        *)

CodeChanges ==
    /\ \E v \in Versions \ {code} : code' = v
    /\ UNCHANGED <<row, rowAge, docs, tasks, handlers, owner, genAge, lost, promised>>

DeleteDocuments ==
    /\ "delete" \in Faults
    /\ \E gone \in {docs} \union {{i} : i \in docs} :
         /\ gone # {}
         /\ docs' = docs \ gone
    /\ UNCHANGED <<row, rowAge, code, tasks, handlers, owner, genAge, lost, promised>>

Older(a) == IF a = "fresh" THEN "stale" ELSE a

TimePasses ==
    /\ "time" \in Faults
    /\ row' = [row EXCEPT !.progress = Older(row.progress)]
    /\ tasks' = [t \in Tasks |-> [tasks[t] EXCEPT !.prog = Older(tasks[t].prog)]]
    /\ rowAge' = "stale"
    /\ genAge' = "stale"
    /\ UNCHANGED <<code, docs, handlers, owner, lost, promised>>

-----------------------------------------------------------------------------
Init ==
    /\ row = EmptyRow
    /\ rowAge \in (IF "time" \in Faults THEN Age ELSE {"fresh"})
    /\ code \in Versions
    /\ docs = {}
    /\ tasks = [t \in Tasks |-> IdleTask]
    /\ handlers = [h \in Handlers |-> IdleHandler]
    /\ owner = NoTask
    /\ genAge = "fresh"
    /\ lost = FALSE
    /\ promised = {}

HandlerCommit(h) ==
    StartCommit(h) \/ AutoLoad(h) \/ AutoCommit(h) \/ PollCommit(h) \/ ResetCommit(h)

HandlerStep(h) ==
    \/ StartLoad(h) \/ AutoCheck(h) \/ PollLoad(h) \/ ResetLoad(h)
    \/ HandlerCommit(h) \/ GiveUp(h)

TaskStep(t) ==
    \/ Load(t) \/ BeginRun(t) \/ Analyze(t) \/ Plan(t) \/ BeginDoc(t)
    \/ FinishDoc(t) \/ RunV1(t) \/ Postprocess(t) \/ SaveFingerprint(t)
    \/ FinalLoad(t) \/ FinalCommit(t)

Next ==
    \/ \E h \in Handlers : HandlerStep(h)
    \/ \E t \in Tasks : TaskStep(t) \/ Lose(t)
    \/ CodeChanges \/ DeleteDocuments \/ TimePasses

Spec == Init /\ [][Next]_vars

-----------------------------------------------------------------------------
(* What the component promises.                                            *)

\* A row that says "generating" always has a task answering for it: the one
\* whose start wrote it is alive, or it was lost without a final write.  No
\* interleaving of starts, polls, resets and final writes leaves the row
\* "generating" behind a task that ended in order.
GeneratingHasOwner == row.status = "generating" => owner # NoTask

\* What makes GeneratingHasOwner inductive: the owner is alive, and if it has
\* loaded the row for its final write, it has seen "generating" there.
OwnerInv ==
    /\ GeneratingHasOwner
    /\ owner = LostTask => lost
    /\ owner \in Tasks =>
         /\ Live(owner)
         /\ (row.status = "generating" /\ tasks[owner].pc \in {"completing", "aborting"})
              => tasks[owner].copy.status = "generating"

\* When every task has ended and none was lost, the row is settled: it does not
\* say "generating", and no progress report of a slower task is left in it.
QuietIsSettled ==
    (~lost /\ \A t \in Tasks : ~Live(t))
        => row.status # "generating" /\ row.progress = "none"

\* A progress report in the row is cleared by a task that is still to finish.
ProgressInv ==
    (row.progress # "none" /\ ~lost) =>
        \E t \in Tasks :
            /\ Live(t)
            /\ tasks[t].pc \in {"completing", "aborting"}
                 => tasks[t].copy.progress # "none"

\* The stored fingerprint lets later runs skip their work, "docs are already
\* current" (orchestrator.py:199), so every document that was planned by the run
\* which stored it exists.
FingerprintMeansDocs == row.fp # NoVersion => promised \subseteq docs

\* One generation of a product at a time (the "already_running" answer).
AtMostOneLiveTask ==
    \A t, u \in Tasks : Live(t) /\ Live(u) => t = u

\* docs_generation_error: "Error message if doc generation failed".
ErrorIffFailed == (row.error # "none") <=> (row.status = "failed")

\* What one would expect, and does not hold: only a job that has been
\* generating for longer than the timeout is marked as timed out (the docstring
\* of the status endpoint).
TimeoutOnlyForOldGenerations ==
    [][(row.error # "timeout" /\ row'.error = "timeout")
         => (row.status = "generating" /\ genAge = "stale")]_vars

\* What one would expect, and does not hold: mode="full" regenerates
\* all documentation, so that such a run is never skipped.
FullIsNeverSkipped ==
    [][\A t \in Tasks :
         (tasks[t].mode = "full" /\ tasks[t].pc = "analyzing")
            => tasks'[t].pc # "finishing"]_vars

\* A request that was accepted is answered, a live task runs on, the clock
\* advances, and the page that shows "generating" keeps polling.
Fairness ==
    /\ \A h \in Handlers : WF_vars(HandlerCommit(h))
    /\ \A t \in Tasks : WF_vars(TaskStep(t))
    /\ WF_vars(TimePasses)
    /\ SF_vars(\E h \in Handlers : PollLoad(h))
    /\ SF_vars(\E h \in Handlers : PollCommit(h))

FairSpec == Spec /\ Fairness

\* Whatever fails, a row that says "generating" does not do so for ever: the
\* user can start again.
Recovers == (row.status = "generating") ~> (row.status # "generating")
=============================================================================
