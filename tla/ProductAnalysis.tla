--------------------------- MODULE ProductAnalysis ---------------------------
(***************************************************************************)
(* The AI analysis of one product: a request checks the product and how    *)
(* often its plan allows an analysis, marks it "analyzing" in a session of *)
(* its own and starts a task, which writes progress and at last the        *)
(* overview or the failure, each in a session of its own again.            *)
(***************************************************************************)
EXTENDS Naturals, FiniteSets

CONSTANTS
    Analyses,  \* requests, and the tasks they start
    Every,     \* the plan allows one analysis in so much time
    LastTime   \* bound: the clock

VARIABLES
    time,
    product,   \* the row
    analysis,  \* where each request and its task are
    ended,     \* history: when an analysis was completed, if one was
    hurt       \* history: a process died, or a last write failed

vars == <<time, product, analysis, ended, hurt>>

Stages == {"idle", "checked", "auto", "queued", "running", "completing", "failing"}
Statuses == {"none", "analyzing", "completed", "failed"}

\* Types; an overview is there when the analysis is said to be completed.
TypeOK ==
    /\ time \in 0 .. LastTime
    /\ product \in [there: BOOLEAN, status: Statuses, overview: BOOLEAN,
                    progress: BOOLEAN, updated: 0 .. LastTime]
    /\ product.status = "completed" => product.overview
    /\ analysis \in [Analyses -> Stages]
    /\ ended \in {s \in SUBSET (0 .. LastTime) : Cardinality(s) <= 1} /\ hurt \in BOOLEAN

Goes(r, stage) == analysis' = [analysis EXCEPT ![r] = stage]

-----------------------------------------------------------------------------
\* The last change of the row stands for the end of the last analysis.
TooSoon == product.status = "completed" /\ time - product.updated < Every

\* POST /products/{id}/analyze, up to the last check.
AnalyzeProduct(r) ==
    /\ analysis[r] = "idle"
    /\ product.there /\ product.status # "analyzing" /\ ~TooSoon
    /\ Goes(r, "checked")
    /\ UNCHANGED <<time, product, ended, hurt>>

\* A new product starts one by itself, whatever its plan.
MaybeAutoTrigger(r) ==
    /\ analysis[r] = "idle"
    /\ product.there /\ product.status # "analyzing"
    /\ Goes(r, "auto")
    /\ UNCHANGED <<time, product, ended, hurt>>

\* Marked in a fresh session; a request starts the task in any case, the
\* automatic start only for a product that is still there.
Dispatch(r) ==
    /\ analysis[r] \in {"checked", "auto"}
    /\ product' = IF product.there THEN [product EXCEPT !.status = "analyzing"] ELSE product
    /\ Goes(r, IF product.there \/ analysis[r] = "checked" THEN "queued" ELSE "idle")
    /\ UNCHANGED <<time, ended, hurt>>

\* The fresh session may fail, and with it the request.
DispatchFails(r) ==
    /\ analysis[r] \in {"checked", "auto"}
    /\ Goes(r, "idle")
    /\ UNCHANGED <<time, product, ended, hurt>>

RunAnalysisTask(r) ==
    /\ analysis[r] = "queued"
    /\ Goes(r, IF product.there THEN "running" ELSE "idle")
    /\ UNCHANGED <<time, product, ended, hurt>>

UpdateProgress(r) ==
    /\ analysis[r] = "running"
    /\ product.there /\ ~product.progress
    /\ product' = [product EXCEPT !.progress = TRUE]
    /\ UNCHANGED <<time, analysis, ended, hurt>>

\* Repositories that cannot be read are left out, an error ends it.
AnalysisEnds(r) ==
    /\ analysis[r] = "running"
    /\ \E stage \in {"completing", "failing"} : Goes(r, stage)
    /\ UNCHANGED <<time, product, ended, hurt>>

\* Wrong variant: the failure is noted, the status is not.
Failed_KeepsStatus == [product EXCEPT !.progress = FALSE]

Failed == [product EXCEPT !.status = "failed", !.progress = FALSE]

Completed == [product EXCEPT !.status = "completed", !.overview = TRUE, !.progress = FALSE]

MarkCompleted(r) ==
    /\ analysis[r] = "completing"
    /\ IF product.there
       THEN product' = Completed /\ ended' = {time}
       ELSE UNCHANGED <<product, ended>>
    /\ Goes(r, "idle")
    /\ UNCHANGED <<time, hurt>>

MarkFailed(r) ==
    /\ analysis[r] = "failing"
    /\ product' = IF product.there THEN Failed ELSE product
    /\ Goes(r, "idle")
    /\ UNCHANGED <<time, ended, hurt>>

\* An error of either write is only logged.
MarkFails(r) ==
    /\ analysis[r] \in {"completing", "failing"}
    /\ Goes(r, "idle")
    /\ hurt' = TRUE
    /\ UNCHANGED <<time, product, ended>>

Restart ==
    /\ \E r \in Analyses : analysis[r] # "idle"
    /\ analysis' = [r \in Analyses |-> "idle"]
    /\ hurt' = TRUE
    /\ UNCHANGED <<time, product, ended>>

DeleteProduct ==
    /\ product.there
    /\ product' = [product EXCEPT !.there = FALSE]
    /\ UNCHANGED <<time, analysis, ended, hurt>>

TimeGoesOn ==
    /\ time < LastTime
    /\ time' = time + 1
    /\ UNCHANGED <<product, analysis, ended, hurt>>

-----------------------------------------------------------------------------
\* A product begins with the row's date; no operation changes it.
Init ==
    /\ time = 0
    /\ product = [there |-> TRUE, status |-> "none", overview |-> FALSE,
                  progress |-> FALSE, updated |-> 0]
    /\ analysis = [r \in Analyses |-> "idle"]
    /\ ended = {} /\ hurt = FALSE

Task(r) == RunAnalysisTask(r) \/ AnalysisEnds(r) \/ MarkCompleted(r) \/ MarkFailed(r)

Next ==
    \/ \E r \in Analyses :
         \/ AnalyzeProduct(r) \/ MaybeAutoTrigger(r) \/ Dispatch(r) \/ DispatchFails(r)
         \/ Task(r) \/ UpdateProgress(r) \/ MarkFails(r)
    \/ Restart \/ DeleteProduct \/ TimeGoesOn

Spec == Init /\ [][Next]_vars

\* A task that was started goes on.
Fairness == \A r \in Analyses : WF_vars(Task(r))

-----------------------------------------------------------------------------
\* As long as no write is lost and no process dies: a product is "analyzing"
\* or shows progress only while a task works on it, whoever overlaps.
AnalyzingHasTask ==
    ~hurt /\ product.there /\ (product.status = "analyzing" \/ product.progress) =>
        \E r \in Analyses : analysis[r] \in {"queued", "running", "completing", "failing"}

\* The status leaves "analyzing" again.
AnalysisIsSettled == product.status = "analyzing" ~> product.status # "analyzing" \/ hurt \/ ~product.there

\* What one would expect, and does not hold: requests are accepted no
\* more often than the plan allows (updated_at is not the time of the analysis).
FrequencyIsRespected ==
    [][\A r \in Analyses : analysis'[r] = "checked" /\ analysis[r] = "idle" /\ product.status = "completed" =>
           \A t \in ended : time - t >= Every]_vars
=============================================================================
