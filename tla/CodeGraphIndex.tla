--------------------------- MODULE CodeGraphIndex ---------------------------
(***************************************************************************)
(* Indexing one repository's code: the request answers "already running"   *)
(* only for the status the task itself sets later, the task clones, then   *)
(* deletes the old graph and stores the new one in one transaction. The    *)
(* database runs statements on what is committed when they begin, and a    *)
(* DELETE waits for the transaction that has its rows.                     *)
(***************************************************************************)
EXTENDS Naturals, FiniteSets

CONSTANTS Indexers   \* indexing requests and their tasks

VARIABLES
    status,   \* repositories.indexing_status
    graphs,   \* code_nodes, code_edges: whose rows are committed
    index,    \* where each indexer is: stage, rows it waits for, rows deleted
    stored,   \* history: the indexer that committed last, if one did
    overlap   \* history: two indexers were at work at once

ivars == <<status, graphs, index, stored, overlap>>

Stages == {"idle", "queued", "cloning", "deleting", "storing"}
At(stage) == [stage |-> stage, rows |-> {}]
Working(r) == index[r].stage \in {"queued", "cloning", "deleting", "storing"}

\* Types; a completed repository has a graph.
TypeOK ==
    /\ status \in {"none", "pending", "indexing", "completed", "failed"}
    /\ graphs \subseteq Indexers
    /\ index \in [Indexers -> [stage: Stages, rows: SUBSET Indexers]]
    /\ stored \subseteq Indexers
    /\ status = "completed" => graphs # {}

Goes(r, new) ==
    /\ index' = [index EXCEPT ![r] = new]
    /\ overlap' = (overlap \/ \E s \in Indexers \ {r} : Working(s) /\ new.stage # "idle")

-----------------------------------------------------------------------------
\* POST /repositories/{id}/index: marked as pending, and started. (An indexer
\* here is one whose rows are not in the table.)
TriggerIndexing(r) ==
    /\ index[r].stage = "idle"
    /\ r \notin graphs
    /\ status # "indexing"
    /\ status' = "pending"
    /\ Goes(r, At("queued"))
    /\ UNCHANGED <<graphs, stored>>

Run(r) ==
    /\ index[r].stage = "queued"
    /\ status' = "indexing"
    /\ Goes(r, At("cloning"))
    /\ UNCHANGED <<graphs, stored>>

\* The clone is there: the DELETE begins, on the rows it finds.
Clone(r) ==
    /\ index[r].stage = "cloning"
    /\ Goes(r, [stage |-> "deleting", rows |-> graphs])
    /\ UNCHANGED <<status, graphs, stored>>

\* Wrong variant: the old graph is gone for everybody at once.
Deleted_Now(r) == graphs \ index[r].rows

\* Deleted in the open transaction only.
Deleted(r) == graphs

\* It ends when no other transaction has these rows.
DeleteGraphForRepo(r) ==
    /\ index[r].stage = "deleting"
    /\ \A s \in Indexers \ {r} : index[s].stage = "storing" => index[s].rows \intersect index[r].rows = {}
    /\ graphs' = Deleted(r)
    /\ Goes(r, [stage |-> "storing", rows |-> index[r].rows \intersect graphs])
    /\ UNCHANGED <<status, stored>>

\* Wrong variant: what was there stays.
Replaced_Added(r) == graphs \union {r}

Replaced(r) == (graphs \ index[r].rows) \union {r}

StoreGraph(r) ==
    /\ index[r].stage = "storing"
    /\ graphs' = Replaced(r)
    /\ status' = "completed"
    /\ stored' = {r}
    /\ Goes(r, At("idle"))

\* Anything fails: rolled back and marked; marking may fail too.
Fail(r) ==
    /\ index[r].stage \in {"cloning", "deleting", "storing"}
    /\ status' \in {"failed", status}
    /\ Goes(r, At("idle"))
    /\ UNCHANGED <<graphs, stored>>

\* The process dies; nobody marks anything.
Restart ==
    /\ \E r \in Indexers : Working(r)
    /\ index' = [r \in Indexers |-> At("idle")]
    /\ UNCHANGED <<status, graphs, stored, overlap>>

-----------------------------------------------------------------------------
Init ==
    /\ status = "none" /\ graphs = {} /\ stored = {} /\ overlap = FALSE
    /\ index = [r \in Indexers |-> At("idle")]

Next ==
    \/ \E r \in Indexers :
         TriggerIndexing(r) \/ Run(r) \/ Clone(r) \/ DeleteGraphForRepo(r) \/ StoreGraph(r) \/ Fail(r)
    \/ Restart

Spec == Init /\ [][Next]_ivars

-----------------------------------------------------------------------------
\* Once a graph was stored there is always one to look at, whatever fails
\* and whoever overlaps, and it is the last one stored.
LastGraphIsThere == stored \subseteq graphs

\* Without overlapping indexers the repository has one graph.
OneGraphWhenCalm == ~overlap => Cardinality(graphs) <= 1

\* What one would expect, and does not hold: the repository has one
\* graph, also after overlapping indexers.
OneGraph == Cardinality(graphs) <= 1

\* What one would expect, and does not hold: a repository that is
\* being indexed is not so for ever (a crash leaves the word behind).
IndexingEnds == status = "indexing" ~> status # "indexing"
=============================================================================
