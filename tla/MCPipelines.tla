---------------------------- MODULE MCPipelines -----------------------------
(***************************************************************************)
(* What is made from repositories besides the documentation, and how the   *)
(* code graph is asked. The parts share no state; they are checked in one  *)
(* run, and an initial state picks the part that goes on.                  *)
(***************************************************************************)
EXTENDS Naturals, Sequences, FiniteSets

CONSTANTS
    Analyses, Every, LastTime,
    Indexers,
    NCommits, BatchSize, Generations,
    Nodes, MaxDepth

\* The clock, the commits and the hops are counted, and a graph has so many nodes.
ASSUME PipelinesConstants ==
    LastTime \in Nat /\ NCommits \in Nat /\ MaxDepth \in Nat /\ IsFiniteSet(Nodes)

VARIABLES
    part,
    time, product, analysis, ended, hurt,
    status, graphs, index, stored, overlap,
    stage, entries, gen, deleted, doubt,
    edges, query, visited, found, frontier, queue

analyses == <<time, product, analysis, ended, hurt>>
indexing == <<status, graphs, index, stored, overlap>>
changelog == <<stage, entries, gen, deleted, doubt>>
queries == <<edges, query, visited, found, frontier, queue>>

A == INSTANCE ProductAnalysis
I == INSTANCE CodeGraphIndex
C == INSTANCE ChangelogGeneration
Q == INSTANCE CodeGraphQueries

Init ==
    /\ part \in {"analysis", "indexing", "changelog", "queries"}
    /\ A!Init /\ I!Init /\ C!Init /\ Q!Init

Next ==
    /\ UNCHANGED part
    /\ \/ part = "analysis" /\ A!Next /\ UNCHANGED <<indexing, changelog, queries>>
       \/ part = "indexing" /\ I!Next /\ UNCHANGED <<analyses, changelog, queries>>
       \/ part = "changelog" /\ C!Next /\ UNCHANGED <<analyses, indexing, queries>>
       \/ part = "queries" /\ Q!Next /\ UNCHANGED <<analyses, indexing, changelog>>

Spec == Init /\ [][Next]_<<part, analyses, indexing, changelog, queries>> /\ A!Fairness

-----------------------------------------------------------------------------
\* Analysis: types; "analyzing" means that a task works on it, and it is
\* settled at some time, unless a task was hurt.
AnalysisIsSettled == [][(A!TypeOK /\ A!AnalyzingHasTask)']_analyses /\ A!AnalysisIsSettled

\* Indexing: types; the last graph stored is there, whatever fails or
\* overlaps, and without overlap it is the only one.
GraphIsKept == I!TypeOK /\ I!LastGraphIsThere /\ I!OneGraphWhenCalm

\* Changelog: types, and with them one entry at most for a commit; only a
\* deletion takes one out, and an undisturbed run leaves none out.
CommitsAreKept == [][C!TypeOK']_changelog /\ C!EntriesStay /\ C!CalmRunIsComplete

\* Code graph: types; a neighbourhood is the ball around its node, and a flow
\* has every call within the depth.
QueriesAreComplete == Q!TypeOK /\ Q!NeighbourhoodIsBall /\ Q!FlowIsComplete
=============================================================================
