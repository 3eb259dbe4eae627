------------------------- MODULE MCPipelines_proofs -------------------------
(***************************************************************************)
(* Proofs about what is made from repositories: the analysis of a product, *)
(* the code graph and the changelog, for any numbers of requests, indexers,*)
(* runs and commits, and how the code graph is asked, for any graph.       *)
(***************************************************************************)
EXTENDS MCPipelines, FiniteSetTheorems, SequenceTheorems, WellFoundedInduction, TLAPS

Vars == <<part, analyses, indexing, changelog, queries>>

-----------------------------------------------------------------------------
(* Indexing: without overlap, who deletes and stores has seen all graphs.  *)

Places == [stage: I!Stages, rows: SUBSET Indexers]

IndexTypes ==
    /\ status \in {"none", "pending", "indexing", "completed", "failed"}
    /\ graphs \in SUBSET Indexers /\ stored \in SUBSET Indexers
    /\ index \in [Indexers -> Places]
    /\ status = "completed" => graphs # {}

CalmIndexing ==
    ~overlap =>
      /\ \A r, s \in Indexers : I!Working(r) /\ I!Working(s) => r = s
      /\ \A r \in Indexers : index[r].stage \in {"deleting", "storing"} => index[r].rows = graphs
      /\ \A r, s \in graphs : r = s

IndexInv == IndexTypes /\ I!LastGraphIsThere /\ CalmIndexing

LEMMA AtTypes ==
    ASSUME NEW at \in I!Stages
    PROVE  I!At(at) \in Places /\ I!At(at).stage = at
BY DEF I!At, Places

\* One indexer goes to another place.
LEMMA Going ==
    ASSUME IndexTypes, NEW r \in Indexers, NEW new \in Places, I!Goes(r, new)
    PROVE  /\ index' \in [Indexers -> Places]
           /\ index'[r] = new /\ \A s \in Indexers : s # r => index'[s] = index[s]
           /\ ~overlap' => /\ ~overlap
                           /\ new.stage # "idle" => \A s \in Indexers : s # r => ~I!Working(s)
BY DEF IndexTypes, I!Goes

\* Calm stays when one indexer goes on and the graphs stay or are its own.
LEMMA CalmGoing ==
    ASSUME IndexTypes, CalmIndexing, NEW r \in Indexers, NEW new \in Places, I!Goes(r, new),
           I!Working(r) \/ new.stage # "idle",
           new.stage \in {"deleting", "storing"} => new.rows = graphs' \/ overlap,
           \/ graphs' = graphs
           \/ new.stage = "idle" /\ (~overlap => graphs' = {r})
    PROVE  CalmIndexing'
<1> SUFFICES ASSUME ~overlap' PROVE CalmIndexing'
    BY DEF CalmIndexing
<1>1. /\ index'[r] = new /\ \A s \in Indexers : s # r => index'[s] = index[s]
      /\ ~overlap
      /\ new.stage # "idle" => \A s \in Indexers : s # r => ~I!Working(s)
    BY Going
<1>2. \A s \in Indexers : s # r => ~I!Working(s)
    BY <1>1 DEF CalmIndexing
<1>3. \A s \in Indexers : s # r => ~I!Working(s)'
    BY <1>1, <1>2 DEF I!Working
<1>4. \A s \in Indexers : index'[s].stage \in {"deleting", "storing"} => index'[s].rows = graphs'
    BY <1>1, <1>3 DEF I!Working
<1>5. \A s, t \in graphs' : s = t
    BY <1>1 DEF CalmIndexing
<1> QED  BY <1>3, <1>4, <1>5 DEF CalmIndexing

LEMMA IndexingStays == IndexInv /\ I!Next => IndexInv'
<1> SUFFICES ASSUME IndexInv, I!Next PROVE IndexInv'
    OBVIOUS
<1>0. IndexTypes /\ I!LastGraphIsThere /\ CalmIndexing
    BY DEF IndexInv
<1>1. ASSUME NEW r \in Indexers, I!TriggerIndexing(r) PROVE IndexInv'
    <2>1. /\ status' = "pending" /\ graphs' = graphs /\ stored' = stored
          /\ I!Goes(r, I!At("queued")) /\ I!At("queued") \in Places /\ I!At("queued").stage = "queued"
        BY <1>1, AtTypes DEF I!TriggerIndexing, I!Stages
    <2>2. CalmIndexing'
        BY <1>0, <2>1, CalmGoing
    <2>3. IndexTypes'
        BY <1>0, <2>1, Going DEF IndexTypes
    <2> QED  BY <1>0, <2>1, <2>2, <2>3 DEF IndexInv, I!LastGraphIsThere
<1>2. ASSUME NEW r \in Indexers, I!Run(r) PROVE IndexInv'
    <2>1. /\ status' = "indexing" /\ graphs' = graphs /\ stored' = stored
          /\ I!Goes(r, I!At("cloning")) /\ I!At("cloning") \in Places /\ I!At("cloning").stage = "cloning"
        BY <1>2, AtTypes DEF I!Run, I!Stages
    <2>2. CalmIndexing'
        BY <1>0, <2>1, CalmGoing
    <2>3. IndexTypes'
        BY <1>0, <2>1, Going DEF IndexTypes
    <2> QED  BY <1>0, <2>1, <2>2, <2>3 DEF IndexInv, I!LastGraphIsThere
<1>3. ASSUME NEW r \in Indexers, I!Clone(r) PROVE IndexInv'
    <2> DEFINE new == [stage |-> "deleting", rows |-> graphs]
    <2>1. /\ status' = status /\ graphs' = graphs /\ stored' = stored /\ I!Goes(r, new)
          /\ new \in Places /\ new.stage = "deleting" /\ new.rows = graphs
        BY <1>0, <1>3 DEF I!Clone, I!Stages, Places, IndexTypes
    <2> HIDE DEF new
    <2>2. CalmIndexing'
        BY <1>0, <2>1, CalmGoing
    <2>3. IndexTypes'
        BY <1>0, <2>1, Going DEF IndexTypes
    <2> QED  BY <1>0, <2>1, <2>2, <2>3 DEF IndexInv, I!LastGraphIsThere
<1>4. ASSUME NEW r \in Indexers, I!DeleteGraphForRepo(r) PROVE IndexInv'
    <2> DEFINE new == [stage |-> "storing", rows |-> index[r].rows \intersect graphs]
    <2>1. /\ status' = status /\ graphs' = graphs /\ stored' = stored /\ I!Goes(r, new)
          /\ new \in Places /\ new.stage = "storing" /\ new.rows = index[r].rows \intersect graphs
        BY <1>0, <1>4 DEF I!DeleteGraphForRepo, I!Deleted, I!Stages, Places, IndexTypes
    <2>2. new.rows = graphs \/ overlap
        BY <1>0, <1>4, <2>1 DEF I!DeleteGraphForRepo, CalmIndexing
    <2> HIDE DEF new
    <2>3. CalmIndexing'
        BY <1>0, <2>1, <2>2, CalmGoing
    <2>4. IndexTypes'
        BY <1>0, <2>1, Going DEF IndexTypes
    <2> QED  BY <1>0, <2>1, <2>3, <2>4 DEF IndexInv, I!LastGraphIsThere
<1>5. ASSUME NEW r \in Indexers, I!StoreGraph(r) PROVE IndexInv'
    <2>1. /\ graphs' = (graphs \ index[r].rows) \union {r}
          /\ status' = "completed" /\ stored' = {r}
          /\ I!Goes(r, I!At("idle")) /\ I!At("idle") \in Places /\ I!At("idle").stage = "idle"
          /\ index[r].stage = "storing"
        BY <1>5, AtTypes DEF I!StoreGraph, I!Replaced, I!Stages
    <2>2. ~overlap => graphs' = {r}
        BY <1>0, <2>1 DEF CalmIndexing
    <2>3. CalmIndexing'
        BY <1>0, <2>1, <2>2, CalmGoing DEF I!Working
    <2>4. IndexTypes'
        BY <1>0, <2>1, Going DEF IndexTypes
    <2> QED  BY <2>1, <2>3, <2>4 DEF IndexInv, I!LastGraphIsThere
<1>6. ASSUME NEW r \in Indexers, I!Fail(r) PROVE IndexInv'
    <2>1. /\ status' \in {"failed", status} /\ graphs' = graphs /\ stored' = stored
          /\ I!Goes(r, I!At("idle")) /\ I!At("idle") \in Places /\ I!At("idle").stage = "idle"
          /\ I!Working(r)
        BY <1>6, AtTypes DEF I!Fail, I!Stages, I!Working
    <2>2. CalmIndexing'
        BY <1>0, <2>1, CalmGoing
    <2>3. IndexTypes'
        BY <1>0, <2>1, Going DEF IndexTypes
    <2> QED  BY <1>0, <2>1, <2>2, <2>3 DEF IndexInv, I!LastGraphIsThere
<1>7. CASE I!Restart
    <2>1. /\ index' = [r \in Indexers |-> I!At("idle")] /\ UNCHANGED <<status, graphs, stored, overlap>>
          /\ I!At("idle") \in Places /\ I!At("idle").stage = "idle"
        BY <1>7, AtTypes DEF I!Restart, I!Stages
    <2>2. CalmIndexing'
        BY <1>0, <2>1 DEF CalmIndexing, I!Working
    <2>3. IndexTypes'
        BY <1>0, <2>1 DEF IndexTypes
    <2> QED  BY <1>0, <2>1, <2>2, <2>3 DEF IndexInv, I!LastGraphIsThere
<1> QED  BY <1>1, <1>2, <1>3, <1>4, <1>5, <1>6, <1>7 DEF I!Next

LEMMA IndexingBegins == I!Init => IndexInv
<1> SUFFICES ASSUME I!Init PROVE IndexInv
    OBVIOUS
<1>1. I!At("idle") \in Places /\ I!At("idle").stage = "idle"
    BY AtTypes DEF I!Stages
<1>2. IndexTypes
    BY <1>1 DEF I!Init, IndexTypes
<1>3. \A r \in Indexers : index[r].stage = "idle"
    BY <1>1 DEF I!Init
<1>4. CalmIndexing
    BY <1>3 DEF I!Init, CalmIndexing, I!Working
<1> QED  BY <1>2, <1>4 DEF I!Init, IndexInv, I!LastGraphIsThere

\* The instances count as this module does.
LEMMA SameCount == \A S : I!Cardinality(S) = Cardinality(S) /\ A!Cardinality(S) = Cardinality(S)
BY DEF I!Cardinality, A!Cardinality, Cardinality, I!IsFiniteSet, A!IsFiniteSet, IsFiniteSet

LEMMA IndexingHolds == IndexInv => I!TypeOK /\ I!LastGraphIsThere /\ I!OneGraphWhenCalm
<1> SUFFICES ASSUME IndexInv PROVE I!TypeOK /\ I!OneGraphWhenCalm
    BY DEF IndexInv
<1>1. I!TypeOK
    BY DEF IndexInv, IndexTypes, Places, I!TypeOK
<1>2. ASSUME ~overlap PROVE Cardinality(graphs) <= 1
    <2>1. CASE graphs = {}
        BY <2>1, FS_EmptySet
    <2>2. CASE graphs # {}
        <3>1. PICK g \in graphs : graphs = {g}
            BY <1>2, <2>2 DEF IndexInv, CalmIndexing
        <3> QED  BY <3>1, FS_Singleton
    <2> QED  BY <2>1, <2>2
<1> QED  BY <1>1, <1>2, SameCount DEF I!OneGraphWhenCalm

LEMMA IndexingRests == IndexInv /\ UNCHANGED indexing => IndexInv'
BY DEF indexing, IndexInv, IndexTypes, I!LastGraphIsThere, CalmIndexing, I!Working

-----------------------------------------------------------------------------
(* Analysis: a product that is being analyzed has a task.                  *)

AnalysisTypes ==
    /\ time \in 0 .. LastTime
    /\ product \in [there: BOOLEAN, status: A!Statuses, overview: BOOLEAN,
                    progress: BOOLEAN, updated: 0 .. LastTime]
    /\ product.status = "completed" => product.overview
    /\ analysis \in [Analyses -> A!Stages]
    /\ ended = {} \/ \E t \in 0 .. LastTime : ended = {t}
    /\ hurt \in BOOLEAN

AnalysisInv == AnalysisTypes /\ A!AnalyzingHasTask

AtWork == {"queued", "running", "completing", "failing"}

\* One request or its task goes on to another stage, and the row with it.
LEMMA AnalysisGoesOn ==
    ASSUME AnalysisInv, NEW r \in Analyses, NEW to \in A!Stages, A!Goes(r, to),
           time' = time, hurt' = hurt,
           product' \in [there: BOOLEAN, status: A!Statuses, overview: BOOLEAN,
                         progress: BOOLEAN, updated: 0 .. LastTime],
           product'.status = "completed" => product'.overview,
           ended' = ended \/ ended' = {time},
           \/ to \in AtWork
           \/ ~product'.there
           \/ product'.status # "analyzing" /\ ~product'.progress
           \/ product' = product /\ analysis[r] \notin AtWork
    PROVE  AnalysisInv'
<1>1. AnalysisTypes'
    BY DEF AnalysisInv, AnalysisTypes, A!Goes
<1>2. analysis'[r] = to /\ \A s \in Analyses : s # r => analysis'[s] = analysis[s]
    BY DEF AnalysisInv, AnalysisTypes, A!Goes
<1>3. A!AnalyzingHasTask'
    BY <1>2 DEF AnalysisInv, A!AnalyzingHasTask, AtWork
<1> QED  BY <1>1, <1>3 DEF AnalysisInv

LEMMA AnalysisStays == AnalysisInv /\ A!Next => AnalysisInv'
<1> SUFFICES ASSUME AnalysisInv, A!Next PROVE AnalysisInv'
    OBVIOUS
<1> USE DEF AtWork, A!Stages
<1>0. AnalysisTypes /\ A!AnalyzingHasTask
    BY DEF AnalysisInv
<1>a. /\ product \in [there: BOOLEAN, status: A!Statuses, overview: BOOLEAN,
                      progress: BOOLEAN, updated: 0 .. LastTime]
      /\ product.status = "completed" => product.overview
    BY <1>0 DEF AnalysisTypes
<1>1. ASSUME NEW r \in Analyses, A!AnalyzeProduct(r) PROVE AnalysisInv'
    BY <1>a, <1>1, AnalysisGoesOn DEF A!AnalyzeProduct
<1>2. ASSUME NEW r \in Analyses, A!MaybeAutoTrigger(r) PROVE AnalysisInv'
    BY <1>a, <1>2, AnalysisGoesOn DEF A!MaybeAutoTrigger
<1>3. ASSUME NEW r \in Analyses, A!Dispatch(r) PROVE AnalysisInv'
    <2>1. CASE product.there
        <3>1. /\ product' = [product EXCEPT !.status = "analyzing"] /\ A!Goes(r, "queued")
              /\ time' = time /\ ended' = ended /\ hurt' = hurt
            BY <1>3, <2>1 DEF A!Dispatch
        <3>2. /\ product' \in [there: BOOLEAN, status: A!Statuses, overview: BOOLEAN,
                               progress: BOOLEAN, updated: 0 .. LastTime]
              /\ product'.status = "analyzing"
            BY <1>a, <3>1 DEF A!Statuses
        <3> QED  BY <3>1, <3>2, AnalysisGoesOn
    <2>2. CASE ~product.there
        <3>1. /\ product' = product /\ time' = time /\ ended' = ended /\ hurt' = hurt
              /\ A!Goes(r, "queued") \/ A!Goes(r, "idle")
            BY <1>3, <2>2 DEF A!Dispatch
        <3> QED  BY <1>a, <2>2, <3>1, AnalysisGoesOn
    <2> QED  BY <2>1, <2>2
<1>4. ASSUME NEW r \in Analyses, A!DispatchFails(r) PROVE AnalysisInv'
    BY <1>a, <1>4, AnalysisGoesOn DEF A!DispatchFails
<1>5. ASSUME NEW r \in Analyses, A!RunAnalysisTask(r) PROVE AnalysisInv'
    <2>1. /\ product' = product /\ time' = time /\ ended' = ended /\ hurt' = hurt
          /\ \/ A!Goes(r, "running")
             \/ ~product.there /\ A!Goes(r, "idle")
        BY <1>5 DEF A!RunAnalysisTask
    <2> QED  BY <1>a, <2>1, AnalysisGoesOn
<1>6. ASSUME NEW r \in Analyses, A!UpdateProgress(r) PROVE AnalysisInv'
    <2>1. /\ product' = [product EXCEPT !.progress = TRUE] /\ analysis[r] = "running"
          /\ time' = time /\ analysis' = analysis /\ ended' = ended /\ hurt' = hurt
        BY <1>6 DEF A!UpdateProgress
    <2>2. AnalysisTypes'
        BY <1>0, <1>a, <2>1 DEF AnalysisTypes
    <2>3. A!AnalyzingHasTask'
        BY <2>1 DEF A!AnalyzingHasTask
    <2> QED  BY <2>2, <2>3 DEF AnalysisInv
<1>7. ASSUME NEW r \in Analyses, A!AnalysisEnds(r) PROVE AnalysisInv'
    <2>1. PICK to \in {"completing", "failing"} : A!Goes(r, to)
        BY <1>7 DEF A!AnalysisEnds
    <2> QED  BY <1>a, <1>7, <2>1, AnalysisGoesOn DEF A!AnalysisEnds
<1>8. ASSUME NEW r \in Analyses, A!MarkCompleted(r) PROVE AnalysisInv'
    <2>1. CASE product.there
        <3>1. /\ product' = [product EXCEPT !.status = "completed", !.overview = TRUE, !.progress = FALSE]
              /\ A!Goes(r, "idle") /\ time' = time /\ ended' = {time} /\ hurt' = hurt
            BY <1>8, <2>1 DEF A!MarkCompleted, A!Completed
        <3>2. /\ product' \in [there: BOOLEAN, status: A!Statuses, overview: BOOLEAN,
                               progress: BOOLEAN, updated: 0 .. LastTime]
              /\ product'.status = "completed" /\ product'.overview /\ ~product'.progress
            BY <1>a, <3>1 DEF A!Statuses
        <3> QED  BY <3>1, <3>2, AnalysisGoesOn
    <2>2. CASE ~product.there
        <3>1. product' = product /\ time' = time /\ ended' = ended /\ hurt' = hurt /\ A!Goes(r, "idle")
            BY <1>8, <2>2 DEF A!MarkCompleted
        <3> QED  BY <1>a, <2>2, <3>1, AnalysisGoesOn
    <2> QED  BY <2>1, <2>2
<1>9. ASSUME NEW r \in Analyses, A!MarkFailed(r) PROVE AnalysisInv'
    <2>1. CASE product.there
        <3>1. /\ product' = [product EXCEPT !.status = "failed", !.progress = FALSE]
              /\ A!Goes(r, "idle") /\ time' = time /\ ended' = ended /\ hurt' = hurt
            BY <1>9, <2>1 DEF A!MarkFailed, A!Failed
        <3>2. /\ product' \in [there: BOOLEAN, status: A!Statuses, overview: BOOLEAN,
                               progress: BOOLEAN, updated: 0 .. LastTime]
              /\ product'.status = "failed" /\ ~product'.progress
            BY <1>a, <3>1 DEF A!Statuses
        <3> QED  BY <3>1, <3>2, AnalysisGoesOn
    <2>2. CASE ~product.there
        <3>1. product' = product /\ time' = time /\ ended' = ended /\ hurt' = hurt /\ A!Goes(r, "idle")
            BY <1>9, <2>2 DEF A!MarkFailed
        <3> QED  BY <1>a, <2>2, <3>1, AnalysisGoesOn
    <2> QED  BY <2>1, <2>2
<1>10. ASSUME NEW r \in Analyses, A!MarkFails(r) PROVE AnalysisInv'
    BY <1>0, <1>10 DEF A!MarkFails, A!Goes, AnalysisInv, AnalysisTypes, A!AnalyzingHasTask
<1>11. CASE A!Restart
    BY <1>0, <1>11 DEF A!Restart, AnalysisInv, AnalysisTypes, A!AnalyzingHasTask
<1>12. CASE A!DeleteProduct
    <2>1. /\ product' = [product EXCEPT !.there = FALSE]
          /\ time' = time /\ analysis' = analysis /\ ended' = ended /\ hurt' = hurt
        BY <1>12 DEF A!DeleteProduct
    <2>2. ~product'.there
        BY <1>a, <2>1
    <2> QED  BY <1>0, <1>a, <2>1, <2>2 DEF AnalysisInv, AnalysisTypes, A!AnalyzingHasTask
<1>13. CASE A!TimeGoesOn
    BY <1>0, <1>13, PipelinesConstants DEF A!TimeGoesOn, AnalysisInv, AnalysisTypes, A!AnalyzingHasTask
<1> QED
    BY <1>1, <1>2, <1>3, <1>4, <1>5, <1>6, <1>7, <1>8, <1>9, <1>10, <1>11, <1>12, <1>13
    DEF A!Next, A!Task

LEMMA AnalysisBegins == A!Init => AnalysisInv
<1> SUFFICES ASSUME A!Init PROVE AnalysisInv
    OBVIOUS
<1>1. 0 \in 0 .. LastTime
    BY PipelinesConstants
<1>2. AnalysisTypes
    BY <1>1 DEF A!Init, AnalysisTypes, A!Statuses, A!Stages
<1>3. A!AnalyzingHasTask
    BY DEF A!Init, A!AnalyzingHasTask
<1> QED  BY <1>2, <1>3 DEF AnalysisInv

LEMMA AnalysisHolds == AnalysisInv => A!TypeOK /\ A!AnalyzingHasTask
<1> SUFFICES ASSUME AnalysisInv PROVE A!TypeOK
    BY DEF AnalysisInv
<1>1. ended \in {s \in SUBSET (0 .. LastTime) : A!Cardinality(s) <= 1}
    <2>1. CASE ended = {}
        BY <2>1, SameCount, FS_EmptySet
    <2>2. ASSUME NEW t \in 0 .. LastTime, ended = {t}
          PROVE  ended \in {s \in SUBSET (0 .. LastTime) : A!Cardinality(s) <= 1}
        BY <2>2, SameCount, FS_Singleton
    <2> QED  BY <2>1, <2>2 DEF AnalysisInv, AnalysisTypes
<1> QED  BY <1>1 DEF AnalysisInv, AnalysisTypes, A!TypeOK

LEMMA AnalysisRests == AnalysisInv /\ UNCHANGED analyses => AnalysisInv'
BY DEF analyses, AnalysisInv, AnalysisTypes, A!AnalyzingHasTask

-----------------------------------------------------------------------------
(* Changelog: a run without doubt has every commit listed or still to do.  *)

Runs == [pc: {"idle", "queued", "fetching", "batch"}, todo: SUBSET C!History, dead: BOOLEAN]

ChangelogTypes ==
    /\ stage \in {"none", "docs", "starting", "fetching", "processing", "complete"}
    /\ entries \in [C!History -> 0 .. 1]
    /\ gen \in [Generations -> Runs]
    /\ deleted \subseteq C!History /\ doubt \in [Generations -> BOOLEAN]

Accounted(todo) == \A c \in C!History : c \in todo \/ entries[c] = 1 \/ c \in deleted

CalmRuns ==
    \A r \in Generations :
      /\ gen[r].dead => gen[r].pc = "batch" /\ doubt[r]
      /\ gen[r].pc = "batch" /\ ~doubt[r] => Accounted(gen[r].todo)

ChangelogInv == ChangelogTypes /\ CalmRuns

LEMMA IdleRun == C!GenIdle \in Runs /\ C!GenIdle.pc = "idle" /\ ~C!GenIdle.dead
BY DEF C!GenIdle, Runs

\* What is listed stays, what was deleted is remembered.
Remembered ==
    /\ entries' \in [C!History -> 0 .. 1]
    /\ deleted' \subseteq C!History
    /\ \A c \in C!History : entries[c] = 1 => entries'[c] = 1 \/ c \in deleted'
    /\ \A c \in deleted : c \in deleted'

\* One run goes on; the others stay, in doubt if they were.
LEMMA RunGoesOn ==
    ASSUME ChangelogInv, NEW r \in Generations, NEW g \in Runs, C!SetGen(r, g),
           stage' \in {"none", "docs", "starting", "fetching", "processing", "complete"},
           Remembered,
           doubt' \in [Generations -> BOOLEAN],
           \A s \in Generations \ {r} : doubt[s] => doubt'[s],
           g.dead => g.pc = "batch" /\ doubt'[r],
           g.pc = "batch" /\ ~doubt'[r] =>
               \A c \in C!History : c \in g.todo \/ entries'[c] = 1 \/ c \in deleted'
    PROVE  /\ ChangelogInv'
           /\ gen'[r] = g /\ \A s \in Generations \ {r} : gen'[s] = gen[s]
<1>1. gen' \in [Generations -> Runs] /\ gen'[r] = g /\ \A s \in Generations \ {r} : gen'[s] = gen[s]
    BY DEF ChangelogInv, ChangelogTypes, C!SetGen
<1>2. ChangelogTypes'
    BY <1>1 DEF ChangelogTypes, Remembered
<1>3. ASSUME NEW s \in Generations, gen'[s].pc = "batch", ~doubt'[s]
      PROVE  \A c \in C!History : c \in gen'[s].todo \/ entries'[c] = 1 \/ c \in deleted'
    <2>1. CASE s = r
        BY <1>1, <1>3, <2>1
    <2>2. CASE s # r
        <3>1. gen'[s] = gen[s] /\ ~doubt[s]
            BY <1>1, <1>3, <2>2
        <3>2. \A c \in C!History : c \in gen[s].todo \/ entries[c] = 1 \/ c \in deleted
            BY <1>3, <3>1 DEF ChangelogInv, CalmRuns, Accounted
        <3> QED  BY <3>1, <3>2 DEF Remembered
    <2> QED  BY <2>1, <2>2
<1>4. \A s \in Generations : gen'[s].dead => gen'[s].pc = "batch" /\ doubt'[s]
    BY <1>1 DEF ChangelogInv, CalmRuns
<1>5. CalmRuns'
    BY <1>3, <1>4 DEF CalmRuns, Accounted
<1> QED  BY <1>1, <1>2, <1>5 DEF ChangelogInv

\* What a step of the changelog has to show: the invariant again, entries
\* that stay, and what a run that ends has listed.
ChangelogStep ==
    /\ ChangelogInv'
    /\ \A c \in C!History : entries'[c] < entries[c] => c \in deleted'
    /\ \A r \in Generations :
         gen[r].pc \in {"fetching", "batch"} /\ gen'[r].pc = "idle" /\ ~doubt'[r] =>
             \A c \in C!History : entries'[c] = 1 \/ c \in deleted

\* A run goes on while nothing is written; it does not end, or in doubt.
LEMMA RunOnly ==
    ASSUME ChangelogInv, NEW r \in Generations, NEW g \in Runs, C!SetGen(r, g),
           stage' \in {"none", "docs", "starting", "fetching", "processing", "complete"},
           entries' = entries, deleted' = deleted,
           doubt' \in [Generations -> BOOLEAN],
           \A s \in Generations \ {r} : doubt[s] => doubt'[s],
           doubt'[r] \/ g.pc \notin {"batch", "idle"},
           g.dead => g.pc = "batch" /\ doubt'[r]
    PROVE  ChangelogStep
<1>1. entries \in [C!History -> 0 .. 1]
    BY DEF ChangelogInv, ChangelogTypes
<1>2. Remembered
    BY DEF Remembered, ChangelogInv, ChangelogTypes
<1>3. ChangelogInv' /\ gen'[r] = g /\ \A s \in Generations \ {r} : gen'[s] = gen[s]
    BY <1>2, RunGoesOn
<1>4. \A c \in C!History : ~(entries'[c] < entries[c])
    BY <1>1
<1>5. ASSUME NEW s \in Generations, gen[s].pc \in {"fetching", "batch"}, gen'[s].pc = "idle"
      PROVE  doubt'[s]
    BY <1>3, <1>5
<1> QED  BY <1>3, <1>4, <1>5 DEF ChangelogStep

\* What is found and not listed, with what is listed, is all of a history
\* that was read to its oldest commit.
LEMMA FetchAccounts ==
    ASSUME ChangelogInv, NEW r \in Generations, C!FetchAllCommits(r)
    PROVE  ChangelogStep
<1>1. PICK oldest \in 1 .. NCommits + 1 :
         LET new == C!Unprocessed(oldest .. NCommits) IN
         /\ C!SetGen(r, IF new = {} THEN C!GenIdle ELSE [gen[r] EXCEPT !.pc = "batch", !.todo = new])
         /\ stage' = IF new = {} THEN "complete" ELSE "processing"
         /\ doubt' = [doubt EXCEPT ![r] = doubt[r] \/ oldest > 1]
    BY DEF C!FetchAllCommits
<1> DEFINE new == C!Unprocessed(oldest .. NCommits)
           g == IF new = {} THEN C!GenIdle ELSE [gen[r] EXCEPT !.pc = "batch", !.todo = new]
<1>2. /\ entries \in [C!History -> 0 .. 1] /\ gen[r] \in Runs /\ deleted \subseteq C!History
      /\ doubt \in [Generations -> BOOLEAN]
    BY DEF ChangelogInv, ChangelogTypes
<1>3. new \subseteq C!History
    BY PipelinesConstants DEF C!Unprocessed, C!History
<1>4. ~gen[r].dead
    BY DEF ChangelogInv, CalmRuns, C!FetchAllCommits
<1>5. /\ doubt' \in [Generations -> BOOLEAN]
      /\ \A s \in Generations \ {r} : doubt[s] => doubt'[s]
      /\ ~doubt'[r] => ~doubt[r] /\ ~(oldest > 1)
    BY <1>1, <1>2
<1>6. ~doubt'[r] => \A c \in C!History : c \in new \/ entries[c] = 1
    <2> SUFFICES ASSUME ~doubt'[r], NEW c \in C!History, c \notin new PROVE entries[c] = 1
        OBVIOUS
    <2>1. oldest = 1
        BY <1>5, PipelinesConstants
    <2>2. c \in oldest .. NCommits
        BY <2>1 DEF C!History
    <2>3. entries[c] > 0
        BY <2>2 DEF C!Unprocessed, C!Listed
    <2>4. entries[c] \in 0 .. 1
        BY <1>2
    <2> QED  BY <2>3, <2>4
<1>7. /\ entries' = entries /\ deleted' = deleted
      /\ C!SetGen(r, g)
      /\ stage' \in {"none", "docs", "starting", "fetching", "processing", "complete"}
    BY <1>1 DEF C!FetchAllCommits
<1>8. \A c \in C!History : ~(entries'[c] < entries[c])
    BY <1>2, <1>7
<1>9. Remembered
    BY <1>2, <1>7 DEF Remembered
<1>10. CASE new = {}
    <2>1. C!SetGen(r, C!GenIdle)
        BY <1>7, <1>10
    <2>2. ChangelogInv' /\ gen'[r] = C!GenIdle /\ \A s \in Generations \ {r} : gen'[s] = gen[s]
        BY <2>1, <1>5, <1>7, <1>9, IdleRun, RunGoesOn
    <2>3. ~doubt'[r] => \A c \in C!History : entries'[c] = 1 \/ c \in deleted
        BY <1>6, <1>7, <1>10
    <2>4. \A s \in Generations \ {r} : gen[s].pc \in {"fetching", "batch"} => gen'[s].pc # "idle"
        BY <2>2
    <2> QED  BY <1>8, <2>2, <2>3, <2>4 DEF ChangelogStep
<1>11. CASE new # {}
    <2> DEFINE h == [gen[r] EXCEPT !.pc = "batch", !.todo = new]
    <2>1. h.pc = "batch" /\ h.todo = new /\ h.dead = gen[r].dead /\ h \in Runs
        BY <1>2, <1>3 DEF Runs
    <2>2. C!SetGen(r, h)
        BY <1>7, <1>11
    <2> HIDE DEF h, new, g
    <2>3. ~doubt'[r] => \A c \in C!History : c \in h.todo \/ entries'[c] = 1 \/ c \in deleted'
        BY <1>6, <1>7, <2>1
    <2>4. ChangelogInv' /\ gen'[r] = h /\ \A s \in Generations \ {r} : gen'[s] = gen[s]
        BY <2>1, <2>2, <2>3, <1>4, <1>5, <1>7, <1>9, RunGoesOn
    <2>5. \A s \in Generations : gen[s].pc \in {"fetching", "batch"} => gen'[s].pc # "idle"
        BY <2>1, <2>4
    <2> QED  BY <1>8, <2>4, <2>5 DEF ChangelogStep
<1> QED  BY <1>10, <1>11

\* A batch is done: what is left of the run, or its end.
LEMMA Proceeding ==
    ASSUME ChangelogInv, NEW r \in Generations, gen[r].pc = "batch", NEW dead \in BOOLEAN,
           C!Proceed(r, dead)
    PROVE  /\ stage' \in {"none", "docs", "starting", "fetching", "processing", "complete"}
           /\ \E g \in Runs :
                /\ C!SetGen(r, g)
                /\ \/ g.pc = "idle" /\ ~g.dead /\ gen[r].todo \subseteq C!Batch(gen[r].todo)
                   \/ g.pc = "batch" /\ g.dead = dead /\ g.todo = gen[r].todo \ C!Batch(gen[r].todo)
<1> DEFINE rest == gen[r].todo \ C!Batch(gen[r].todo)
<1>1. /\ C!SetGen(r, IF rest = {} THEN C!GenIdle ELSE [gen[r] EXCEPT !.todo = rest, !.dead = dead])
      /\ stage' = IF rest = {} THEN "complete" ELSE "processing"
    BY DEF C!Proceed
<1>2. gen[r] \in Runs /\ rest \subseteq C!History
    BY DEF ChangelogInv, ChangelogTypes, Runs
<1>3. CASE rest = {}
    <2>1. gen[r].todo \subseteq C!Batch(gen[r].todo)
        BY <1>3
    <2> HIDE DEF rest
    <2> QED  BY <1>1, <1>3, <2>1, IdleRun
<1>4. CASE rest # {}
    <2> DEFINE h == [gen[r] EXCEPT !.todo = rest, !.dead = dead]
    <2>1. h \in Runs /\ h.pc = "batch" /\ h.dead = dead /\ h.todo = rest
        BY <1>2 DEF Runs
    <2>2. C!SetGen(r, h) /\ stage' = "processing"
        BY <1>1, <1>4
    <2> HIDE DEF h
    <2> QED  BY <2>1, <2>2
<1> QED  BY <1>3, <1>4

\* A whole batch is listed before the run goes on without it.
LEMMA BatchAccounts ==
    ASSUME ChangelogInv, NEW r \in Generations, C!ProcessBatch(r)
    PROVE  ChangelogStep
<1> DEFINE todo == gen[r].todo
<1>1. PICK shas \in SUBSET C!Batch(todo) :
         /\ C!Unique(shas)
         /\ entries' = [c \in C!History |-> IF c \in shas THEN entries[c] + 1 ELSE entries[c]]
         /\ doubt' = [doubt EXCEPT ![r] = doubt[r] \/ shas # C!Batch(todo)]
    BY DEF C!ProcessBatch
<1>2. /\ entries \in [C!History -> 0 .. 1] /\ gen[r] \in Runs /\ deleted \subseteq C!History
      /\ doubt \in [Generations -> BOOLEAN] /\ deleted' = deleted
    BY DEF ChangelogInv, ChangelogTypes, C!ProcessBatch
<1>3. /\ doubt' \in [Generations -> BOOLEAN]
      /\ \A s \in Generations \ {r} : doubt[s] => doubt'[s]
      /\ ~doubt'[r] => ~doubt[r] /\ shas = C!Batch(todo)
    BY <1>1, <1>2
<1>4. \A c \in C!History : entries'[c] \in 0 .. 1 /\ ~(entries'[c] < entries[c])
                           /\ (c \in shas => entries'[c] = 1)
    BY <1>1, <1>2 DEF C!Unique
<1>5. entries' \in [C!History -> 0 .. 1]
    BY <1>1, <1>4
<1>6. \A c \in C!History : entries[c] = 1 => entries'[c] = 1
    BY <1>2, <1>4
<1>7. Remembered
    BY <1>2, <1>5, <1>6 DEF Remembered
<1>8. ~doubt[r] => \A c \in C!History : c \in todo \/ entries'[c] = 1 \/ c \in deleted
    BY <1>6 DEF ChangelogInv, CalmRuns, Accounted, C!ProcessBatch
<1>9. /\ stage' \in {"none", "docs", "starting", "fetching", "processing", "complete"}
      /\ \E g \in Runs :
           /\ C!SetGen(r, g)
           /\ \/ g.pc = "idle" /\ ~g.dead /\ todo \subseteq C!Batch(todo)
              \/ g.pc = "batch" /\ g.dead = FALSE /\ g.todo = todo \ C!Batch(todo)
    BY Proceeding DEF C!ProcessBatch
<1> HIDE DEF todo
<1>10. PICK g \in Runs :
           /\ C!SetGen(r, g)
           /\ \/ g.pc = "idle" /\ ~g.dead /\ todo \subseteq C!Batch(todo)
              \/ g.pc = "batch" /\ g.dead = FALSE /\ g.todo = todo \ C!Batch(todo)
    BY <1>9
<1>11. ~doubt'[r] => \A c \in C!History : \/ g.pc = "batch" /\ c \in g.todo
                                          \/ entries'[c] = 1
                                          \/ c \in deleted
    BY <1>3, <1>4, <1>8, <1>10
<1>12. g.pc = "batch" /\ ~doubt'[r] => \A c \in C!History : c \in g.todo \/ entries'[c] = 1 \/ c \in deleted'
    BY <1>2, <1>11
<1>13. ChangelogInv' /\ gen'[r] = g /\ \A s \in Generations \ {r} : gen'[s] = gen[s]
    BY <1>3, <1>7, <1>9, <1>10, <1>12, RunGoesOn
<1>14. \A c \in C!History : ~(entries'[c] < entries[c])
    BY <1>4
<1>15. ASSUME NEW s \in Generations, gen[s].pc \in {"fetching", "batch"}, gen'[s].pc = "idle", ~doubt'[s]
       PROVE  \A c \in C!History : entries'[c] = 1 \/ c \in deleted
    <2>1. s = r
        BY <1>13, <1>15
    <2> QED  BY <2>1, <1>11, <1>13, <1>15
<1> QED  BY <1>13, <1>14, <1>15 DEF ChangelogStep

LEMMA ChangelogGoesOn == ChangelogInv /\ C!Next => ChangelogStep
<1> SUFFICES ASSUME ChangelogInv, C!Next PROVE ChangelogStep
    OBVIOUS
<1>0. /\ stage \in {"none", "docs", "starting", "fetching", "processing", "complete"}
      /\ entries \in [C!History -> 0 .. 1] /\ gen \in [Generations -> Runs]
      /\ deleted \subseteq C!History /\ doubt \in [Generations -> BOOLEAN]
    BY DEF ChangelogInv, ChangelogTypes
<1>a. \A r \in Generations : gen[r].dead => gen[r].pc = "batch" /\ doubt[r]
    BY DEF ChangelogInv, CalmRuns
<1>1. ASSUME NEW r \in Generations, C!GenerateChangelog(r) PROVE ChangelogStep
    <2> DEFINE h == [C!GenIdle EXCEPT !.pc = "queued"]
    <2>1. h \in Runs /\ h.pc = "queued" /\ ~h.dead
        BY DEF C!GenIdle, Runs
    <2>2. C!SetGen(r, h) /\ stage' = "starting" /\ entries' = entries /\ deleted' = deleted
        BY <1>1 DEF C!GenerateChangelog
    <2>3. doubt' = [s \in Generations |-> IF s = r THEN \E g \in Generations \ {r} : gen[g].pc # "idle"
                                          ELSE gen[s].pc # "idle" \/ doubt[s]]
        BY <1>1 DEF C!GenerateChangelog
    <2>4. doubt' \in [Generations -> BOOLEAN] /\ \A s \in Generations \ {r} : doubt[s] => doubt'[s]
        BY <1>0, <2>3
    <2> HIDE DEF h
    <2> QED  BY <2>1, <2>2, <2>4, RunOnly
<1>2. ASSUME NEW r \in Generations, C!NothingToDo(r) PROVE ChangelogStep
    <2>1. /\ C!SetGen(r, C!GenIdle) /\ stage' = stage /\ entries' = entries /\ deleted' = deleted
          /\ doubt' = [doubt EXCEPT ![r] = TRUE]
        BY <1>2 DEF C!NothingToDo
    <2>2. doubt' \in [Generations -> BOOLEAN] /\ doubt'[r] /\ \A s \in Generations \ {r} : doubt[s] => doubt'[s]
        BY <1>0, <2>1
    <2> QED  BY <1>0, <2>1, <2>2, IdleRun, RunOnly
<1>3. ASSUME NEW r \in Generations, C!StartFetching(r) PROVE ChangelogStep
    <2> DEFINE h == [gen[r] EXCEPT !.pc = "fetching"]
    <2>1. ~gen[r].dead
        BY <1>3, <1>a DEF C!StartFetching
    <2>2. h \in Runs /\ h.pc = "fetching" /\ ~h.dead
        BY <1>0, <2>1 DEF Runs
    <2>3. C!SetGen(r, h) /\ stage' = "fetching" /\ entries' = entries /\ deleted' = deleted /\ doubt' = doubt
        BY <1>3 DEF C!StartFetching
    <2> HIDE DEF h
    <2> QED  BY <1>0, <2>2, <2>3, RunOnly
<1>4. ASSUME NEW r \in Generations, C!FetchAllCommits(r) PROVE ChangelogStep
    BY <1>4, FetchAccounts
<1>5. ASSUME NEW r \in Generations, C!ProcessBatch(r) PROVE ChangelogStep
    BY <1>5, BatchAccounts
<1>6. ASSUME NEW r \in Generations, C!ModelFails(r) \/ C!WriteFails(r) PROVE ChangelogStep
    <2>1. /\ gen[r].pc = "batch" /\ entries' = entries /\ deleted' = deleted
          /\ doubt' = [doubt EXCEPT ![r] = TRUE]
          /\ \E dead \in BOOLEAN : C!Proceed(r, dead)
        BY <1>0, <1>6 DEF C!ModelFails, C!WriteFails, Runs
    <2>2. doubt' \in [Generations -> BOOLEAN] /\ doubt'[r] /\ \A s \in Generations \ {r} : doubt[s] => doubt'[s]
        BY <1>0, <2>1
    <2>3. PICK dead \in BOOLEAN : C!Proceed(r, dead)
        BY <2>1
    <2>4. /\ stage' \in {"none", "docs", "starting", "fetching", "processing", "complete"}
          /\ \E g \in Runs : C!SetGen(r, g) /\ (g.dead => g.pc = "batch")
        BY <2>1, <2>3, Proceeding
    <2> QED  BY <2>1, <2>2, <2>4, RunOnly
<1>7. ASSUME NEW r \in Generations, C!GenerationFails(r) PROVE ChangelogStep
    <2>1. /\ C!SetGen(r, C!GenIdle) /\ stage' \in {"none", stage} /\ entries' = entries /\ deleted' = deleted
          /\ doubt' = [doubt EXCEPT ![r] = TRUE]
        BY <1>7 DEF C!GenerationFails
    <2>2. doubt' \in [Generations -> BOOLEAN] /\ doubt'[r] /\ \A s \in Generations \ {r} : doubt[s] => doubt'[s]
        BY <1>0, <2>1
    <2> QED  BY <1>0, <2>1, <2>2, IdleRun, RunOnly
<1>8. CASE C!Restart
    <2>1. /\ gen' = [r \in Generations |-> C!GenIdle] /\ doubt' = [r \in Generations |-> TRUE]
          /\ stage' = stage /\ entries' = entries /\ deleted' = deleted
        BY <1>8 DEF C!Restart
    <2>2. ChangelogTypes'
        BY <1>0, <2>1, IdleRun DEF ChangelogTypes
    <2>3. CalmRuns'
        BY <2>1, IdleRun DEF CalmRuns
    <2>4. \A c \in C!History : ~(entries'[c] < entries[c])
        BY <1>0, <2>1
    <2> QED  BY <2>1, <2>2, <2>3, <2>4 DEF ChangelogStep, ChangelogInv
<1>9. CASE C!DeleteEntry
    <2>1. PICK c \in C!Listed : entries' = [entries EXCEPT ![c] = 0] /\ deleted' = deleted \union {c}
        BY <1>9 DEF C!DeleteEntry
    <2>2. gen' = gen /\ doubt' = doubt /\ stage' = stage
        BY <1>9 DEF C!DeleteEntry
    <2>3. c \in C!History
        BY DEF C!Listed
    <2>4. ChangelogTypes'
        BY <1>0, <2>1, <2>2, <2>3 DEF ChangelogTypes
    <2>5. \A d \in C!History : d # c => entries'[d] = entries[d]
        BY <1>0, <2>1
    <2>6. CalmRuns'
        BY <2>1, <2>2, <2>5 DEF ChangelogInv, CalmRuns, Accounted
    <2>7. \A d \in C!History : entries'[d] < entries[d] => d \in deleted'
        BY <1>0, <2>1, <2>5
    <2> QED  BY <2>2, <2>4, <2>6, <2>7 DEF ChangelogStep, ChangelogInv
<1>10. CASE C!DocsProgress
    <2>1. /\ stage' \in {"docs", "none"} /\ entries' = entries /\ gen' = gen
          /\ deleted' = deleted /\ doubt' = doubt
        BY <1>10 DEF C!DocsProgress
    <2>2. ChangelogInv'
        BY <1>0, <2>1 DEF ChangelogInv, ChangelogTypes, CalmRuns, Accounted
    <2>3. \A c \in C!History : ~(entries'[c] < entries[c])
        BY <1>0, <2>1
    <2> QED  BY <2>1, <2>2, <2>3 DEF ChangelogStep
<1> QED
    BY <1>1, <1>2, <1>3, <1>4, <1>5, <1>6, <1>7, <1>8, <1>9, <1>10 DEF C!Next, C!Step

LEMMA ChangelogBegins == C!Init => ChangelogInv
<1> SUFFICES ASSUME C!Init PROVE ChangelogInv
    OBVIOUS
<1>1. ChangelogTypes
    BY IdleRun DEF C!Init, ChangelogTypes
<1>2. CalmRuns
    BY IdleRun DEF C!Init, CalmRuns
<1> QED  BY <1>1, <1>2 DEF ChangelogInv

LEMMA ChangelogRests == ChangelogInv /\ UNCHANGED changelog => ChangelogInv'
BY DEF changelog, ChangelogInv, ChangelogTypes, CalmRuns, Accounted

-----------------------------------------------------------------------------
(* Queries.  What a walk of one more edge reaches.                          *)

Reached(pairs, from) == {m \in Nodes : \E o \in from : <<o, m>> \in pairs}

IsWalk(walk, n, k, pairs) ==
    walk[0] = n /\ \A i \in 1 .. k : walk[i] = walk[i - 1] \/ <<walk[i - 1], walk[i]>> \in pairs

LEMMA WithinIs ==
    \A n, k, pairs : Q!Within(n, k, pairs) =
        {m \in Nodes : \E walk \in [0 .. k -> Nodes] : IsWalk(walk, n, k, pairs) /\ walk[k] = m}
BY DEF Q!Within, IsWalk

LEMMA WithinNone ==
    ASSUME NEW n \in Nodes, NEW pairs
    PROVE  Q!Within(n, 0, pairs) = {n}
<1> DEFINE walk == [i \in 0 .. 0 |-> n]
<1>1. walk \in [0 .. 0 -> Nodes] /\ IsWalk(walk, n, 0, pairs) /\ walk[0] = n
    BY DEF IsWalk
<1>2. n \in Q!Within(n, 0, pairs)
    BY <1>1, WithinIs
<1>3. \A m \in Q!Within(n, 0, pairs) : m = n
    BY WithinIs DEF IsWalk
<1> QED  BY <1>2, <1>3

LEMMA WithinOneMore ==
    ASSUME NEW n \in Nodes, NEW k \in Nat, NEW pairs
    PROVE  Q!Within(n, k + 1, pairs) = Q!Within(n, k, pairs) \cup Reached(pairs, Q!Within(n, k, pairs))
<1>1. ASSUME NEW m \in Q!Within(n, k + 1, pairs)
      PROVE  m \in Q!Within(n, k, pairs) \cup Reached(pairs, Q!Within(n, k, pairs))
    <2>1. PICK walk \in [0 .. k + 1 -> Nodes] : IsWalk(walk, n, k + 1, pairs) /\ walk[k + 1] = m
        BY <1>1, WithinIs
    <2> DEFINE short == [i \in 0 .. k |-> walk[i]]
    <2>2. short \in [0 .. k -> Nodes] /\ short[k] = walk[k] /\ walk[k] \in Nodes
        BY <2>1
    <2>3. IsWalk(short, n, k, pairs)
        BY <2>1 DEF IsWalk
    <2> HIDE DEF short
    <2>4. walk[k] \in Q!Within(n, k, pairs)
        BY <2>2, <2>3, WithinIs
    <2>5. m = walk[k] \/ <<walk[k], m>> \in pairs
        <3>1. k + 1 \in 1 .. k + 1 /\ (k + 1) - 1 = k
            OBVIOUS
        <3> QED  BY <2>1, <3>1 DEF IsWalk
    <2>6. m \in Nodes
        BY WithinIs
    <2> QED  BY <2>4, <2>5, <2>6 DEF Reached
<1>2. ASSUME NEW m \in Nodes, NEW o \in Q!Within(n, k, pairs), m = o \/ <<o, m>> \in pairs
      PROVE  m \in Q!Within(n, k + 1, pairs)
    <2>1. PICK walk \in [0 .. k -> Nodes] : IsWalk(walk, n, k, pairs) /\ walk[k] = o
        BY WithinIs
    <2> DEFINE long == [i \in 0 .. k + 1 |-> IF i <= k THEN walk[i] ELSE m]
    <2>2. /\ long \in [0 .. k + 1 -> Nodes] /\ long[k + 1] = m
          /\ \A i \in 0 .. k : long[i] = walk[i]
        BY <2>1
    <2> HIDE DEF long
    <2>3. ASSUME NEW i \in 1 .. k + 1 PROVE long[i] = long[i - 1] \/ <<long[i - 1], long[i]>> \in pairs
        <3>1. CASE i \in 1 .. k
            <4>1. i - 1 \in 0 .. k /\ i \in 0 .. k
                BY <3>1
            <4> QED  BY <2>1, <2>2, <3>1, <4>1 DEF IsWalk
        <3>2. CASE i = k + 1
            <4>1. i - 1 = k /\ k \in 0 .. k
                BY <3>2
            <4> QED  BY <1>2, <2>1, <2>2, <3>2, <4>1
        <3> QED  BY <3>1, <3>2
    <2>4. IsWalk(long, n, k + 1, pairs)
        <3>1. 0 \in 0 .. k
            OBVIOUS
        <3> QED  BY <2>1, <2>2, <2>3, <3>1 DEF IsWalk
    <2> QED  BY <2>2, <2>4, WithinIs
<1>3. Q!Within(n, k, pairs) \subseteq Nodes
    BY WithinIs
<1> QED  BY <1>1, <1>2, <1>3 DEF Reached

LEMMA WithinLonger ==
    ASSUME NEW n \in Nodes, NEW j \in Nat, NEW k \in Nat, j <= k, NEW pairs
    PROVE  Q!Within(n, j, pairs) \subseteq Q!Within(n, k, pairs)
<1> SUFFICES ASSUME NEW m \in Q!Within(n, j, pairs) PROVE m \in Q!Within(n, k, pairs)
    OBVIOUS
<1>1. PICK walk \in [0 .. j -> Nodes] : IsWalk(walk, n, j, pairs) /\ walk[j] = m
    BY WithinIs
<1> DEFINE long == [i \in 0 .. k |-> IF i <= j THEN walk[i] ELSE m]
<1>2. /\ long \in [0 .. k -> Nodes] /\ long[k] = m /\ m \in Nodes
      /\ \A i \in 0 .. j : long[i] = walk[i]
      /\ \A i \in j .. k : long[i] = m
    BY <1>1
<1> HIDE DEF long
<1>3. ASSUME NEW i \in 1 .. k PROVE long[i] = long[i - 1] \/ <<long[i - 1], long[i]>> \in pairs
    <2>1. CASE i \in 1 .. j
        <3>1. i - 1 \in 0 .. j /\ i \in 0 .. j
            BY <2>1
        <3> QED  BY <1>1, <1>2, <2>1, <3>1 DEF IsWalk
    <2>2. CASE i \in j + 1 .. k
        <3>1. i - 1 \in j .. k /\ i \in j .. k
            BY <2>2
        <3> QED  BY <1>2, <3>1
    <2> QED  BY <2>1, <2>2
<1>4. IsWalk(long, n, k, pairs)
    <2>1. 0 \in 0 .. j
        OBVIOUS
    <2> QED  BY <1>1, <1>2, <1>3, <2>1 DEF IsWalk
<1> QED  BY <1>2, <1>4, WithinIs

\* The neighbourhood: what lies behind the frontier is the ball before.
BallFits ==
    /\ edges \subseteq Nodes \X Nodes /\ queue = <<>>
    /\ visited = Q!Within(query.node, query.hops, Q!Adjacent) /\ frontier \subseteq visited
    /\ Reached(Q!Adjacent, visited \ frontier) \subseteq visited
    /\ found = Q!Touching(visited \ frontier)
    /\ visited \ frontier = IF query.hops = 0 THEN {}
                            ELSE Q!Within(query.node, query.hops - 1, Q!Adjacent)

Waiting(q) == {q[i][1] : i \in 1 .. Len(q)}

\* The flow: the queue is sorted by the nodes' distance, and what is no longer
\* in it is done with.
QueueFits(q, n, graph, seen) ==
    /\ q \in Seq(Nodes \X Nat)
    /\ \A i \in 1 .. Len(q) :
          /\ q[i][1] \in seen /\ q[i][2] <= MaxDepth + 1 /\ q[i][1] \in Q!Within(n, q[i][2], graph)
          /\ \A d \in Nat : d < q[i][2] => q[i][1] \notin Q!Within(n, d, graph)
          /\ q[i][2] <= q[1][2] + 1
    /\ \A i, j \in 1 .. Len(q) : i < j => q[i][2] <= q[j][2] /\ q[i][1] # q[j][1]
    /\ q # <<>> => Q!Within(n, q[1][2], graph) \subseteq seen

FlowFits(q, n, graph, seen, steps) ==
    /\ graph \subseteq Nodes \X Nodes /\ seen \subseteq Nodes /\ n \in seen
    /\ QueueFits(q, n, graph, seen)
    /\ \A m \in seen \ Waiting(q) : m \in Q!Within(n, MaxDepth, graph) => Reached(graph, {m}) \subseteq seen
    /\ steps = {m \in seen \ Waiting(q) : m \in Q!Within(n, MaxDepth, graph)} \ {n}

NeighbourQueries == [kind: {"neighbours"}, node: Nodes, depth: Nat, hops: Nat]
CallQueries == [kind: {"calls"}, node: Nodes]

QueryInv ==
    \/ query = Q!NoQuery /\ edges = {} /\ visited = {} /\ found = {} /\ frontier = {} /\ queue = <<>>
    \/ query \in NeighbourQueries /\ BallFits
    \/ query \in CallQueries /\ frontier = {} /\ FlowFits(queue, query.node, edges, visited, found)

LEMMA QueryKinds ==
    /\ Q!NoQuery.kind = "none" /\ \A x \in NeighbourQueries : x.kind = "neighbours"
    /\ \A x \in CallQueries : x.kind = "calls"
BY DEF Q!NoQuery, NeighbourQueries, CallQueries

LEMMA NeighboursAsked == Q!AskNeighbours => QueryInv'
<1> SUFFICES ASSUME Q!AskNeighbours PROVE QueryInv'
    OBVIOUS
<1>1. PICK g \in SUBSET (Nodes \X Nodes), n \in Nodes, d \in Q!Depths :
         /\ edges' = g /\ visited' = {n} /\ frontier' = {n}
         /\ query' = [kind |-> "neighbours", node |-> n, depth |-> d, hops |-> 0]
    BY DEF Q!AskNeighbours
<1>2. found' = {} /\ queue' = <<>>
    BY DEF Q!AskNeighbours
<1>3. query' \in NeighbourQueries /\ query'.node = n /\ query'.hops = 0
    BY <1>1, PipelinesConstants DEF NeighbourQueries, Q!Depths
<1>4. visited' = Q!Within(n, 0, Q!Adjacent')
    BY <1>1, WithinNone
<1>5. found' = Q!Touching(visited \ frontier)' /\ (visited \ frontier)' = {}
    BY <1>1, <1>2 DEF Q!Touching
<1>6. Reached(Q!Adjacent, visited \ frontier)' = {}
    BY <1>5 DEF Reached
<1>7. (visited = Q!Within(query.node, query.hops, Q!Adjacent))'
    BY <1>3, <1>4 DEF Q!Within, Q!Adjacent
<1>8. BallFits'
    BY <1>1, <1>2, <1>3, <1>5, <1>6, <1>7 DEF BallFits
<1> QED  BY <1>3, <1>8 DEF QueryInv

LEMMA NeighboursFound == QueryInv /\ Q!GetNeighbours => QueryInv'
<1> SUFFICES ASSUME QueryInv, Q!GetNeighbours PROVE QueryInv'
    OBVIOUS
<1>1. query \in NeighbourQueries /\ BallFits
    BY QueryKinds DEF QueryInv, Q!GetNeighbours
<1> DEFINE met == Q!Touching(frontier)
           ends == UNION {{e[1], e[2]} : e \in met}
<1>2. /\ found' = found \cup met /\ visited' = visited \cup ends /\ frontier' = ends \ visited
      /\ query' = [query EXCEPT !.hops = @ + 1] /\ UNCHANGED <<edges, queue>>
    BY DEF Q!GetNeighbours
<1>3. /\ query' \in NeighbourQueries /\ query'.node = query.node /\ query'.hops = query.hops + 1
      /\ query.hops \in Nat /\ query.node \in Nodes
    BY <1>1, <1>2 DEF NeighbourQueries
<1>4. edges \subseteq Nodes \X Nodes /\ frontier \subseteq visited
    BY <1>1 DEF BallFits
<1>5. (visited \ frontier)' = visited
    BY <1>2
<1>6. visited \cup ends = visited \cup Reached(Q!Adjacent, visited)
    <2>1. ASSUME NEW m \in ends PROVE m \in visited \cup Reached(Q!Adjacent, visited)
        BY <1>4 DEF Reached, Q!Adjacent, Q!Touching
    <2>2. ASSUME NEW m \in Reached(Q!Adjacent, visited) PROVE m \in visited \cup ends
        <3>1. PICK o \in visited : <<o, m>> \in Q!Adjacent
            BY DEF Reached
        <3>2. CASE o \in visited \ frontier
            BY <1>1, <3>1, <3>2 DEF BallFits, Reached
        <3>3. CASE o \in frontier
            <4>1. <<o, m>> \in edges \/ <<m, o>> \in edges
                BY <1>4, <3>1 DEF Q!Adjacent
            <4>2. <<o, m>> \in met \/ <<m, o>> \in met
                BY <3>3, <4>1 DEF Q!Touching
            <4> HIDE DEF met
            <4> QED  BY <4>2
        <3> QED  BY <3>1, <3>2, <3>3
    <2> QED  BY <2>1, <2>2
<1>7. visited' = Q!Within(query.node, query.hops + 1, Q!Adjacent)
    BY <1>1, <1>2, <1>3, <1>6, WithinOneMore DEF BallFits
<1>8. found \cup met = Q!Touching(visited)
    BY <1>1, <1>4 DEF BallFits, Q!Touching
<1>9. Q!Adjacent' = Q!Adjacent
    BY <1>2 DEF Q!Adjacent
<1>10. /\ visited' = Q!Within(query'.node, query'.hops, Q!Adjacent')
       /\ visited = Q!Within(query'.node, query'.hops - 1, Q!Adjacent')
    BY <1>1, <1>3, <1>7, <1>9 DEF BallFits
<1>11. found' = Q!Touching(visited \ frontier)'
    BY <1>2, <1>5, <1>8 DEF Q!Touching
<1>12. Reached(Q!Adjacent', visited) \subseteq visited'
    BY <1>2, <1>6, <1>9
<1>13. Q!Within(query.node, query.hops, Q!Adjacent)' = Q!Within(query'.node, query'.hops, Q!Adjacent')
    BY DEF Q!Within
<1>14. Q!Within(query.node, query.hops - 1, Q!Adjacent)' = Q!Within(query'.node, query'.hops - 1, Q!Adjacent')
    BY DEF Q!Within
<1>15. query'.hops # 0 /\ queue' = <<>> /\ edges' \subseteq Nodes \X Nodes /\ frontier' \subseteq visited'
    BY <1>1, <1>2, <1>3, <1>4 DEF BallFits
<1>16. BallFits'
    BY <1>5, <1>10, <1>11, <1>12, <1>13, <1>14, <1>15 DEF BallFits
<1> QED  BY <1>3, <1>16 DEF QueryInv

\* The queue without its first node h and with the new ones, all of depth d + 1.
Follows(q, p, h, d, new) ==
    /\ p \in Seq(Nodes \X Nat)
    /\ \A i \in 1 .. Len(p) : \/ i < Len(q) /\ p[i] = q[i + 1]
                              \/ i >= Len(q) /\ p[i][1] \in new /\ p[i][2] = d + 1
    /\ \A i, j \in 1 .. Len(p) : i >= Len(q) /\ i < j => p[i][1] # p[j][1]
    /\ Waiting(p) = (Waiting(q) \ {h}) \cup new

InOrder(order, c, new) ==
    order \in [1 .. c -> new] /\ \A i, j \in 1 .. c : i # j => order[i] # order[j]

LEMMA AllAreOrdered ==
    ASSUME NEW new, IsFiniteSet(new), NEW c, c = Cardinality(new), NEW order, InOrder(order, c, new)
    PROVE  c \in Nat /\ \A o \in new : \E i \in 1 .. c : order[i] = o
<1>1. c \in Nat /\ order \in Injection(1 .. c, new)
    BY FS_CardinalityType DEF InOrder, Injection, IsInjective
<1>2. Cardinality(1 .. c) = c /\ IsFiniteSet(1 .. c)
    BY <1>1, FS_Interval
<1>3. order \in Surjection(1 .. c, new)
    BY <1>1, <1>2, FS_Injection
<1> QED  BY <1>1, <1>3 DEF Surjection

\* The new ones, in any order, after what is left of the queue.
Joined(q, p, c, r) ==
    /\ p \in Seq(Nodes \X Nat) /\ Len(p) = Len(q) - 1 + c /\ Len(q) \in Nat \ {0}
    /\ \A i \in 1 .. Len(p) : p[i] = IF i < Len(q) THEN q[i + 1] ELSE r[i - Len(q) + 1]

LEMMA QueueJoined ==
    ASSUME NEW q \in Seq(Nodes \X Nat), q # <<>>, NEW c \in Nat, NEW r \in [1 .. c -> Nodes \X Nat]
    PROVE  Joined(q, Tail(q) \o r, c, r)
<1> DEFINE V == Nodes \X Nat
<1>1. q \in Seq(V) /\ r \in [1 .. c -> V]
    OBVIOUS
<1> HIDE DEF V
<1>2. /\ Tail(q) \in Seq(V) /\ Len(Tail(q)) = Len(q) - 1 /\ Len(q) \in Nat \ {0}
      /\ \A i \in 1 .. Len(q) - 1 : Tail(q)[i] = q[i + 1]
    BY <1>1, HeadTailProperties
<1>3. r \in Seq(V) /\ Len(r) = c
    BY <1>1
<1>4. /\ Tail(q) \o r \in Seq(V) /\ Len(Tail(q) \o r) = Len(Tail(q)) + Len(r)
      /\ \A i \in 1 .. Len(Tail(q)) + Len(r) : (Tail(q) \o r)[i] =
            IF i <= Len(Tail(q)) THEN Tail(q)[i] ELSE r[i - Len(Tail(q))]
    <2>1. Tail(q) \in Seq(V) /\ r \in Seq(V)
        BY <1>2, <1>3
    <2> QED  BY <2>1, ConcatProperties
<1>5. PICK p : p = Tail(q) \o r
    OBVIOUS
<1>6. PICK t : t = Tail(q)
    OBVIOUS
<1>7. /\ Len(t) = Len(q) - 1 /\ Len(q) \in Nat \ {0} /\ Len(r) = c
      /\ \A i \in 1 .. Len(q) - 1 : t[i] = q[i + 1]
      /\ p \in Seq(V) /\ Len(p) = Len(t) + Len(r)
      /\ \A i \in 1 .. Len(t) + Len(r) : p[i] = IF i <= Len(t) THEN t[i] ELSE r[i - Len(t)]
    BY <1>2, <1>3, <1>4, <1>5, <1>6, Zenon
<1>8. ASSUME NEW i \in 1 .. Len(p) PROVE p[i] = IF i < Len(q) THEN q[i + 1] ELSE r[i - Len(q) + 1]
    <2>1. p[i] = IF i <= Len(t) THEN t[i] ELSE r[i - Len(t)]
        BY <1>7
    <2>2. i - Len(t) = i - Len(q) + 1 /\ (i <= Len(t) <=> i < Len(q)) /\ (i < Len(q) => i \in 1 .. Len(q) - 1)
        BY <1>7
    <2> QED  BY <1>7, <2>1, <2>2
<1>9. p \in Seq(V) /\ Len(p) = Len(q) - 1 + c /\ Len(q) \in Nat \ {0}
    BY <1>7
<1>10. Joined(q, p, c, r)
    BY <1>8, <1>9, Zenon DEF Joined, V
<1> QED  BY <1>5, <1>10, Zenon

AllNew(r, c, d, new) ==
    /\ \A i \in 1 .. c : r[i][1] \in new /\ r[i][2] = d + 1
    /\ \A i, j \in 1 .. c : i # j => r[i][1] # r[j][1]
    /\ \A o \in new : \E i \in 1 .. c : r[i][1] = o

OnceEach(q) == \A i, j \in 1 .. Len(q) : i < j => q[i][1] # q[j][1]

LEMMA QueueFollows ==
    ASSUME NEW q, OnceEach(q), NEW d, NEW new, NEW c \in Nat, NEW r, NEW p,
           Joined(q, p, c, r), AllNew(r, c, d, new)
    PROVE  Follows(q, p, q[1][1], d, new)
<1>0. /\ \A i, j \in 1 .. Len(q) : i < j => q[i][1] # q[j][1]
      /\ \A i \in 1 .. c : r[i][1] \in new /\ r[i][2] = d + 1
      /\ \A i, j \in 1 .. c : i # j => r[i][1] # r[j][1]
      /\ \A o \in new : \E i \in 1 .. c : r[i][1] = o
    BY DEF AllNew, OnceEach
<1>1. Len(p) = Len(q) - 1 + c /\ Len(q) \in Nat \ {0} /\ Len(p) \in Nat
    BY DEF Joined
<1>2. ASSUME NEW i \in 1 .. Len(p), i < Len(q)
      PROVE  i + 1 \in 1 .. Len(q) /\ 1 \in 1 .. Len(q) /\ 1 < i + 1 /\ p[i] = q[i + 1]
    BY <1>1, <1>2 DEF Joined
<1>3. ASSUME NEW i \in 1 .. Len(p), ~(i < Len(q))
      PROVE  i - Len(q) + 1 \in 1 .. c /\ i >= Len(q) /\ p[i] = r[i - Len(q) + 1]
    <2>1. i - Len(q) + 1 \in 1 .. c /\ i >= Len(q)
        BY <1>1, <1>3
    <2>2. p[i] = IF i < Len(q) THEN q[i + 1] ELSE r[i - Len(q) + 1]
        BY DEF Joined
    <2> QED  BY <1>3, <2>1, <2>2
<1>4. ASSUME NEW i \in 1 .. Len(p), ~(i < Len(q)) PROVE p[i][1] \in new /\ p[i][2] = d + 1
    <2>1. p[i] = r[i - Len(q) + 1] /\ i - Len(q) + 1 \in 1 .. c
        BY <1>3, <1>4
    <2> QED  BY <1>0, <2>1
<1>5. ASSUME NEW i \in 1 .. Len(p), NEW j \in 1 .. Len(p), i >= Len(q), i < j
      PROVE  p[i][1] # p[j][1]
    <2>1. ~(i < Len(q)) /\ ~(j < Len(q)) /\ i - Len(q) + 1 # j - Len(q) + 1
        BY <1>1, <1>5
    <2>2. /\ i - Len(q) + 1 \in 1 .. c /\ p[i] = r[i - Len(q) + 1]
          /\ j - Len(q) + 1 \in 1 .. c /\ p[j] = r[j - Len(q) + 1]
        BY <1>3, <2>1
    <2> QED  BY <1>0, <2>1, <2>2
<1>6. ASSUME NEW i \in 1 .. Len(p) PROVE p[i][1] \in (Waiting(q) \ {q[1][1]}) \cup new
    <2>1. CASE i < Len(q)
        BY <1>0, <1>2, <2>1 DEF Waiting
    <2> QED  BY <1>4, <2>1
<1>7. ASSUME NEW j \in 1 .. Len(q), q[j][1] # q[1][1] PROVE q[j][1] \in Waiting(p)
    <2>1. j # 1
        BY <1>7
    <2>2. j - 1 \in 1 .. Len(p) /\ j - 1 < Len(q) /\ (j - 1) + 1 = j
        BY <1>1, <2>1
    <2>3. p[j - 1] = q[j]
        BY <1>2, <2>2
    <2> QED  BY <2>2, <2>3 DEF Waiting
<1>8. ASSUME NEW j \in 1 .. c PROVE r[j][1] \in Waiting(p)
    <2>1. /\ j + Len(q) - 1 \in 1 .. Len(p) /\ ~(j + Len(q) - 1 < Len(q))
          /\ (j + Len(q) - 1) - Len(q) + 1 = j
        BY <1>1
    <2>2. p[j + Len(q) - 1] = r[j]
        BY <1>3, <2>1
    <2> QED  BY <2>1, <2>2 DEF Waiting
<1>9. Waiting(p) = (Waiting(q) \ {q[1][1]}) \cup new
    <2>1. Waiting(p) \subseteq (Waiting(q) \ {q[1][1]}) \cup new
        BY <1>6 DEF Waiting
    <2>2. Waiting(q) \ {q[1][1]} \subseteq Waiting(p)
        BY <1>7 DEF Waiting
    <2>3. new \subseteq Waiting(p)
        BY <1>0, <1>8
    <2> QED  BY <2>1, <2>2, <2>3
<1>10. \A i \in 1 .. Len(p) : \/ i < Len(q) /\ p[i] = q[i + 1]
                              \/ i >= Len(q) /\ p[i][1] \in new /\ p[i][2] = d + 1
    BY <1>2, <1>3, <1>4
<1>11. p \in Seq(Nodes \X Nat)
    BY DEF Joined
<1> QED  BY <1>5, <1>9, <1>10, <1>11 DEF Follows

\* The first of the queue is expanded: its callees are one call farther away
\* than it, and nothing that is nearer than the next is still in the queue.
LEMMA FlowGoesOn ==
    ASSUME NEW n, NEW graph, NEW seen, NEW steps, NEW q, FlowFits(q, n, graph, seen, steps),
           1 \in 1 .. Len(q), NEW h, NEW d, h = q[1][1], d = q[1][2],
           NEW new, d > MaxDepth => new = {}, d <= MaxDepth => new = Reached(graph, {h}) \ seen,
           NEW p, Follows(q, p, h, d, new)
    PROVE  FlowFits(p, n, graph, seen \cup new, IF d > MaxDepth \/ h = n THEN steps ELSE steps \cup {h})
<1> DEFINE W(k) == Q!Within(n, k, graph)
<1>1. /\ q \in Seq(Nodes \X Nat) /\ seen \subseteq Nodes /\ n \in Nodes /\ graph \subseteq Nodes \X Nodes
      /\ QueueFits(q, n, graph, seen) /\ n \in seen
    BY DEF FlowFits, QueueFits
<1>2. /\ MaxDepth \in Nat /\ Len(q) \in Nat
      /\ \A i \in 1 .. Len(q) : q[i][1] \in Nodes /\ q[i][2] \in Nat
    BY <1>1, PipelinesConstants
<1>3. /\ q # <<>> /\ h \in seen /\ d \in Nat /\ d <= MaxDepth + 1
      /\ h \in W(d) /\ \A k \in Nat : k < d => h \notin W(k)
    BY <1>1, <1>2 DEF QueueFits
<1>4. W(d) \subseteq seen
    BY <1>1, <1>3 DEF QueueFits
<1> HIDE DEF W
<1>5. new \subseteq Nodes /\ \A o \in new : d <= MaxDepth /\ o \in Reached(graph, {h}) /\ o \notin seen
    <2>1. d > MaxDepth \/ d <= MaxDepth
        BY <1>2, <1>3
    <2>2. Reached(graph, {h}) \subseteq Nodes
        BY DEF Reached
    <2> QED  BY <2>1, <2>2
<1>6. W(d + 1) = W(d) \cup Reached(graph, W(d))
    BY <1>1, <1>3, WithinOneMore DEF W
<1>7. \A j, k \in Nat : j <= k => W(j) \subseteq W(k)
    BY <1>1, WithinLonger DEF W
<1>8. \A o \in new : o \in W(d + 1) /\ \A k \in Nat : k < d + 1 => o \notin W(k)
    <2> SUFFICES ASSUME NEW o \in new PROVE o \in W(d + 1) /\ \A k \in Nat : k < d + 1 => o \notin W(k)
        OBVIOUS
    <2>1. o \in Reached(graph, W(d))
        BY <1>3, <1>5 DEF Reached
    <2>2. ASSUME NEW k \in Nat, k < d + 1 PROVE o \notin W(k)
        <3>1. k <= d
            BY <1>3, <2>2
        <3>2. W(k) \subseteq seen
            BY <1>3, <1>4, <1>7, <3>1
        <3> QED  BY <1>5, <3>2
    <2> QED  BY <1>6, <2>1, <2>2
<1>9. ASSUME NEW i \in 1 .. Len(q)
      PROVE  /\ q[i][1] \in seen /\ q[i][2] <= MaxDepth + 1 /\ q[i][1] \in W(q[i][2])
             /\ \A k \in Nat : k < q[i][2] => q[i][1] \notin W(k)
             /\ d <= q[i][2] /\ q[i][2] <= d + 1
    <2>1. /\ q[i][1] \in seen /\ q[i][2] <= MaxDepth + 1 /\ q[i][1] \in W(q[i][2])
          /\ \A k \in Nat : k < q[i][2] => q[i][1] \notin W(k)
          /\ q[i][2] <= d + 1
        BY <1>1 DEF QueueFits, W
    <2>2. d <= q[i][2]
        <3>1. i = 1 \/ 1 < i
            OBVIOUS
        <3>2. 1 < i => q[1][2] <= q[i][2]
            BY <1>1 DEF QueueFits
        <3> QED  BY <1>2, <3>1, <3>2
    <2> QED  BY <2>1, <2>2
<1>10. ASSUME NEW i \in 1 .. Len(p)
       PROVE  \/ i < Len(q) /\ i + 1 \in 1 .. Len(q) /\ p[i] = q[i + 1]
              \/ i >= Len(q) /\ p[i][1] \in new /\ p[i][2] = d + 1
    <2>1. \/ i < Len(q) /\ p[i] = q[i + 1]
          \/ i >= Len(q) /\ p[i][1] \in new /\ p[i][2] = d + 1
        BY DEF Follows
    <2>2. i < Len(q) => i + 1 \in 1 .. Len(q)
        BY <1>2
    <2> QED  BY <2>1, <2>2
<1>11. ASSUME NEW i \in 1 .. Len(p)
       PROVE  /\ p[i][1] \in seen \cup new /\ p[i][2] \in Nat /\ p[i][2] <= MaxDepth + 1
              /\ p[i][1] \in W(p[i][2]) /\ \A k \in Nat : k < p[i][2] => p[i][1] \notin W(k)
              /\ d <= p[i][2] /\ p[i][2] <= d + 1
    <2>1. CASE i + 1 \in 1 .. Len(q) /\ p[i] = q[i + 1]
        BY <1>2, <1>9, <2>1
    <2>2. CASE p[i][1] \in new /\ p[i][2] = d + 1
        BY <1>2, <1>3, <1>5, <1>8, <2>2, SMTT(30)
    <2> QED  BY <1>10, <2>1, <2>2
<1>12. ASSUME NEW i \in 1 .. Len(p), NEW j \in 1 .. Len(p), i < j
       PROVE  p[i][2] <= p[j][2] /\ p[i][1] # p[j][1]
    <2>1. CASE i < Len(q) /\ j < Len(q)
        <3>1. i + 1 < j + 1 /\ i + 1 \in 1 .. Len(q) /\ j + 1 \in 1 .. Len(q)
            BY <1>2, <1>12, <2>1
        <3>2. p[i] = q[i + 1] /\ p[j] = q[j + 1]
            BY <1>2, <1>10, <2>1
        <3> QED  BY <1>1, <3>1, <3>2 DEF QueueFits
    <2>2. CASE i < Len(q) /\ j >= Len(q)
        <3>1. i + 1 \in 1 .. Len(q) /\ p[i] = q[i + 1] /\ p[j][1] \in new /\ p[j][2] = d + 1
            BY <1>2, <1>10, <2>2
        <3>2. p[i][1] \in seen /\ p[j][1] \notin seen
            BY <1>5, <1>9, <3>1
        <3> QED  BY <1>11, <3>1, <3>2
    <2>3. CASE i >= Len(q)
        <3>1. p[i][1] # p[j][1]
            BY <1>12, <2>3 DEF Follows
        <3>2. p[i][2] = d + 1 /\ p[j][2] = d + 1
            BY <1>2, <1>10, <1>12, <2>3
        <3> QED  BY <1>3, <3>1, <3>2
    <2> QED  BY <1>2, <2>1, <2>2, <2>3
<1>13. Waiting(p) = (Waiting(q) \ {h}) \cup new /\ h \in Waiting(q) /\ Waiting(q) \subseteq seen
    BY <1>9 DEF Follows, Waiting
<1>14. ASSUME NEW m \in (seen \cup new) \ Waiting(p), m \in W(MaxDepth)
       PROVE  Reached(graph, {m}) \subseteq seen \cup new
    <2>1. CASE m = h
        <3>1. d <= MaxDepth
            BY <1>2, <1>3, <1>14, <2>1
        <3> QED  BY <2>1, <3>1
    <2>2. CASE m # h
        <3>1. m \in seen \ Waiting(q)
            BY <1>13, <1>14, <2>2
        <3> QED  BY <1>14, <3>1 DEF FlowFits, W
    <2> QED  BY <2>1, <2>2
<1>15. ASSUME NEW i \in 1 .. Len(p), 1 \in 1 .. Len(p) PROVE p[1][2] <= p[i][2] /\ p[i][2] <= p[1][2] + 1
    <2>1. i = 1 \/ 1 < i
        OBVIOUS
    <2> QED  BY <1>3, <1>11, <1>12, <1>15, <2>1
<1>16. ASSUME 1 \in 1 .. Len(p) PROVE W(p[1][2]) \subseteq seen \cup new
    <2>1. CASE p[1][2] = d
        BY <1>4, <2>1
    <2>2. CASE p[1][2] = d + 1
        <3>1. d <= MaxDepth
            BY <1>2, <1>3, <1>11, <1>16, <2>2
        <3>2. ASSUME NEW m \in W(d) PROVE Reached(graph, {m}) \subseteq seen \cup new
            <4>1. ASSUME NEW i \in 1 .. Len(p), p[i][1] = m PROVE FALSE
                <5>1. d + 1 <= p[i][2] /\ p[i][2] \in Nat
                    BY <1>11, <1>15, <1>16, <2>2
                <5>2. d < p[i][2]
                    BY <1>3, <5>1
                <5> QED  BY <1>3, <1>11, <3>2, <4>1, <5>2
            <4>2. m \notin Waiting(p)
                BY <4>1 DEF Waiting
            <4>3. m \in W(MaxDepth) /\ m \in seen
                BY <1>2, <1>3, <1>4, <1>7, <3>1, <3>2
            <4> QED  BY <1>14, <4>2, <4>3
        <3> QED  BY <1>4, <1>6, <2>2, <3>2 DEF Reached
    <2> QED  BY <1>3, <1>11, <1>16, <2>1, <2>2
<1>17. p \in Seq(Nodes \X Nat) /\ (p # <<>> => 1 \in 1 .. Len(p)) /\ \A i \in 1 .. Len(p) : 1 \in 1 .. Len(p)
    <2>1. p \in Seq(Nodes \X Nat)
        BY DEF Follows
    <2> QED  BY <2>1
<1>18. QueueFits(p, n, graph, seen \cup new)
    BY <1>11, <1>12, <1>15, <1>16, <1>17 DEF QueueFits, W
<1>19. h \in W(MaxDepth) <=> d <= MaxDepth
    BY <1>2, <1>3, <1>7
<1>20. (seen \cup new) \ Waiting(p) = (seen \ Waiting(q)) \cup {h}
    BY <1>3, <1>5, <1>13
<1>21. (IF d > MaxDepth \/ h = n THEN steps ELSE steps \cup {h})
          = {m \in (seen \cup new) \ Waiting(p) : m \in W(MaxDepth)} \ {n}
    <2>1. steps = {m \in seen \ Waiting(q) : m \in W(MaxDepth)} \ {n}
        BY DEF FlowFits, W
    <2>2. d > MaxDepth <=> ~(d <= MaxDepth)
        BY <1>2, <1>3
    <2> QED  BY <1>19, <1>20, <2>1, <2>2
<1> QED  BY <1>1, <1>5, <1>14, <1>18, <1>21 DEF FlowFits, W

LEMMA QueryCounts == \A M : Q!Cardinality(M) = Cardinality(M)
BY DEF Q!Cardinality, Cardinality, Q!IsFiniteSet, IsFiniteSet

LEMMA FlowAsked == Q!AskFlow => QueryInv'
<1> SUFFICES ASSUME Q!AskFlow PROVE QueryInv'
    OBVIOUS
<1>1. PICK g \in SUBSET (Nodes \X Nodes), n \in Nodes :
         /\ edges' = g /\ query' = [kind |-> "calls", node |-> n]
         /\ visited' = {n} /\ queue' = <<<<n, 0>>>>
    BY DEF Q!AskFlow
<1>2. found' = {} /\ frontier' = {} /\ query' \in CallQueries /\ query'.node = n
    BY <1>1 DEF Q!AskFlow, CallQueries
<1>3. PICK q : q = <<<<n, 0>>>>
    OBVIOUS
<1>4. q \in Seq(Nodes \X Nat) /\ q # <<>> /\ 1 .. Len(q) = {1} /\ q[1][1] = n /\ q[1][2] = 0
    BY <1>3
<1>5. Q!Within(n, 0, g) = {n}
    BY WithinNone
<1>6. QueueFits(q, n, g, {n})
    <2>1. \A i \in 1 .. Len(q) : i = 1
        BY <1>4
    <2>2. MaxDepth \in Nat /\ \A d \in Nat : ~(d < 0)
        BY PipelinesConstants
    <2> QED  BY <1>4, <1>5, <2>1, <2>2 DEF QueueFits
<1>7. Waiting(q) = {n}
    BY <1>4 DEF Waiting
<1>8. FlowFits(q, n, g, {n}, {})
    BY <1>6, <1>7 DEF FlowFits
<1>9. FlowFits(queue', query'.node, edges', visited', found')
    BY <1>1, <1>2, <1>3, <1>8
<1> QED  BY <1>2, <1>9 DEF QueryInv

LEMMA FlowTraced == QueryInv /\ Q!TraceFlow => QueryInv'
<1> SUFFICES ASSUME QueryInv, Q!TraceFlow PROVE QueryInv'
    OBVIOUS
<1>1. query \in CallQueries /\ frontier = {} /\ FlowFits(queue, query.node, edges, visited, found) /\ queue # <<>>
    BY QueryKinds DEF QueryInv, Q!TraceFlow
<1>2. PICK h, d : h = queue[1][1] /\ d = queue[1][2]
    OBVIOUS
<1>3. queue \in Seq(Nodes \X Nat) /\ 1 \in 1 .. Len(queue) /\ Head(queue) = queue[1]
    BY <1>1 DEF FlowFits, QueueFits
<1>4. h \in Nodes /\ d \in Nat
    BY <1>2, <1>3
<1>5. PICK new : new = IF d > MaxDepth THEN {} ELSE Reached(edges, {h}) \ visited
    OBVIOUS
<1>6. new = IF Q!TooDeep(d) THEN {} ELSE Q!Callees(h) \ visited
    BY <1>5 DEF Q!TooDeep, Q!Callees, Reached
<1>7. /\ found' = IF d > MaxDepth \/ h = query.node THEN found ELSE found \cup {h}
      /\ visited' = visited \cup new
      /\ \E order \in {s \in [1 .. Cardinality(new) -> new] :
                           \A i, j \in 1 .. Cardinality(new) : i # j => s[i] # s[j]} :
            queue' = Tail(queue) \o [i \in 1 .. Cardinality(new) |-> <<order[i], d + 1>>]
      /\ UNCHANGED <<edges, query, frontier>>
    BY <1>2, <1>3, <1>6, QueryCounts, Zenon DEF Q!TraceFlow, Q!TooDeep
<1>8. IsFiniteSet(new) /\ new \subseteq Nodes
    <2>1. new \subseteq Nodes
        BY <1>5 DEF Reached
    <2> QED  BY <2>1, PipelinesConstants, FS_Subset
<1>9. PICK c : c = Cardinality(new)
    OBVIOUS
<1>10. PICK order :
         /\ order \in [1 .. c -> new] /\ \A i, j \in 1 .. c : i # j => order[i] # order[j]
         /\ queue' = Tail(queue) \o [i \in 1 .. c |-> <<order[i], d + 1>>]
    BY <1>7, <1>9
<1>11. c \in Nat /\ \A o \in new : \E i \in 1 .. c : order[i] = o
    <2>1. InOrder(order, c, new)
        BY <1>10 DEF InOrder
    <2> QED  BY <1>8, <1>9, <2>1, AllAreOrdered
<1>12. PICK r : r = [i \in 1 .. c |-> <<order[i], d + 1>>]
    OBVIOUS
<1>13. r \in [1 .. c -> Nodes \X Nat] /\ \A i \in 1 .. c : r[i][1] = order[i] /\ r[i][2] = d + 1
    <2>1. \A i \in 1 .. c : order[i] \in Nodes /\ <<order[i], d + 1>> \in Nodes \X Nat
        BY <1>4, <1>8, <1>10
    <2> QED  BY <1>12, <2>1
<1>14. Joined(queue, queue', c, r)
    <2>1. queue' = Tail(queue) \o r
        BY <1>10, <1>12
    <2>2. Joined(queue, Tail(queue) \o r, c, r)
        BY <1>1, <1>3, <1>11, <1>13, QueueJoined
    <2> QED  BY <2>1, <2>2, Zenon
<1>15. \A i, j \in 1 .. Len(queue) : i < j => queue[i][1] # queue[j][1]
    BY <1>1 DEF FlowFits, QueueFits
<1>16. Follows(queue, queue', queue[1][1], d, new)
    <2>1. \A i \in 1 .. c : r[i][1] \in new /\ r[i][2] = d + 1
        BY <1>10, <1>11, <1>13
    <2>2. \A i, j \in 1 .. c : i # j => r[i][1] # r[j][1]
        BY <1>10, <1>11, <1>13
    <2>3. \A o \in new : \E i \in 1 .. c : r[i][1] = o
        BY <1>10, <1>11, <1>13
    <2>4. c \in Nat
        BY <1>11
    <2>5. PICK q, p : q = queue /\ p = queue'
        OBVIOUS
    <2>6. Joined(q, p, c, r) /\ \A i, j \in 1 .. Len(q) : i < j => q[i][1] # q[j][1]
        BY <1>14, <1>15, <2>5
    <2>7. Follows(q, p, q[1][1], d, new)
        <3>1. OnceEach(q) /\ AllNew(r, c, d, new)
            BY <2>1, <2>2, <2>3, <2>6 DEF OnceEach, AllNew
        <3> QED  BY <2>4, <2>6, <3>1, QueueFollows
    <2> QED  BY <2>5, <2>7, Zenon
<1>17. (d > MaxDepth => new = {}) /\ (d <= MaxDepth => new = Reached(edges, {h}) \ visited)
    BY <1>4, <1>5, PipelinesConstants
<1>18. FlowFits(queue', query.node, edges, visited \cup new,
                IF d > MaxDepth \/ h = query.node THEN found ELSE found \cup {h})
    BY <1>1, <1>2, <1>3, <1>16, <1>17, FlowGoesOn
<1>19. FlowFits(queue', query'.node, edges', visited', found')
    BY <1>7, <1>18, Zenon
<1> QED  BY <1>1, <1>7, <1>19 DEF QueryInv

LEMMA QueryDone == Q!Done => QueryInv'
BY DEF Q!Done, QueryInv

LEMMA QueriesStay == QueryInv /\ Q!Next => QueryInv'
BY NeighboursAsked, NeighboursFound, FlowAsked, FlowTraced, QueryDone DEF Q!Next

LEMMA QueriesBegin == Q!Init => QueryInv
BY DEF Q!Init, QueryInv

LEMMA QueriesRest == QueryInv /\ UNCHANGED queries => QueryInv'
<1> SUFFICES ASSUME QueryInv, UNCHANGED queries PROVE QueryInv'
    OBVIOUS
<1>1. UNCHANGED <<edges, query, visited, found, frontier, queue>>
    BY DEF queries
<1>2. BallFits => BallFits'
    BY <1>1, SMTT(30) DEF BallFits, Q!Within, Q!Adjacent, Q!Touching
<1>3. FlowFits(queue, query.node, edges, visited, found)
         => FlowFits(queue', query'.node, edges', visited', found')
    BY <1>1
<1> QED  BY <1>1, <1>2, <1>3 DEF QueryInv

\* What holds of 0, and of n + 1 when of n, holds of every number: the least of
\* the others has one before it.
LEMMA InductionOnNat ==
    ASSUME NEW G, 0 \in G, \A n \in Nat : n \in G => n + 1 \in G
    PROVE  Nat \subseteq G
<1> SUFFICES ASSUME Nat \ G # {} PROVE FALSE
    OBVIOUS
<1> DEFINE R == {p \in Nat \X Nat : p[1] < p[2]}
<1>1. IsWellFoundedOn(R, Nat)
    BY NatLessThanWellFounded DEF OpToRel
<1>2. \A m, n \in Nat : m < n => <<m, n>> \in R
    OBVIOUS
<1> HIDE DEF R
<1>3. PICK m \in Nat \ G : \A n \in Nat \ G : <<n, m>> \notin R
    BY <1>1, WFMin
<1>4. m # 0 /\ m - 1 \in Nat /\ m - 1 < m /\ (m - 1) + 1 = m
    BY <1>3
<1> QED  BY <1>2, <1>3, <1>4

\* At the end everything within the depth is seen, call by call.
LEMMA FlowEnds ==
    ASSUME NEW n, NEW graph, NEW seen, NEW steps, FlowFits(<<>>, n, graph, seen, steps)
    PROVE  steps = Q!Within(n, MaxDepth, graph) \ {n}
<1> DEFINE W(k) == Q!Within(n, k, graph)
           G == {k \in Nat : k <= MaxDepth => W(k) \subseteq seen}
<1>1. Waiting(<<>>) = {}
    BY DEF Waiting
<1>2. /\ n \in seen /\ seen \subseteq Nodes
      /\ \A m \in seen : m \in W(MaxDepth) => Reached(graph, {m}) \subseteq seen
      /\ steps = {m \in seen : m \in W(MaxDepth)} \ {n}
    BY <1>1 DEF FlowFits
<1>3. W(0) = {n}
    BY <1>2, WithinNone
<1>4. MaxDepth \in Nat
    BY PipelinesConstants
<1>5. ASSUME NEW k \in Nat, k \in G PROVE k + 1 \in G
    <2> SUFFICES ASSUME k + 1 <= MaxDepth PROVE W(k + 1) \subseteq seen
        OBVIOUS
    <2>1. k <= MaxDepth /\ W(k) \subseteq seen
        BY <1>4, <1>5
    <2>2. W(k + 1) = W(k) \cup Reached(graph, W(k))
        BY <1>2, WithinOneMore
    <2>3. W(k) \subseteq W(MaxDepth)
        BY <1>2, <1>4, <2>1, WithinLonger
    <2> HIDE DEF W
    <2>4. Reached(graph, W(k)) \subseteq seen
        BY <1>2, <2>1, <2>3 DEF Reached
    <2> QED  BY <2>1, <2>2, <2>4
<1>6. 0 \in G
    BY <1>2, <1>3
<1>7. Nat \subseteq G
    <2> HIDE DEF G
    <2> QED  BY <1>5, <1>6, InductionOnNat
<1>8. W(MaxDepth) \subseteq seen
    BY <1>4, <1>7
<1> QED  BY <1>2, <1>8

LEMMA QueriesHold == QueryInv => QueriesAreComplete
<1> SUFFICES ASSUME QueryInv PROVE QueriesAreComplete
    OBVIOUS
<1>1. CASE query = Q!NoQuery /\ edges = {} /\ visited = {} /\ found = {} /\ frontier = {} /\ queue = <<>>
    BY <1>1, QueryKinds DEF QueriesAreComplete, Q!TypeOK, Q!NeighbourhoodIsBall, Q!FlowIsComplete
<1>2. CASE query \in NeighbourQueries /\ BallFits
    <2>1. query.kind = "neighbours" /\ query.kind # "calls"
        BY <1>2, QueryKinds
    <2>2. visited \subseteq Nodes
        BY <1>2, WithinIs DEF BallFits
    <2>3. ASSUME NEW e \in found PROVE e \in edges /\ {e[1], e[2]} \subseteq visited
        <3>1. e \in edges /\ e = <<e[1], e[2]>> /\ e[1] \in Nodes /\ e[2] \in Nodes
            BY <1>2 DEF BallFits, Q!Touching
        <3>2. <<e[1], e[2]>> \in Q!Adjacent /\ <<e[2], e[1]>> \in Q!Adjacent
            BY <3>1 DEF Q!Adjacent
        <3>3. e[1] \in visited \ frontier \/ e[2] \in visited \ frontier
            BY <1>2 DEF BallFits, Q!Touching
        <3> QED  BY <1>2, <3>1, <3>2, <3>3 DEF BallFits, Reached
    <2>4. Q!TypeOK
        <3>1. edges \subseteq Nodes \X Nodes /\ frontier \subseteq visited /\ Len(queue) = 0
            BY <1>2 DEF BallFits
        <3> QED  BY <2>2, <2>3, <3>1 DEF Q!TypeOK
    <2>5. found = IF query.hops = 0 THEN {}
                  ELSE Q!Touching(Q!Within(query.node, query.hops - 1, Q!Adjacent))
        BY <1>2 DEF BallFits, Q!Touching
    <2> QED  BY <1>2, <2>1, <2>4, <2>5 DEF BallFits, QueriesAreComplete, Q!NeighbourhoodIsBall, Q!FlowIsComplete
<1>3. CASE query \in CallQueries /\ frontier = {} /\ FlowFits(queue, query.node, edges, visited, found)
    <2>1. query.kind = "calls" /\ query.kind # "neighbours"
        BY <1>3, QueryKinds
    <2>2. ASSUME NEW i \in 1 .. Len(queue) PROVE queue[i] \in visited \X (0 .. MaxDepth + 1)
        <3>1. queue[i] = <<queue[i][1], queue[i][2]>> /\ queue[i][2] \in Nat
            BY <1>3 DEF FlowFits, QueueFits
        <3>2. queue[i][1] \in visited /\ queue[i][2] <= MaxDepth + 1
            BY <1>3 DEF FlowFits, QueueFits
        <3>3. queue[i][2] \in 0 .. MaxDepth + 1
            BY <3>1, <3>2, PipelinesConstants
        <3> QED  BY <3>1, <3>2, <3>3
    <2>3. Q!TypeOK
        BY <1>3, <2>1, <2>2 DEF FlowFits, Q!TypeOK
    <2>4. queue = <<>> => found = Q!Within(query.node, MaxDepth, edges) \ {query.node}
        BY <1>3, FlowEnds
    <2> QED  BY <2>1, <2>3, <2>4 DEF QueriesAreComplete, Q!NeighbourhoodIsBall, Q!FlowIsComplete
<1> QED  BY <1>1, <1>2, <1>3 DEF QueryInv

-----------------------------------------------------------------------------
\* Analysis: types, and a product is "analyzing" or shows progress only while a
\* task works on it, whoever overlaps, unless a process died or a last write
\* failed. (That it is settled at some time is left to TLC.)
THEOREM AnalyzingIsWorkedOn == Spec => [](A!TypeOK /\ A!AnalyzingHasTask)
<1>1. Init => AnalysisInv
    BY AnalysisBegins DEF Init
<1>2. AnalysisInv /\ [Next]_Vars => AnalysisInv'
    BY AnalysisStays, AnalysisRests DEF Next, Vars
<1>3. AnalysisInv => A!TypeOK /\ A!AnalyzingHasTask
    BY AnalysisHolds
<1> QED  BY <1>1, <1>2, <1>3, PTL DEF Spec, Vars

\* Indexing: types; the last graph stored is there, whatever fails or overlaps,
\* and as long as no two indexers overlapped it is the only one.
THEOREM GraphKept == Spec => []GraphIsKept
<1>1. Init => IndexInv
    BY IndexingBegins DEF Init
<1>2. IndexInv /\ [Next]_Vars => IndexInv'
    BY IndexingStays, IndexingRests DEF Next, Vars
<1>3. IndexInv => GraphIsKept
    BY IndexingHolds DEF GraphIsKept
<1> QED  BY <1>1, <1>2, <1>3, PTL DEF Spec, Vars

\* Changelog: types, and with them one entry at most for a commit; only a
\* deletion takes an entry out; a run that read every page, whose batches were
\* answered in full and that had no other run beside it ends with every commit
\* listed or deleted.
THEOREM CommitsKept == Spec => CommitsAreKept
<1>1. Init => ChangelogInv
    BY ChangelogBegins DEF Init
<1>2. ASSUME ChangelogInv, [Next]_Vars
      PROVE  /\ ChangelogInv'
             /\ C!TypeOK'
             /\ [ChangelogStep]_changelog
    <2>1. ChangelogInv' /\ [ChangelogStep]_changelog
        <3>1. CASE UNCHANGED changelog
            BY <1>2, <3>1, ChangelogRests
        <3>2. CASE C!Next
            BY <1>2, <3>2, ChangelogGoesOn DEF ChangelogStep
        <3> QED  BY <1>2, <3>1, <3>2 DEF Next, Vars
    <2>2. ChangelogInv' => C!TypeOK'
        BY DEF ChangelogInv, ChangelogTypes, Runs, C!TypeOK
    <2> QED  BY <2>1, <2>2
<1>3. ASSUME ChangelogInv, [Next]_Vars
      PROVE  /\ [C!TypeOK']_changelog
             /\ [\A c \in C!History : entries'[c] < entries[c] => c \in deleted']_C!cvars
             /\ [\A r \in Generations :
                   gen[r].pc \in {"fetching", "batch"} /\ gen'[r].pc = "idle" /\ ~doubt'[r] =>
                       \A c \in C!History : entries'[c] = 1 \/ c \in deleted]_C!cvars
    BY <1>2, <1>3 DEF ChangelogStep, changelog, C!cvars
<1>4. ChangelogInv /\ [Next]_Vars => ChangelogInv'
    BY <1>2
<1> QED  BY <1>1, <1>3, <1>4, PTL DEF Spec, Vars, CommitsAreKept, C!EntriesStay, C!CalmRunIsComplete

\* Queries: types; after each hop a neighbourhood is every node within so many
\* edges and every edge that begins or ends closer, and a flow has every node
\* the entry point calls within the depth, in whatever order the callees come.
THEOREM QueriesComplete == Spec => []QueriesAreComplete
<1>1. Init => QueryInv
    BY QueriesBegin DEF Init
<1>2. QueryInv /\ [Next]_Vars => QueryInv'
    BY QueriesStay, QueriesRest DEF Next, Vars
<1> QED  BY <1>1, <1>2, QueriesHold, PTL DEF Spec, Vars
=============================================================================
