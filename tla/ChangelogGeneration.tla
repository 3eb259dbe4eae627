------------------------ MODULE ChangelogGeneration -------------------------
(***************************************************************************)
(* The changelog of one product. A run reads the whole commit history,     *)
(* drops the commits that are in the changelog already, and lets the model *)
(* group the others batch by batch, the oldest first; each batch is one    *)
(* transaction. A unique index keeps a commit in one entry. The progress   *)
(* field that says whether a run goes on is the documentation's as well.   *)
(***************************************************************************)
EXTENDS Naturals, FiniteSets

CONSTANTS
    NCommits,    \* commits at GitHub, 1 the oldest
    BatchSize,
    Generations  \* requests and the runs they start

VARIABLES
    stage,    \* docs_generation_progress: the changelog's stage, or whose it is
    entries,  \* how many entries name a commit, committed
    gen,      \* the runs
    deleted,  \* history: commits whose entry a user deleted
    doubt     \* history: what may leave a commit out of the changelog

cvars == <<stage, entries, gen, deleted, doubt>>

History == 1 .. NCommits
GenIdle == [pc |-> "idle", todo |-> {}, dead |-> FALSE]
Listed == {c \in History : entries[c] > 0}

\* Types; no commit is in two entries.
TypeOK ==
    /\ stage \in {"none", "docs", "starting", "fetching", "processing", "complete"}
    /\ entries \in [History -> 0 .. 1]
    /\ gen \in [Generations -> [pc: {"idle", "queued", "fetching", "batch"}, todo: SUBSET History,
                                dead: BOOLEAN]]
    /\ deleted \subseteq History /\ doubt \in [Generations -> BOOLEAN]

SetGen(r, g) == gen' = [gen EXCEPT ![r] = g]

-----------------------------------------------------------------------------
\* POST /changelog/products/{id}/generate: a run that says it fetches or
\* processes keeps another from starting; one that is queued does not.
GenerateChangelog(r) ==
    /\ gen[r].pc = "idle"
    /\ stage \notin {"fetching", "processing"}
    /\ stage' = "starting"
    /\ SetGen(r, [GenIdle EXCEPT !.pc = "queued"])
    /\ doubt' = [s \in Generations |-> IF s = r THEN \E g \in Generations \ {r} : gen[g].pc # "idle"
                                       ELSE gen[s].pc # "idle" \/ doubt[s]]
    /\ UNCHANGED <<entries, deleted>>

\* The product or its repositories are gone: the run ends without a word.
NothingToDo(r) ==
    /\ gen[r].pc = "queued"
    /\ SetGen(r, GenIdle)
    /\ doubt' = [doubt EXCEPT ![r] = TRUE]
    /\ UNCHANGED <<stage, entries, deleted>>

StartFetching(r) ==
    /\ gen[r].pc = "queued"
    /\ stage' = "fetching"
    /\ SetGen(r, [gen[r] EXCEPT !.pc = "fetching"])
    /\ UNCHANGED <<entries, deleted, doubt>>

\* Wrong variant: only what is newer than the changelog is looked at.
Unprocessed_Newer(found) == {c \in found : \A d \in Listed : d < c}

Unprocessed(found) == found \ Listed

\* A page that cannot be read ends a repository's history there: newer
\* commits are found, older ones are not.
FetchAllCommits(r) ==
    /\ gen[r].pc = "fetching"
    /\ \E oldest \in 1 .. NCommits + 1 :
         LET new == Unprocessed(oldest .. NCommits) IN
         /\ SetGen(r, IF new = {} THEN GenIdle ELSE [gen[r] EXCEPT !.pc = "batch", !.todo = new])
         /\ stage' = IF new = {} THEN "complete" ELSE "processing"
         /\ doubt' = [doubt EXCEPT ![r] = @ \/ oldest > 1]
    /\ UNCHANGED <<entries, deleted>>

\* The oldest commits to do.
Batch(todo) == {c \in todo : Cardinality({d \in todo : d < c}) < BatchSize}

\* Wrong variant: nothing keeps a commit in one entry.
Unique_Unchecked(shas) == TRUE

\* The unique index on commit and repository.
Unique(shas) == \A c \in shas : entries[c] = 0

Proceed(r, dead) ==
    LET rest == gen[r].todo \ Batch(gen[r].todo) IN
    /\ SetGen(r, IF rest = {} THEN GenIdle ELSE [gen[r] EXCEPT !.todo = rest, !.dead = dead])
    /\ stage' = IF rest = {} THEN "complete" ELSE "processing"

\* The model named each commit at most once; it may have left some out.
ProcessBatch(r) ==
    /\ gen[r].pc = "batch" /\ ~gen[r].dead
    /\ \E shas \in SUBSET Batch(gen[r].todo) :
         /\ Unique(shas)
         /\ entries' = [c \in History |-> IF c \in shas THEN entries[c] + 1 ELSE entries[c]]
         /\ doubt' = [doubt EXCEPT ![r] = @ \/ shas # Batch(gen[r].todo)]
    /\ Proceed(r, FALSE)
    /\ UNCHANGED deleted

\* The call of the model fails: nothing was written, the next batch goes on.
ModelFails(r) ==
    /\ gen[r].pc = "batch"
    /\ Proceed(r, gen[r].dead)
    /\ doubt' = [doubt EXCEPT ![r] = TRUE]
    /\ UNCHANGED <<entries, deleted>>

\* The database refuses a write: a commit named twice, or listed meanwhile.
\* Nobody rolls the session back, so it refuses all later ones too.
WriteFails(r) ==
    /\ gen[r].pc = "batch"
    /\ Proceed(r, TRUE)
    /\ doubt' = [doubt EXCEPT ![r] = TRUE]
    /\ UNCHANGED <<entries, deleted>>

\* Reading what is listed fails: the run clears the progress it found to be
\* its own when it began, and is over.
GenerationFails(r) ==
    /\ gen[r].pc \in {"queued", "fetching"}
    /\ stage' \in {"none", stage}
    /\ SetGen(r, GenIdle)
    /\ doubt' = [doubt EXCEPT ![r] = TRUE]
    /\ UNCHANGED <<entries, deleted>>

Restart ==
    /\ \E r \in Generations : gen[r].pc # "idle"
    /\ gen' = [r \in Generations |-> GenIdle]
    /\ doubt' = [r \in Generations |-> TRUE]
    /\ UNCHANGED <<stage, entries, deleted>>

\* A user deletes an entry, its commits with it.
DeleteEntry ==
    /\ \E c \in Listed :
         /\ entries' = [entries EXCEPT ![c] = 0]
         /\ deleted' = deleted \union {c}
    /\ UNCHANGED <<stage, gen, doubt>>

\* The documentation writes its own progress to the field, or clears it.
DocsProgress ==
    /\ stage' \in {"docs", "none"} \ {stage}
    /\ UNCHANGED <<entries, gen, deleted, doubt>>

-----------------------------------------------------------------------------
Init ==
    /\ stage = "none"
    /\ entries = [c \in History |-> 0]
    /\ gen = [r \in Generations |-> GenIdle]
    /\ deleted = {} /\ doubt = [r \in Generations |-> FALSE]

Step(r) == NothingToDo(r) \/ StartFetching(r) \/ FetchAllCommits(r) \/ ProcessBatch(r)

Next ==
    \/ \E r \in Generations :
         GenerateChangelog(r) \/ Step(r) \/ ModelFails(r) \/ WriteFails(r) \/ GenerationFails(r)
    \/ Restart \/ DeleteEntry \/ DocsProgress

Spec == Init /\ [][Next]_cvars

-----------------------------------------------------------------------------
\* A run that ends with every page read, every batch answered in full and no
\* other run beside it has every commit in the changelog, but for those whose
\* entries were deleted.
CalmRunIsComplete ==
    [][\A r \in Generations :
         gen[r].pc \in {"fetching", "batch"} /\ gen'[r].pc = "idle" /\ ~doubt'[r] =>
             \A c \in History : entries'[c] = 1 \/ c \in deleted]_cvars

\* What is in the changelog stays there, whichever run fails.
EntriesStay ==
    [][\A c \in History : entries'[c] < entries[c] => c \in deleted']_cvars

\* What one would expect, and does not hold: a batch that the
\* database refuses costs the run that batch only.
LaterBatchesGoOn == \A r \in Generations : ~gen[r].dead

\* What one would expect, and does not hold: a changelog that is
\* said to be generated is so by a run (a crash leaves the word behind).
ProcessingHasRun ==
    stage \in {"fetching", "processing"} => \E r \in Generations : gen[r].pc \in {"fetching", "batch"}
=============================================================================
