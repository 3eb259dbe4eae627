------------------------- MODULE ProgressSummaries --------------------------
(***************************************************************************)
(* The stored narrative of what happened to one product in the last days   *)
(* (progress_summary). The daily job regenerates it when it sees a newer   *)
(* commit than the stored last_activity_at; members generate it by hand.   *)
(* Both read the product's repositories at GitHub and write later.         *)
(***************************************************************************)
EXTENDS Naturals, FiniteSets

CONSTANTS
    Repos,      \* the product's repositories
    Runs,       \* runs in flight: of the job and of members
    MaxTime,    \* bound: the clock
    Window,     \* the period, in clock steps
    Unreliable  \* whether reading a repository may fail

VARIABLES
    now,        \* the clock
    newest,     \* GitHub: the date of each repository's newest commit, 0 if none
    summary,    \* the narrative's row
    run,        \* runs in flight
    byHand      \* history: a member has generated the narrative

vars == <<now, newest, summary, run, byHand>>

Time == 0 .. MaxTime
Absent == [there |-> FALSE, seen |-> [x \in Repos |-> 0], last |-> 0]
Row == [there: BOOLEAN, seen: [Repos -> Time], last: Time]
Idle == [op |-> "none"]
IsLatest(t, f) == (\E x \in Repos : f[x] = t) /\ \A x \in Repos : f[x] <= t

\* Types; a row that is there was written by a run that saw a commit.
TypeOK ==
    /\ now \in Time /\ newest \in [Repos -> Time]
    /\ \A x \in Repos : newest[x] <= now
    /\ summary \in Row
    /\ summary.last <= now
    /\ \A r \in Runs : run[r].op \in {"none", "auto", "narrate"}

\* Reading GitHub: a repository that fails is left out.
Fetched(ok) == [x \in Repos |-> IF x \in ok THEN newest[x] ELSE 0]
Reads == IF Unreliable THEN SUBSET Repos ELSE {Repos}
InPeriod(f) == \E x \in Repos : f[x] > 0 /\ f[x] + Window > now

\* Wrong variant: a narrative that is there is left alone.
News_First(latest) == ~summary.there

\* Whether the newest commit is newer than the last one seen.
News(latest) == ~summary.there \/ summary.last = 0 \/ latest > summary.last

-----------------------------------------------------------------------------
(* The daily job, product by product.                                      *)

CheckActivity(r) ==
    /\ run[r] = Idle
    /\ \E ok \in Reads, latest \in Time :
         /\ IsLatest(latest, Fetched(ok)) /\ latest > 0
         /\ News(latest)
         /\ run' = [run EXCEPT ![r] = [op |-> "auto", phase |-> "fetch", latest |-> latest]]
    /\ UNCHANGED <<now, newest, summary, byHand>>

FetchCommits(r) ==
    /\ run[r].op = "auto" /\ run[r].phase = "fetch"
    /\ \E ok \in Reads :
         LET got == Fetched(ok) IN
         \/ /\ InPeriod(got)
            /\ run' = [run EXCEPT ![r] =
                         [op |-> "auto", phase |-> "write", latest |-> run[r].latest, got |-> got]]
            /\ UNCHANGED summary
         \/ /\ ~InPeriod(got)
            /\ summary' = IF summary.there THEN [summary EXCEPT !.last = run[r].latest] ELSE summary
            /\ run' = [run EXCEPT ![r] = Idle]
    /\ UNCHANGED <<now, newest, byHand>>

\* Wrong variant: the row is dated by the clock.
Generated_Now(r) == [there |-> TRUE, seen |-> run[r].got, last |-> now]

Generated(r) == [there |-> TRUE, seen |-> run[r].got, last |-> run[r].latest]

\* The model may fail for the narrative; the summary of what shipped, which
\* is made beside it, does not matter to it.
WriteSummary(r) ==
    /\ run[r].op = "auto" /\ run[r].phase = "write"
    /\ summary' \in {summary, Generated(r)}
    /\ run' = [run EXCEPT ![r] = Idle]
    /\ UNCHANGED <<now, newest, byHand>>

-----------------------------------------------------------------------------
(* Members.                                                                *)

\* The narrative, for some of the repositories.
BeginAiSummary(r) ==
    /\ run[r] = Idle
    /\ \E ok \in SUBSET Repos :
         /\ InPeriod(Fetched(ok))
         /\ run' = [run EXCEPT ![r] = [op |-> "narrate", got |-> Fetched(ok)]]
    /\ UNCHANGED <<now, newest, summary, byHand>>

GenerateAiSummary(r) ==
    /\ run[r].op = "narrate"
    /\ summary' = [there |-> TRUE, seen |-> run[r].got, last |-> now]
    /\ byHand' = TRUE
    /\ run' = [run EXCEPT ![r] = Idle]
    /\ UNCHANGED <<now, newest>>

\* A timeout, a failing model call of a member's request, a crash.
GiveUp(r) ==
    /\ run[r] # Idle
    /\ run' = [run EXCEPT ![r] = Idle]
    /\ UNCHANGED <<now, newest, summary, byHand>>

Push(x) ==
    /\ now < MaxTime
    /\ now' = now + 1
    /\ newest' = [newest EXCEPT ![x] = now + 1]
    /\ UNCHANGED <<summary, run, byHand>>

TimePasses ==
    /\ now < MaxTime
    /\ now' = now + 1
    /\ UNCHANGED <<newest, summary, run, byHand>>

-----------------------------------------------------------------------------
Init ==
    /\ now = 0 /\ newest = [x \in Repos |-> 0]
    /\ summary = Absent
    /\ run = [r \in Runs |-> Idle]
    /\ byHand = FALSE

Auto(r) == CheckActivity(r) \/ FetchCommits(r) \/ WriteSummary(r)
ByHand(r) == BeginAiSummary(r) \/ GenerateAiSummary(r)

Next ==
    \/ \E r \in Runs : Auto(r) \/ ByHand(r) \/ GiveUp(r)
    \/ \E x \in Repos : Push(x)
    \/ TimePasses

Spec == Init /\ [][Next]_vars

\* Requests end, the job runs every day, and the model does not fail for ever.
Fairness ==
    \A r \in Runs :
      /\ WF_vars(GiveUp(r) /\ run[r].op # "auto")
      /\ SF_vars(CheckActivity(r))
      /\ SF_vars(FetchCommits(r))
      /\ SF_vars(WriteSummary(r) /\ summary' = Generated(r))

-----------------------------------------------------------------------------
\* A commit that is older than the period has no place in the text any more, and
\* its date is stored all the same.
Covers(row) ==
    \A x \in Repos :
      newest[x] <= row.last /\ newest[x] + Window > now => row.seen[x] = newest[x]

\* Whatever the job and the dashboard interleave: the date that keeps the job
\* from looking again is only stored with a text that knows the period's commits
\* up to it, as long as no repository fails and no member generates the narrative.
SeenIsCovered == ~byHand /\ summary.there => Covers(summary)

\* What one would expect, and does not hold: the same with members,
\* that no commit is skipped because the row is dated later.
NothingIsSkipped == summary.there => Covers(summary)

\* Once nobody pushes any more, a narrative is there that knows every commit
\* of the period, unless a member generated one.
NarrativeCatchesUp ==
    <>[](InPeriod(newest) => summary.there /\ summary.seen = newest) \/ <>byHand
=============================================================================
