----------------------------- MODULE MCProgress -----------------------------
(***************************************************************************)
(* The background jobs, the dashboard, the pages of activity and the       *)
(* agent's chat, which share no state: a run checks those it lists, and an *)
(* initial state picks the part that goes on.                              *)
(***************************************************************************)
EXTENDS Integers, FiniteSets, Sequences, TLC

CONSTANTS
    Parts,   \* of "digests", "summaries", "dashboard", "activity", "chat"
    Jobs, Instances, Prefs, Day, LastHour, MaxManual, MaxCrashes,
    Repos, SummaryRuns, MaxTime, Window, Unreliable,
    Users, Orgs, Fresh, MaxClock,
    Rows, ProductOf, Upstream, Authors, Members, Username, Fold, Touched,
    Period, Extended, DayLen, FirstTime, LastTime, Page, MaxCommits,
    Readers, ChatRepos, Caches, Reach, Rounds, LiveTime, KeptTime

\* Hours begin at 0; "nobody" is no process and no preference; a row of the
\* dashboard is served for some time, and only as long as it is young.
ASSUME ProgressConstants ==
    /\ LastHour \in Nat /\ Day \in Nat \ {0}
    /\ "nobody" \notin Instances \union Prefs
    /\ MaxTime \in Nat /\ Window \in Nat
    /\ Fresh \in Nat \ {0} /\ MaxClock \in Nat

\* The longer period is longer. No two members have one name on GitHub. A file
\* has a name.
ASSUME ActivityConstants ==
    /\ IsFiniteSet(Rows)
    /\ \A m, n \in Members : Username[m] = Username[n] => m = n
    /\ \A a \in Authors : IsFiniteSet(Touched[a]) /\ Touched[a] \subseteq Seq(STRING) \ {<<>>}
    /\ Period \in Nat \ {0} /\ Extended \in Nat /\ Extended >= Period
    /\ DayLen \in Nat \ {0} /\ LastTime \in Nat /\ FirstTime \in 0 .. LastTime
    /\ Page \in Nat /\ MaxCommits \in Nat

\* The caches kept per product are not that of live activity, and no cache; an
\* entry lives for a time.
ASSUME ChatConstants ==
    /\ "live" \notin Caches /\ "none" \notin Caches
    /\ Reach \in Nat /\ Rounds \in Nat
    /\ LiveTime \in Nat \ {0} /\ KeptTime \in Nat \ {0}

VARIABLES
    part,
    hour, pref, lock, fired, batch, crashes, manual, started, mails,
    now, newest, summary, run, byHand,
    clock, commits, cache, call, answer,
    time, pushed, ask,
    connected, graph, live, kept, bare, turn

digests == <<hour, pref, lock, fired, batch, crashes, manual, started, mails>>
summaries == <<now, newest, summary, run, byHand>>
dashboard == <<clock, commits, cache, call, answer>>
activity == <<time, pushed, ask>>
agentChat == <<connected, graph, live, kept, bare, turn>>

D == INSTANCE Digests
S == INSTANCE ProgressSummaries WITH Runs <- SummaryRuns
B == INSTANCE DashboardCache
Act == INSTANCE ActivityStats WITH MaxTime <- LastTime, now <- time
Chat == INSTANCE AgentChat WITH Repos <- ChatRepos, Kinds <- Caches

\* Two products, which share the repository g2, and two spellings of a name, of
\* whom one member has the second.
TwoProducts == [r \in Rows |-> IF r = "r3" THEN "p2" ELSE "p1"]
Shared == [r \in Rows |-> IF r = "r1" THEN "g1" ELSE "g2"]
LowerCase == [a \in Authors |-> "ann"]
OneIsKnown == [m \in Members |-> IF m = "m1" THEN "ann" ELSE "bob"]
ThreeFiles == [a \in Authors |-> IF a = "Ann" THEN {<<"s", "a">>, <<"s", "d", "b">>}
                                              ELSE {<<"s", "d", "b">>, <<"r">>}]

Init == part \in Parts /\ D!Init /\ S!Init /\ B!Init /\ Act!Init /\ Chat!Init

Next ==
    /\ UNCHANGED part
    /\ \/ part = "digests" /\ D!Next /\ UNCHANGED <<summaries, dashboard, activity, agentChat>>
       \/ part = "summaries" /\ S!Next /\ UNCHANGED <<digests, dashboard, activity, agentChat>>
       \/ part = "dashboard" /\ B!Next /\ UNCHANGED <<digests, summaries, activity, agentChat>>
       \/ part = "activity" /\ Act!Next /\ UNCHANGED <<digests, summaries, dashboard, agentChat>>
       \/ part = "chat" /\ Chat!Next /\ UNCHANGED <<digests, summaries, dashboard, activity>>

Spec ==
    /\ Init /\ [][Next]_<<part, digests, summaries, dashboard, activity, agentChat>>
    /\ D!Fairness /\ S!Fairness

-----------------------------------------------------------------------------
\* Digests: types; an hour's batches send a preference at most one mail each.
MailsBoundedByBatches == part = "digests" => D!TypeOK /\ D!MailsBoundedByBatches

\* Summaries: types; last_activity_at is stored with a text that knows the
\* period's commits up to it.
SeenIsCovered == part = "summaries" => S!TypeOK /\ S!SeenIsCovered

\* Dashboard: types; answers are as recent and complete as the row allows.
AnswersAreRecent == part = "dashboard" => B!TypeOK /\ B!AnswersAreRecent

\* Activity: types; two views of an undisturbed period agree on totals, on what
\* came before and on what falls out, and streaks, members and directories add
\* up from the same commits.
PagesAgree ==
    part = "activity" =>
        /\ Act!TypeOK /\ Act!PreviousIsOlder /\ Act!CalmViewsAgree /\ Act!UncountedAreOld
        /\ Act!StreaksAgree /\ Act!MembersAreListed /\ Act!DirectoriesAddUp

\* Chat: types; what a user's turn shows of GitHub right now is what the user
\* may read, the tools reach no code of another product, and what is missing
\* from a context for others' sake is missing briefly.
TurnsStayInside == part = "chat" => Chat!TypeOK /\ Chat!LiveIsOwn /\ Chat!ToolsStayInside

ChatStaysInside == []TurnsStayInside /\ Chat!MissingIsRecent

\* Digests and summaries: a job's lock is given back whatever fails, and the
\* job's narrative catches up with the pushes.
BackgroundJobsGoOn == D!LocksAreReleased /\ S!NarrativeCatchesUp

\* The chat's repositories are alike.
Symmetry == Permutations(ChatRepos)
=============================================================================
