---------------------------- MODULE ActivityStats ---------------------------
(***************************************************************************)
(* The statistics of commits shown for a product and for the team of an    *)
(* organization.  Nothing is stored: a request reads the newest commits of *)
(* the product's repositories from GitHub, drops those older than the      *)
(* period, and counts.  A summary reads twice, for the period and for a    *)
(* longer one it is compared with; velocity reads once and splits; the     *)
(* team's activity reads every product.  A read may fail for some          *)
(* repositories, whose commits are then missing, and between the reads     *)
(* people push and time passes.                                            *)
(*                                                                         *)
(* The period goes back Period days from now to the second; charts have    *)
(* one bar for each of the last Period dates.                              *)
(***************************************************************************)
EXTENDS Integers, FiniteSets, FiniteSetsExt, Sequences, SequencesExt

CONSTANTS
    Rows,                \* repositories of products; two rows may be one on GitHub
    ProductOf, Upstream, \* [Rows -> ...]
    Authors,             \* names in commits
    Members, Username,   \* [Members -> GitHub names in lower case]
    Fold,                \* Fold[a]: the name in lower case
    Touched,             \* Touched[a]: the files of a's commits, as sequences of names
    Period, Extended,    \* days
    DayLen,
    FirstTime, MaxTime,  \* the time looked at; commits may be older
    Page,                \* commits of a repository GitHub answers with
    MaxCommits

VARIABLES now, pushed, ask

vars == <<now, pushed, ask>>

Products == {ProductOf[r] : r \in Rows}
Commits == [id: 1 .. MaxCommits, in: {Upstream[r] : r \in Rows}, by: Authors, at: 0 .. MaxTime]
DayOf(t) == t \div DayLen
Idle == [pc |-> "idle"]

TypeOK ==
    /\ now \in 0 .. MaxTime /\ pushed \subseteq Commits
    /\ \A c, d \in pushed : c.id = d.id => c = d
    /\ ask.pc \in {"idle", "asked", "first", "more", "read", "answered"}
    /\ ask # Idle => \A e \in ask.events : e.row \in Rows /\ e.commit \in Commits

-----------------------------------------------------------------------------
(* Reading.                                                                *)

After(c, d) == c.at > d.at \/ (c.at = d.at /\ c.id > d.id)

\* The first page of a repository's commits.
Newest(g) ==
    LET all == {c \in pushed : c.in = g}
    IN  {c \in all : Cardinality({d \in all : After(d, c)}) < Page}

Start(days) == now - days * DayLen

RowsOf(p) == {r \in Rows : ProductOf[r] = p}

Fetched(p, failed, since) ==
    {e \in [row: RowsOf(p) \ failed, commit: pushed] :
        e.commit \in Newest(Upstream[e.row]) /\ e.commit.at >= since}

-----------------------------------------------------------------------------
(* Counting.                                                               *)

\* Wrong variant: one bar too few.
Dates_Short(today) == today - Period + 2 .. today

Dates(today) == today - Period + 1 .. today

On(events, d) == {e \in events : DayOf(e.commit.at) = d}
By(events, a) == {e \in events : e.commit.by = a}

Daily(events, today) == [d \in Dates(today) |-> Cardinality(On(events, d))]

\* A sum: as many as there are places below the values.
Total(c) == Cardinality(UNION {{d} \X (1 .. c[d]) : d \in DOMAIN c})

Shown(daily) == Total(daily)

\* Days with commits in a row, back from d.
RunTo(daily, d) ==
    Max({n \in 0 .. Period : \A i \in 0 .. n - 1 : d - i \in DOMAIN daily /\ daily[d - i] > 0})

\* The streak of a product's team, and that of a member.
TeamStreak(daily, today) == RunTo(daily, today)

\* Wrong variant: the streak goes on from yesterday only.
MemberStreak_Past(daily, today) == RunTo(daily, today - 1)

MemberStreak(daily, today) ==
    IF daily[today] > 0 THEN RunTo(daily, today) ELSE RunTo(daily, today - 1)

\* Wrong variant: all commits of the longer period.
Previous_All(more, events) == more

Previous(more, events) == {e \in more : \A f \in events : f.commit.id # e.commit.id}

\* More than 10 % up or down from the commits before.
Label(n, before) ==
    IF before = 0 THEN IF n = 0 THEN "steady" ELSE "faster"
    ELSE IF 10 * n > 11 * before THEN "faster"
    ELSE IF 10 * n < 9 * before THEN "slower" ELSE "steady"

\* Wrong variant: the first moment of the period belongs to the one before.
Current_Late(events, since) == {e \in events : e.commit.at > since}

Current(events, since) == {e \in events : e.commit.at >= since}

\* Said from 5 % on, and only if there were commits before.
Trend(n, before) ==
    IF before = 0 THEN "none"
    ELSE IF 20 * (n - before) >= before THEN "up"
    ELSE IF 20 * (before - n) >= before THEN "down" ELSE "none"

Peak(daily) == Min({d \in DOMAIN daily : \A c \in DOMAIN daily : daily[c] <= daily[d]})

\* Days a leaderboard or a comparison of repositories counts as active.
ActiveDays(events) == {DayOf(e.commit.at) : e \in events}

\* Wrong variant: the directory a file is in is left out.
Above_Grand(f) == {SubSeq(f, 1, n) : n \in 1 .. Len(f) - 2}

Above(f) == {SubSeq(f, 1, n) : n \in 1 .. Len(f) - 1}

\* The files of a commit, under the name of its repository.
Paths(e) == {<<e.row>> \o f : f \in Touched[e.commit.by]}

FileCommits(events, f) == Cardinality({e \in events : f \in Paths(e)})
Files(events) == UNION {Paths(e) : e \in events}
Directories(events) == UNION {Above(f) : f \in Files(events)}
DirCommits(events, d) ==
    Total([f \in {g \in Files(events) : d \in Above(g)} |-> FileCommits(events, f)])

\* Wrong variant: letter by letter.
Match_Exact(a) == {m \in Members : Username[m] = a}

Match(a) == {m \in Members : Username[m] = Fold[a]}

\* The list of the team: authors, as members if they are, and idle members.
Listed(events) ==
    LET authors == {e.commit.by : e \in events}
        known == {a \in authors : Match(a) # {}}
    IN  [name: authors \ known, member: {{}}]
          \union {[name |-> a, member |-> {CHOOSE m \in Match(a) : TRUE}] : a \in known}
          \union {[name |-> "", member |-> {m}] : m \in {n \in Members : \A a \in known : n \notin Match(a)}}

-----------------------------------------------------------------------------
(* The world.                                                              *)

\* A commit may be pushed long after it was made.
Push(g, a, t) ==
    /\ Cardinality(pushed) < MaxCommits /\ t <= now
    /\ pushed' = pushed \union {[id |-> Cardinality(pushed) + 1, in |-> g, by |-> a, at |-> t]}
    /\ UNCHANGED <<now, ask>>

Tick == now < MaxTime /\ now' = now + 1 /\ UNCHANGED <<pushed, ask>>

-----------------------------------------------------------------------------
(* Requests.                                                               *)

Asked(kind, of) ==
    [pc |-> "asked", kind |-> kind, of |-> of, since |-> Start(Period), longer |-> Start(Extended),
     events |-> {}, more |-> {}, failed |-> {}, known |-> {}, today |-> 0]

Ask(kind, p) ==
    /\ ask = Idle
    /\ ask' = Asked(kind, {p})
    /\ UNCHANGED <<now, pushed>>

\* A summary reads the period, and a page of contributors, of ranks or of active
\* code reads nothing else; without commits they are empty.
ReadPeriod(p, failed) ==
    /\ ask.pc = "asked" /\ ask.kind \in {"summary", "page"} /\ p \in ask.of
    /\ LET events == Fetched(p, failed, ask.since) IN
          ask' = IF events = {} THEN Idle
                 ELSE [ask EXCEPT !.pc = IF ask.kind = "page" THEN "read" ELSE "first",
                                  !.events = events, !.failed = failed, !.known = pushed]
    /\ UNCHANGED <<now, pushed>>

AskMore ==
    /\ ask.pc = "first"
    /\ ask' = [ask EXCEPT !.pc = "more", !.longer = Start(Extended)]
    /\ UNCHANGED <<now, pushed>>

ReadMore(p, failed) ==
    /\ ask.pc = "more" /\ p \in ask.of
    /\ ask' = [ask EXCEPT !.pc = "answered", !.more = Fetched(p, failed, ask.longer), !.today = DayOf(now)]
    /\ UNCHANGED <<now, pushed>>

\* Velocity reads the longer period at once.
ReadBoth(p, failed) ==
    /\ ask.pc = "asked" /\ ask.kind = "velocity" /\ p \in ask.of
    /\ LET all == Fetched(p, failed, ask.longer) IN
          ask' = IF all = {} THEN Idle
                 ELSE [ask EXCEPT !.pc = "read", !.events = Current(all, ask.since),
                                  !.more = all \ Current(all, ask.since)]
    /\ UNCHANGED <<now, pushed>>

\* The team's activity reads the products one beside the other in one session
\* of the database, so that all of a product may be missing, too.
AskTeam ==
    /\ ask = Idle
    /\ ask' = Asked("team", Products)
    /\ UNCHANGED <<now, pushed>>

ReadProduct(p, failed) ==
    /\ ask.pc = "asked" /\ ask.kind = "team" /\ p \in ask.of
    /\ ask' = [ask EXCEPT !.of = @ \ {p}, !.events = @ \union Fetched(p, failed, Start(Period)),
                          !.pc = IF ask.of = {p} THEN "read" ELSE @]
    /\ UNCHANGED <<now, pushed>>

Answer ==
    /\ ask.pc = "read"
    /\ ask' = [ask EXCEPT !.pc = "answered", !.today = DayOf(now)]
    /\ UNCHANGED <<now, pushed>>

End == ask.pc = "answered" /\ ask' = Idle /\ UNCHANGED <<now, pushed>>

Init == now = FirstTime /\ pushed = {} /\ ask = Idle

Next ==
    \/ \E r \in Rows, a \in Authors, t \in 0 .. MaxTime : Push(Upstream[r], a, t)
    \/ \E p \in Products :
          \/ \E kind \in {"summary", "velocity", "page"} : Ask(kind, p)
          \/ \E failed \in SUBSET RowsOf(p) : \/ ReadPeriod(p, failed) \/ ReadMore(p, failed)
                                             \/ ReadBoth(p, failed) \/ ReadProduct(p, failed)
    \/ AskMore \/ AskTeam \/ Answer \/ End \/ Tick

Spec == Init /\ [][Next]_vars

-----------------------------------------------------------------------------
Answered(kind) == ask.pc = "answered" /\ ask.kind = kind

\* A commit of the period is counted among those before it only if it was pushed
\* between the two reads of a summary, or if the first of them failed for its
\* repository: the two reads are never compared as two disjoint periods.
PreviousIsOlder ==
    Answered("summary") =>
        \A e \in Previous(ask.more, ask.events) :
            \/ e.commit.at < ask.since
            \/ e.commit \notin ask.known
            \/ e.row \in ask.failed

\* Read at the same moment and with all repositories answering, a summary and
\* velocity split the same commits in the same way, although one subtracts
\* identities and the other compares times, and they say the same of the trend.
CalmViewsAgree ==
    ask = Idle => \A p \in Products :
        LET events == Fetched(p, {}, Start(Period))
            all == Fetched(p, {}, Start(Extended))
            before == Previous(all, events)
            n == Cardinality(events)
            b == Cardinality(before)
        IN  /\ Current(all, Start(Period)) = events
            /\ b > 0 /\ Label(n, b) = "faster" => Trend(n, b) = "up"
            /\ b > 0 /\ Label(n, b) = "slower" => Trend(n, b) = "down"

\* What a total counts and no bar shows is older than the first bar; unless a
\* midnight passed during the request it is of the day the period begins in.
\* So there is at most one more active day than the period has days.
UncountedAreOld ==
    ask.pc = "answered" =>
        LET old == {e \in ask.events : DayOf(e.commit.at) \notin Dates(ask.today)}
            atOnce == DayOf(ask.since) + Period = ask.today
        IN  /\ Shown(Daily(ask.events, ask.today)) + Cardinality(old) = Cardinality(ask.events)
            /\ ask.kind # "team" /\ atOnce =>
                  /\ \A e \in old : DayOf(e.commit.at) = DayOf(ask.since)
                  /\ Cardinality(ActiveDays(ask.events)) <= Period + 1

\* If the team's streak goes on today, it is at least that of each member; a
\* member's goes on from yesterday, too, and is no longer than the run of days
\* on which anybody committed.
StreaksAgree ==
    ask.pc = "answered" =>
        LET daily == Daily(ask.events, ask.today)
            own(a) == Daily(By(ask.events, a), ask.today)
        IN  /\ TeamStreak(daily, ask.today) > 0 =>
                  TeamStreak(daily, ask.today) = MemberStreak(daily, ask.today)
            /\ \A a \in Authors :
                  MemberStreak(own(a), ask.today) <= MemberStreak(daily, ask.today)
            /\ Shown(daily) > 0 => daily[Peak(daily)] > 0

\* Every member is in the team's list, once unless commits spell his name in two
\* ways, and he is idle only if no commit bears his name.
MembersAreListed ==
    Answered("team") =>
        \A m \in Members :
            LET mine == {x \in Listed(ask.events) : m \in x.member}
                names == {e.commit.by : e \in ask.events}
                spelled == {a \in names : Fold[a] = Username[m]}
            IN  IF spelled = {} THEN mine = {[name |-> "", member |-> {m}]}
                ELSE Cardinality(mine) = Cardinality(spelled)

\* On the page of active code each change of a file is counted once under its
\* repository, and a directory counts what is counted in those below it.
DirectoriesAddUp ==
    Answered("page") =>
        LET E == ask.events
            tops == {d \in Directories(E) : Len(d) = 1}
            below(d) == {c \in Directories(E) : Len(c) = Len(d) + 1 /\ Front(c) = d}
        IN  /\ Total([d \in tops |-> DirCommits(E, d)]) = Total([f \in Files(E) |-> FileCommits(E, f)])
            /\ \A d \in Directories(E) :
                  DirCommits(E, d) >= Total([c \in below(d) |-> DirCommits(E, c)])

\* What one would expect of a team's activity, and does not hold: a commit of a
\* repository that two products have is counted twice.
CommitsCountOnce ==
    Answered("team") =>
        \A e, f \in ask.events : e.commit = f.commit => e = f

\* What "active days" would mean, and is not: no more than the days of the period.
ActiveDaysFit == ask.pc = "answered" => Cardinality(ActiveDays(ask.events)) <= Period
=============================================================================
