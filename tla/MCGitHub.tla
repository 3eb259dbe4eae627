------------------------------ MODULE MCGitHub ------------------------------
(***************************************************************************)
(* What the program keeps of GitHub: the installations of its app, the     *)
(* repositories of the products and the commit timeline. The parts share   *)
(* no state; a run checks those it lists, and an initial state picks the   *)
(* part that goes on. The repositories are looked at twice: by two         *)
(* overlapping requests while GitHub is quiet, by one while it changes.    *)
(***************************************************************************)
EXTENDS Naturals

CONSTANTS
    Parts,   \* of "installations", "overlap", "change", "timeline"
    Installs, Orgs, AppRepos, Admins, MaxNews, MaxHooks, NoOrg,
    Products, Gids, Names, OtherNames, OneRequest, OtherRequests,
    BaseLimit, MaxRows, NoGid, NoName, NoProduct,
    NRepos, Limit, MaxCommits, MaxClock

\* The value that stands for no organization is none.
ASSUME GitHubConstants == NoOrg \notin Orgs

\* Nor are those for no repository and no name; every repository has a name of
\* its own to begin with.
ASSUME RepositoryConstants ==
    /\ NoGid \notin Gids /\ NoName \notin Names \cup OtherNames
    /\ MaxRows \in Nat /\ BaseLimit \in Nat
    /\ \E f \in [Gids -> Names] : \A g, h \in Gids : f[g] = f[h] => g = h

\* Repositories, commits and times are counted, and a page has an event at least.
ASSUME TimelineConstants ==
    /\ NRepos \in Nat /\ Limit \in Nat \ {0}
    /\ MaxCommits \in Nat /\ MaxClock \in Nat

VARIABLES
    part,
    gh, installed, hooks, link, cached, behind, raced, news,
    names, meta, left, cache, rows, lastId, call, billed, strayed,
    log, clock, cursor, shown, fixed, ended

installations == <<gh, installed, hooks, link, cached, behind, raced, news>>
repositories == <<names, meta, left, cache, rows, lastId, call, billed, strayed>>
timeline == <<log, clock, cursor, shown, fixed, ended>>

I == INSTANCE GitHubInstallations WITH rows <- installed, Repos <- AppRepos
Overlap == INSTANCE Repositories WITH
    Requests <- OneRequest \cup OtherRequests, MaxRenames <- 0, MaxMeta <- 0
Change == INSTANCE Repositories WITH
    Requests <- OneRequest, Names <- Names \cup OtherNames, MaxRenames <- 1, MaxMeta <- 1
T == INSTANCE Timeline

Init ==
    /\ part \in Parts /\ I!Init /\ T!Init
    /\ IF part = "change" THEN Change!Init ELSE Overlap!Init

Next ==
    /\ UNCHANGED part
    /\ \/ part = "installations" /\ I!Next /\ UNCHANGED <<repositories, timeline>>
       \/ part = "overlap" /\ Overlap!Next /\ UNCHANGED <<installations, timeline>>
       \/ part = "change" /\ Change!Next /\ UNCHANGED <<installations, timeline>>
       \/ part = "timeline" /\ T!Next /\ UNCHANGED <<installations, repositories>>

Spec == Init /\ [][Next]_<<part, installations, repositories, timeline>>

-----------------------------------------------------------------------------
\* Installations: types; an organization gets two rows only by racing
\* requests, with nothing on its way a row says what GitHub says, and a token
\* comes from an installation that can be used.
InstallationsFollowGitHub ==
    part = "installations" =>
        I!TypeOK /\ I!TwoInstallationsNeedARace /\ I!CalmRowsFollowGitHub /\ I!CalmAnswersWork

\* Repositories: types; no product has a repository twice without an overlap,
\* and the overage reported is then the overage there is.
RepositoriesAreCounted ==
    /\ part = "change" => Change!TypeOK
    /\ part = "overlap" =>
          Overlap!TypeOK /\ Overlap!TwinsNeedAnOverlap /\ Overlap!CalmOverageIsBilled

\* Repositories: an undisturbed refresh leaves what GitHub has.
CalmRefreshIsCurrent ==
    [][part = "change" => \A r \in OneRequest : Change!CurrentAfter(r)]_repositories

\* Timeline: types; pages neither overlap nor leave a fetched commit out.
PagesPartition == part = "timeline" => T!TypeOK /\ T!PagesPartition

\* Repositories: a refresh follows a renaming.
RefreshFollowsRename ==
    [][part = "change" => \A r \in OneRequest : \A w \in call[r].todo :
                            Change!Followed(r, w)]_repositories
=============================================================================
