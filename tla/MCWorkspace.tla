---------------------------- MODULE MCWorkspace -----------------------------
(***************************************************************************)
(* What the members of an organization keep under a product, and what is   *)
(* read of it: the sections its documents are filed in, its variables, the *)
(* tickets that come in through its public interface, the documents they   *)
(* order, as far as their limit is concerned, the texts about the team's   *)
(* work, and the interfaces for assistants and for partners.  The parts    *)
(* share no state; they are checked in one run, and an initial state picks *)
(* the part that goes on.                                                  *)
(***************************************************************************)
EXTENDS Naturals, FiniteSets, TLC

CONSTANTS
    Requests,
    Products, Docs, Defaults, Slugs, SectionIds, NoProduct, NoDoc, NoSlug,
    Users, Keys, EntryIds,
    ApiKeys, Titles, Window, Limit, MaxTime, MaxItems,
    Jobs, Handlers, NoUser,
    MaxWork, Warm, Expired, NoRow,
    McpKeys, Kinds, Types, PageSize, MaxThings, LastStep,
    PartnerProducts, FeedSize, MaxEntries, LastDay

\* The values that stand for nothing are none of the others, the defaults are
\* a finite list, rows are numbered, and windows, pages and ages are numbers.
ASSUME WorkspaceConstants ==
    /\ NoProduct \notin Products /\ NoUser \notin Users
    /\ IsFiniteSet(Defaults)
    /\ SectionIds \in Nat /\ EntryIds \in Nat
    /\ Window \in Nat \ {0} /\ Limit \in Nat /\ MaxTime \in Nat /\ MaxItems \in Nat
    /\ MaxWork \in Nat /\ Warm \in Nat \ {0} /\ Expired \in Nat /\ Warm < Expired
    /\ PageSize \in Nat \ {0} /\ MaxThings \in Nat /\ LastStep \in Nat
    /\ FeedSize \in Nat /\ MaxEntries \in Nat /\ LastDay \in Nat

VARIABLES
    part,
    full, sections, subs, place, filed, filing, crowded, listed,
    entries, turned, editing, mingled, entered,
    now, live, used, wrote, recent, counted, items, asking, unsaid, strayed,
    jobs, workers, requests,
    work, row, written, lock, task, request,
    keys, things, clock, walk,
    partners, products, published, stored, day, feed

documentSections == <<full, sections, subs, place, filed, filing, crowded, listed>>
appInfo == <<entries, turned, editing, mingled, entered>>
tickets == <<now, live, used, wrote, recent, counted, items, asking, unsaid, strayed>>
customDocJobs == <<jobs, workers, requests>>
teamSummaries == <<work, row, written, lock, task, request>>
mcpInterface == <<keys, things, clock, walk>>
partnerFeed == <<partners, products, published, stored, day, feed>>
reading == <<teamSummaries, mcpInterface, partnerFeed>>

S == INSTANCE DocumentSections WITH
    ProductOf <- [d \in Docs |-> CHOOSE p \in Products : TRUE], MaxIds <- SectionIds,
    lastId <- filed, call <- filing, strayed <- crowded
A == INSTANCE AppInfo WITH
    MaxIds <- EntryIds, lastId <- entered, call <- editing, strayed <- mingled
T == INSTANCE Tickets WITH Similar <- {}, call <- asking
J == INSTANCE CustomDocJobs WITH
    MaxRequests <- 1, MaxCorrections <- 1,
    Features <- {"background", "raise", "lostack", "hour", "day"}
Team == INSTANCE TeamSummaries WITH
    Commits <- 1 .. MaxWork, ProductOf <- [c \in 1 .. MaxWork |-> c \div 2]
Mcp == INSTANCE McpInterface WITH
    Keys <- McpKeys, ProductOf <- [k \in McpKeys |-> "p"], Writers <- McpKeys, Limit <- PageSize,
    MaxTime <- LastStep, key <- keys
Partner == INSTANCE PartnerFeed WITH
    Orgs <- {"o"}, Products <- PartnerProducts, OrgOf <- [p \in PartnerProducts |-> "o"],
    Limit <- FeedSize, MaxTime <- LastDay, live <- partners, entries <- published, clock <- day

Init ==
    /\ part \in {"sections", "variables", "tickets", "limit", "team", "mcp", "partner"}
    /\ S!Init /\ A!Init /\ T!Init /\ J!Init /\ Team!Init /\ Mcp!Init /\ Partner!Init

Next ==
    /\ UNCHANGED part
    /\ \/ /\ part = "sections" /\ S!Next
          /\ UNCHANGED <<appInfo, tickets, customDocJobs, reading>>
       \/ /\ part = "variables" /\ A!Next
          /\ UNCHANGED <<documentSections, tickets, customDocJobs, reading>>
       \/ /\ part = "tickets" /\ T!Next
          /\ UNCHANGED <<documentSections, appInfo, customDocJobs, reading>>
       \/ /\ part = "limit" /\ J!Next
          /\ UNCHANGED <<documentSections, appInfo, tickets, reading>>
       \/ /\ part = "team" /\ Team!Next
          /\ UNCHANGED <<documentSections, appInfo, tickets, customDocJobs, mcpInterface, partnerFeed>>
       \/ /\ part = "mcp" /\ Mcp!Next
          /\ UNCHANGED <<documentSections, appInfo, tickets, customDocJobs, teamSummaries, partnerFeed>>
       \/ /\ part = "partner" /\ Partner!Next
          /\ UNCHANGED <<documentSections, appInfo, tickets, customDocJobs, teamSummaries, mcpInterface>>

Spec == Init /\ [][Next]_<<part, documentSections, appInfo, tickets, customDocJobs, reading>>

\* Requests are alike, and nobody tells them apart.
Symmetry == Permutations(Requests)

-----------------------------------------------------------------------------
\* Sections: types; a product has a slug twice only after overlapping requests,
\* a document lies in sections that exist and belong together, and the first
\* product that a process serves gets all the defaults.
SectionsHoldTogether ==
    part = "sections" =>
        S!TypeOK /\ S!TwinSlugsNeedAnOverlap /\ S!PlacesExist /\ S!FirstDefaultsAreFull

\* Variables: types; a user has a key twice only after an overlap or a new
\* name, and what stays as secret as it was made is encrypted if secret.
VariablesHoldTogether ==
    part = "variables" =>
        A!TypeOK /\ A!TwinKeysNeedAnOverlap /\ A!KeptSecretsAreEncrypted

\* Tickets: types; similar open tickets have one of three reasons, no window of
\* time holds more requests than the limit, and the stored time of a key's use
\* lags a window behind at most.
TicketsHoldTogether ==
    /\ [][(T!TypeOK /\ T!TwinTicketsAreExplained /\ T!WindowsAreBounded)']_tickets
    /\ T!LastUseIsRecent

\* Custom documents: types; nobody has more generations a day than the limit.
WithinLimit == part = "limit" => J!TypeOK /\ J!WithinLimit

\* Team: types; the lock is held only while a task is there to release it, and
\* a summary that is shown as fresh was written lately or of as many commits.
TeamTextsAreFresh == part = "team" => Team!TypeOK /\ Team!LockHasTask /\ Team!FreshOrSameCount

\* Interfaces: types; a walk through the pages misses what was there all the
\* time only if something moved meanwhile, and undisturbed, the changelog's
\* total and entries tell the same.
InterfacesMissNothing ==
    /\ part = "mcp" => Mcp!TypeOK /\ Mcp!WalksMissNothing
    /\ part = "partner" => Partner!TypeOK /\ Partner!CalmTotalsFit
=============================================================================
