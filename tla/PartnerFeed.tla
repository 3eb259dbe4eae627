----------------------------- MODULE PartnerFeed ----------------------------
(***************************************************************************)
(* The feeds a partner reads with a key of an organization: published      *)
(* changelog entries, and the texts and numbers that others stored about   *)
(* the organization and its products.  A feed is put together from two or  *)
(* three statements, each of which sees what is committed by then.         *)
(***************************************************************************)
EXTENDS Naturals, FiniteSets, FiniteSetsExt, Sequences

CONSTANTS
    Orgs, Products, OrgOf,   \* [Products -> Orgs]
    Limit,                   \* entries of the changelog's answer
    MaxEntries, MaxTime

VARIABLES
    live,      \* organizations whose key is not revoked
    products,  \* products there are
    entries,   \* changelog entries: product, date, time of making, published or not
    stored,    \* [store and owner -> time of writing, 0 if there is no row]
    clock,
    feed

vars == <<live, products, entries, stored, clock, feed>>

OfOrg == {"team", "stats"}
OfProduct == {"progress", "shipped"}
Owners == (OfOrg \X Orgs) \union (OfProduct \X Products)
NoFeed == [pc |-> "none"]

\* The statements of each feed.
Statements ==
    [changelog    |-> <<"entries", "total">>,
     narrative    |-> <<"team", "products", "progress">>,
     contributors |-> <<"team", "products", "progress">>,
     products     |-> <<"products", "progress">>,
     shipped      |-> <<"products", "shipped">>,
     pulse        |-> <<"stats", "products">>]

TypeOK ==
    /\ live \subseteq Orgs /\ products \subseteq Products
    /\ \A e \in entries : e.of \in products /\ e.made \in 1 .. MaxTime
    /\ stored \in [Owners -> 0 .. MaxTime]
    /\ \A p \in Products \ products : \A s \in OfProduct : stored[<<s, p>>] = 0
    /\ feed # NoFeed => /\ feed.pc \in {"read", "answered"} /\ feed.org \in Orgs
                        /\ feed.names \subseteq Products /\ Cardinality(feed.entries) <= Limit

-----------------------------------------------------------------------------
(* Statements.                                                             *)

Published(o, since) == {e \in entries : OrgOf[e.of] = o /\ e.public /\ e.date >= since}

\* Newest date first, then the newest.
Before(e, f) == e.date > f.date \/ (e.date = f.date /\ e.made > f.made)

Newest(all) == {e \in all : Cardinality({f \in all : Before(f, e)}) < Limit}

\* Wrong variant: the count forgets the date.
Counted_All(o, since) == Cardinality(Published(o, 0))

Counted(o, since) == Cardinality(Published(o, since))

Row(store, owner) == {stored[<<store, owner>>]} \ {0}

Own(o) == {p \in products : OrgOf[p] = o}

\* Nothing more is read of an organization without products, or if nobody wrote
\* about its contributors.
Over(w) ==
    /\ w.steps # <<>>
    /\ \/ Head(w.steps) \in OfProduct /\ w.names = {}
       \/ w.kind = "contributors" /\ Head(w.steps) = "products" /\ w.times = {}

Ask(o, kind, since) ==
    /\ feed = NoFeed /\ o \in live
    /\ feed' = [pc |-> "read", org |-> o, kind |-> kind, since |-> since, steps |-> Statements[kind],
                entries |-> {}, total |-> 0, names |-> {}, times |-> {}, calm |-> TRUE]
    /\ UNCHANGED <<live, products, entries, stored, clock>>

Read(s) ==
    /\ feed.pc = "read" /\ feed.steps # <<>> /\ Head(feed.steps) = s /\ ~Over(feed)

Rest == [feed EXCEPT !.steps = Tail(@)]

ReadEntries ==
    /\ Read("entries")
    /\ feed' = [Rest EXCEPT !.entries = Newest(Published(feed.org, feed.since)), !.calm = TRUE]
    /\ UNCHANGED <<live, products, entries, stored, clock>>

ReadTotal ==
    /\ Read("total")
    /\ feed' = [Rest EXCEPT !.total = Counted(feed.org, feed.since)]
    /\ UNCHANGED <<live, products, entries, stored, clock>>

ReadNames ==
    /\ Read("products")
    /\ feed' = [Rest EXCEPT !.names = Own(feed.org)]
    /\ UNCHANGED <<live, products, entries, stored, clock>>

ReadStored(s) ==
    /\ Read(s)
    /\ feed' = [Rest EXCEPT !.times = @ \union
                   IF s \in OfOrg THEN Row(s, feed.org) ELSE UNION {Row(s, p) : p \in feed.names}]
    /\ UNCHANGED <<live, products, entries, stored, clock>>

Answer ==
    /\ feed.pc = "read" /\ (feed.steps = <<>> \/ Over(feed))
    /\ feed' = [feed EXCEPT !.pc = "answered", !.steps = <<>>]
    /\ UNCHANGED <<live, products, entries, stored, clock>>

End == feed.pc = "answered" /\ feed' = NoFeed /\ UNCHANGED <<live, products, entries, stored, clock>>

-----------------------------------------------------------------------------
(* Meanwhile others write.                                                 *)

\* Before the count, entries have changed.
Disturbed == IF feed = NoFeed THEN feed ELSE [feed EXCEPT !.calm = @ /\ feed.steps = <<>>]

Generate(s, owner) ==
    /\ clock < MaxTime /\ clock' = clock + 1
    /\ s \in OfProduct => owner \in products
    /\ stored' = [stored EXCEPT ![<<s, owner>>] = clock + 1]
    /\ UNCHANGED <<live, products, entries, feed>>

WriteEntry(p, date, public) ==
    /\ p \in products /\ clock < MaxTime /\ clock' = clock + 1 /\ Cardinality(entries) < MaxEntries
    /\ entries' = entries \union {[of |-> p, date |-> date, made |-> clock + 1, public |-> public]}
    /\ feed' = Disturbed
    /\ UNCHANGED <<live, products, stored>>

Publish(e) ==
    /\ entries' = (entries \ {e}) \union {[e EXCEPT !.public = ~@]}
    /\ feed' = Disturbed
    /\ UNCHANGED <<live, products, stored, clock>>

\* A deleted product takes its entries and rows along.
Delete(p) ==
    /\ p \in products
    /\ products' = products \ {p}
    /\ entries' = {e \in entries : e.of # p}
    /\ stored' = [x \in Owners |-> IF x \in OfProduct \X {p} THEN 0 ELSE stored[x]]
    /\ feed' = Disturbed
    /\ UNCHANGED <<live, clock>>

Revoke(o) ==
    /\ o \in live /\ live' = live \ {o}
    /\ UNCHANGED <<products, entries, stored, clock, feed>>

Init ==
    /\ live = Orgs /\ products = Products /\ entries = {}
    /\ stored = [x \in Owners |-> 0] /\ clock = 0 /\ feed = NoFeed

Next ==
    \/ \E o \in Orgs :
          \/ Revoke(o)
          \/ \E kind \in DOMAIN Statements, since \in {0, 2} : Ask(o, kind, since)
    \/ ReadEntries \/ ReadTotal \/ ReadNames
    \/ \E s \in OfOrg \union OfProduct : ReadStored(s)
    \/ Answer \/ End
    \/ \E x \in Owners : Generate(x[1], x[2])
    \/ \E p \in Products, date \in 1 .. 2, public \in BOOLEAN : WriteEntry(p, date, public)
    \/ \E e \in entries : Publish(e)
    \/ \E p \in Products : Delete(p)

Spec == Init /\ [][Next]_vars

-----------------------------------------------------------------------------
\* If no entry changed between the two statements of the changelog, its total
\* and its entries tell the same: there are more than are listed only if the
\* list is full.
CalmTotalsFit ==
    feed # NoFeed /\ feed.pc = "answered" /\ feed.kind = "changelog" /\ feed.calm =>
        /\ feed.total >= Cardinality(feed.entries)
        /\ feed.total > Cardinality(feed.entries) => Cardinality(feed.entries) = Limit

\* What one would expect of a total, and two statements do not give.
TotalsFit ==
    feed # NoFeed /\ feed.pc = "answered" => feed.total >= Cardinality(feed.entries)
=============================================================================
