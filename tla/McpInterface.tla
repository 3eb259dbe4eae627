---------------------------- MODULE McpInterface ----------------------------
(***************************************************************************)
(* The interface a coding assistant uses with a key of one product: it     *)
(* lists documents and work items page by page, reads one, makes and       *)
(* changes them, while people do the same in the application.  A page is a *)
(* slice of the rows, newest first by the time of their last renewal:      *)
(* making a row sets that time, moving a document renews it, an ordinary   *)
(* change does not.  The client stops at a page that is not full.          *)
(***************************************************************************)
EXTENDS Naturals, FiniteSets

CONSTANTS
    Keys, ProductOf,   \* [Keys -> products]
    Writers,           \* the keys with the scope to write
    Kinds,             \* "document", "item"
    Types,             \* what a list may be filtered by: types, states
    Limit,             \* rows of a page
    MaxThings, MaxTime

VARIABLES key, things, clock, walk

vars == <<key, things, clock, walk>>

KeyProducts == {ProductOf[k] : k \in Keys}
Things == [id: 1 .. MaxThings, kind: Kinds, of: KeyProducts, type: Types, at: 1 .. MaxTime, gone: BOOLEAN]
NoWalk == [pc |-> "none"]

TypeOK ==
    /\ key \in [Keys -> {"none", "live", "revoked"}]
    /\ things \subseteq Things /\ \A t, u \in things : t # u => t.id # u.id /\ t.at # u.at
    /\ clock \in 0 .. MaxTime
    /\ walk # NoWalk => /\ walk.pc \in {"next", "rows", "done"} /\ walk.key \in Keys
                        /\ walk.seen \subseteq 1 .. MaxThings

Used == {t.id : t \in things}

-----------------------------------------------------------------------------
(* Lists.                                                                  *)

\* The rows of a kind that a filter, a set of types, lets through.
Listing(k, kind, types) ==
    {t \in things : t.of = ProductOf[k] /\ t.kind = kind /\ t.type \in types /\ ~t.gone}

Ids(rows) == {t.id : t \in rows}

Slice(rows, from) ==
    {t \in rows : LET n == Cardinality({u \in rows : u.at > t.at}) IN n >= from /\ n < from + Limit}

Listed(w) == Listing(w.key, w.kind, w.types)

Begin(k, kind, types) ==
    /\ walk = NoWalk /\ key[k] = "live"
    /\ walk' = [pc |-> "rows", key |-> k, kind |-> kind, types |-> types, from |-> 0, seen |-> {},
                there |-> Ids(Listing(k, kind, types)), left |-> FALSE]
    /\ UNCHANGED <<key, things, clock>>

\* The next page is another request, refused if the key was revoked.
NextPage ==
    /\ walk.pc = "next"
    /\ walk' = IF key[walk.key] = "live"
               THEN [walk EXCEPT !.pc = "rows"] ELSE NoWalk
    /\ UNCHANGED <<key, things, clock>>

ReadPage ==
    /\ walk.pc = "rows"
    /\ LET page == Slice(Listed(walk), walk.from) IN
          walk' = [walk EXCEPT !.seen = @ \union Ids(page),
                               !.from = @ + Limit,
                               !.pc = IF Cardinality(page) < Limit THEN "done" ELSE "next"]
    /\ UNCHANGED <<key, things, clock>>

Finish == walk.pc = "done" /\ walk' = NoWalk /\ UNCHANGED <<key, things, clock>>

-----------------------------------------------------------------------------
(* Changes.  What a walk should have seen, had everybody kept still, is    *)
(* what is on its list all the time.                                       *)

Noted(next) ==
    IF walk = NoWalk THEN walk
    ELSE LET now == Ids(Listed(walk))
             then == Ids({t \in next : t.of = ProductOf[walk.key] /\ t.kind = walk.kind
                                         /\ t.type \in walk.types /\ ~t.gone})
         IN  [walk EXCEPT !.there = @ \intersect then,
                          !.left = @ \/ now \ then # {}]

Set(next) == things' = next /\ walk' = Noted(next)

\* By a key that may write, or in the application.
Create(p, kind, type) ==
    /\ clock < MaxTime /\ Cardinality(things) < MaxThings
    /\ clock' = clock + 1
    /\ Set(things \union {[id |-> Cardinality(things) + 1, kind |-> kind, of |-> p, type |-> type,
                           at |-> clock + 1, gone |-> FALSE]})
    /\ UNCHANGED key

KeyCreates(k, kind, type) == key[k] = "live" /\ k \in Writers /\ Create(ProductOf[k], kind, type)

\* Wrong variant: a change moves a row to the front of the lists.
Changed_Renewed(t, type) == [t EXCEPT !.type = type, !.at = clock + 1]

Changed(t, type) == [t EXCEPT !.type = type]

Change(t, type) ==
    /\ ~t.gone /\ clock < MaxTime
    /\ clock' = clock + 1
    /\ Set((things \ {t}) \union {Changed(t, type)})
    /\ UNCHANGED key

KeyChanges(k, t, type) ==
    key[k] = "live" /\ k \in Writers /\ t.of = ProductOf[k] /\ Change(t, type)

\* A document goes to another folder, or a changelog gets an entry.
Move(t) ==
    /\ t.kind = "document" /\ ~t.gone /\ clock < MaxTime
    /\ clock' = clock + 1
    /\ things' = (things \ {t}) \union {[t EXCEPT !.at = clock + 1]}
    /\ walk' = IF walk # NoWalk /\ t \in Listed(walk) THEN [walk EXCEPT !.left = TRUE] ELSE walk
    /\ UNCHANGED key

\* Documents are deleted, work items marked; here both keep their number.
Remove(t) ==
    /\ ~t.gone
    /\ Set((things \ {t}) \union {[t EXCEPT !.gone = TRUE]})
    /\ UNCHANGED <<key, clock>>

MakeKey(k) ==
    /\ key[k] = "none" /\ key' = [key EXCEPT ![k] = "live"]
    /\ UNCHANGED <<things, clock, walk>>

Revoke(k) ==
    /\ key[k] = "live" /\ key' = [key EXCEPT ![k] = "revoked"]
    /\ UNCHANGED <<things, clock, walk>>

Init == key = [k \in Keys |-> "none"] /\ things = {} /\ clock = 0 /\ walk = NoWalk

Next ==
    \/ \E k \in Keys :
          \/ MakeKey(k) \/ Revoke(k)
          \/ \E kind \in Kinds : \/ \E types \in (SUBSET Types) \ {{}} : Begin(k, kind, types)
                                 \/ \E type \in Types : KeyCreates(k, kind, type)
          \/ \E t \in things, type \in Types : KeyChanges(k, t, type)
    \/ \E p \in KeyProducts, kind \in Kinds, type \in Types : Create(p, kind, type)
    \/ \E t \in things : Move(t) \/ Remove(t) \/ \E type \in Types : Change(t, type)
    \/ NextPage \/ ReadPage \/ Finish

Spec == Init /\ [][Next]_vars

-----------------------------------------------------------------------------
\* Page after page a client sees every row that was on the list all the time,
\* unless a row left the list, or was moved to its front, during the walk: rows
\* made or changed meanwhile hide none.
WalksMissNothing == walk # NoWalk /\ walk.pc = "done" /\ ~walk.left => walk.there \subseteq walk.seen

\* What one would expect of a list read to its end, and offsets do not give.
EveryRowIsSeen == walk # NoWalk /\ walk.pc = "done" => walk.there \subseteq walk.seen
=============================================================================
