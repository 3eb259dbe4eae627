-------------------------- MODULE DocumentSections --------------------------
(* The sections a product's documents are filed under: default sections made *)
(* when a product's sections are first listed, custom ones made, renamed and *)
(* deleted, subsections, and documents moved between them.                   *)
(* (src/app/domain/section_operations.py,                                    *)
(* src/app/api/v1/documents/sections.py)                                     *)
(*                                                                           *)
(* The list of defaults is one object of the process, and making a section   *)
(* pops its subsections out of it.  Each request is a transaction: what it   *)
(* checked may have changed when it commits.  Positions are left out, and so *)
(* are the slugs of subsections.                                             *)
EXTENDS Integers, FiniteSets

CONSTANTS Products, Docs,
          ProductOf,   \* the product of each document
          Defaults,    \* slugs of the default sections
          Slugs,       \* slugs a user chooses
          Requests,    \* overlapping requests
          MaxIds,      \* bound: sections and subsections ever stored
          NoProduct, NoDoc, NoSlug

VARIABLES full,      \* the defaults that still hold their subsections
          sections,  \* rows [id, product, slug, dflt]
          subs,      \* rows [id, section, dflt]
          place,     \* place[d]: the section and subsection of a document, 0 for none
          lastId,
          call,
          strayed,   \* products whose sections two open requests changed
          listed     \* requests for defaults since the process started, counted to 2

vars == <<full, sections, subs, place, lastId, call, strayed, listed>>

Idle == [op |-> "idle", product |-> NoProduct, todo |-> {}, made |-> {},
         slug |-> NoSlug, doc |-> NoDoc, at |-> [section |-> 0, sub |-> 0]]
Of(p) == {x \in sections : x.product = p}
Named(p, s) == {x \in Of(p) : x.slug = s}
Busy(r, p) == \E q \in Requests \ {r} : call[q].product = p
Crowd(r, p) == strayed \cup {x \in {p} : Busy(r, p)}

Init == /\ full = Defaults /\ sections = {} /\ subs = {} /\ lastId = 0
        /\ place = [d \in Docs |-> [section |-> 0, sub |-> 0]]
        /\ call = [r \in Requests |-> Idle]
        /\ strayed = {} /\ listed = 0

(* ---- GET sections: the defaults of a product that has none ---- *)
ListBegin(r, p) ==
  /\ call[r] = Idle /\ Of(p) = {}
  /\ call' = [call EXCEPT ![r] = [Idle EXCEPT !.op = "list", !.product = p, !.todo = Defaults]]
  /\ strayed' = Crowd(r, p) /\ listed' = IF listed = 2 THEN 2 ELSE listed + 1
  /\ UNCHANGED <<full, sections, subs, place, lastId>>

(* one default section, with the subsections that are still in the list *)
\* Wrong variant: the subsections of the first default are dropped when it is made.
Popped_Early(s) == [slug |-> s, subs |-> s \in full /\ full # Defaults]
Popped(s) == [slug |-> s, subs |-> s \in full]

ListStep(r, s) ==
  /\ call[r].op = "list" /\ s \in call[r].todo
  /\ call' = [call EXCEPT ![r] = [call[r] EXCEPT !.todo = call[r].todo \ {s},
                                                !.made = call[r].made \cup {Popped(s)}]]
  /\ full' = full \ {s}
  /\ UNCHANGED <<sections, subs, place, lastId, strayed, listed>>

ListCommit(r) ==
  LET made == call[r].made
      with == {m \in made : m.subs}
  IN /\ call[r].op = "list" /\ call[r].todo = {}
     /\ lastId + 2 * Cardinality(made) <= MaxIds
     /\ \E id \in [made -> lastId + 1..lastId + Cardinality(made)] :
          /\ \A m, n \in made : id[m] = id[n] => m = n
          /\ sections' = sections \cup
               {[id |-> id[m], product |-> call[r].product, slug |-> m.slug, dflt |-> TRUE] : m \in made}
          /\ subs' = subs \cup
               {[id |-> id[m] + Cardinality(made), section |-> id[m], dflt |-> TRUE] : m \in with}
     /\ lastId' = lastId + 2 * Cardinality(made)
     /\ call' = [call EXCEPT ![r] = Idle]
     /\ UNCHANGED <<full, place, strayed, listed>>

(* a request fails before its commit; what it popped stays popped *)
Abort(r) ==
  /\ call[r] # Idle
  /\ call' = [call EXCEPT ![r] = Idle]
  /\ UNCHANGED <<full, sections, subs, place, lastId, strayed, listed>>

Restart ==
  /\ call' = [r \in Requests |-> Idle]
  /\ full' = Defaults /\ listed' = 0
  /\ UNCHANGED <<sections, subs, place, lastId, strayed>>

(* ---- POST and PATCH: the slug is looked up first ---- *)
\* Wrong variant: only another product's sections are searched for the slug.
SlugFree_Elsewhere(p, s) == \A q \in Products \ {p} : Named(q, s) = {}
SlugFree(p, s) == Named(p, s) = {}

CreateBegin(r, p, s) ==
  /\ call[r] = Idle /\ SlugFree(p, s)
  /\ call' = [call EXCEPT ![r] = [Idle EXCEPT !.op = "create", !.product = p, !.slug = s]]
  /\ strayed' = Crowd(r, p)
  /\ UNCHANGED <<full, sections, subs, place, lastId, listed>>

CreateCommit(r) ==
  /\ call[r].op = "create" /\ lastId < MaxIds
  /\ sections' = sections \cup {[id |-> lastId + 1, product |-> call[r].product,
                                 slug |-> call[r].slug, dflt |-> FALSE]}
  /\ lastId' = lastId + 1
  /\ call' = [call EXCEPT ![r] = Idle]
  /\ UNCHANGED <<full, subs, place, strayed, listed>>

RenameBegin(r, x, s) ==
  /\ call[r] = Idle /\ x \in sections /\ x.slug # s /\ SlugFree(x.product, s)
  /\ call' = [call EXCEPT ![r] = [Idle EXCEPT !.op = "rename", !.product = x.product,
                !.slug = s, !.at = [section |-> x.id, sub |-> 0]]]
  /\ strayed' = Crowd(r, x.product)
  /\ UNCHANGED <<full, sections, subs, place, lastId, listed>>

RenameCommit(r) ==
  /\ call[r].op = "rename"
  /\ \E x \in sections : /\ x.id = call[r].at.section
                         /\ sections' = (sections \ {x}) \cup {[x EXCEPT !.slug = call[r].slug]}
  /\ call' = [call EXCEPT ![r] = Idle]
  /\ UNCHANGED <<full, subs, place, lastId, strayed, listed>>

(* ---- deletion: not of defaults; subsections go along, documents stay ---- *)
Cleared(y) == [d \in Docs |-> IF place[d].sub = y.id THEN [place[d] EXCEPT !.sub = 0] ELSE place[d]]
\* Wrong variant: documents keep the subsection of a deleted section.
Unfiled_KeepsSub(x) ==
  [d \in Docs |-> IF place[d].section = x.id THEN [place[d] EXCEPT !.section = 0] ELSE place[d]]
Unfiled(x) ==
  LET gone == {y.id : y \in {z \in subs : z.section = x.id}}
  IN [d \in Docs |-> [section |-> IF place[d].section = x.id THEN 0 ELSE place[d].section,
                      sub |-> IF place[d].sub \in gone THEN 0 ELSE place[d].sub]]

DeleteSection(x) ==
  /\ x \in sections /\ ~x.dflt
  /\ sections' = sections \ {x}
  /\ subs' = {y \in subs : y.section # x.id}
  /\ place' = Unfiled(x)
  /\ UNCHANGED <<full, lastId, call, strayed, listed>>

AddSubsection(x) ==
  /\ x \in sections /\ lastId < MaxIds
  /\ subs' = subs \cup {[id |-> lastId + 1, section |-> x.id, dflt |-> FALSE]}
  /\ lastId' = lastId + 1
  /\ UNCHANGED <<full, sections, place, call, strayed, listed>>

DeleteSubsection(y) ==
  /\ y \in subs /\ ~y.dflt
  /\ subs' = subs \ {y}
  /\ place' = Cleared(y)
  /\ UNCHANGED <<full, sections, lastId, call, strayed, listed>>

(* ---- moving a document: to nothing, a section of its product, one of the  *)
(* section's subsections, or a subsection alone, whose section is taken      *)
(* without looking at its product                                            *)
Targets(d) ==
  {[section |-> 0, sub |-> 0]} \cup {[section |-> x.id, sub |-> 0] : x \in Of(ProductOf[d])}
    \cup {[section |-> y.section, sub |-> y.id] : y \in subs}

MoveBegin(r, d, at) ==
  /\ call[r] = Idle /\ at \in Targets(d)
  /\ call' = [call EXCEPT ![r] = [Idle EXCEPT !.op = "move", !.doc = d, !.at = at]]
  /\ UNCHANGED <<full, sections, subs, place, lastId, strayed, listed>>

(* the foreign keys refuse what is gone meanwhile (then Abort) *)
MoveCommit(r) ==
  /\ call[r].op = "move"
  /\ call[r].at.section \in {0} \cup {x.id : x \in sections}
  /\ call[r].at.sub \in {0} \cup {y.id : y \in subs}
  /\ place' = [place EXCEPT ![call[r].doc] = call[r].at]
  /\ call' = [call EXCEPT ![r] = Idle]
  /\ UNCHANGED <<full, sections, subs, lastId, strayed, listed>>

Next ==
  \/ \E r \in Requests : \/ ListCommit(r) \/ CreateCommit(r) \/ RenameCommit(r)
                         \/ MoveCommit(r) \/ Abort(r)
  \/ \E r \in Requests, p \in Products : \/ ListBegin(r, p)
                                         \/ \E s \in Slugs : CreateBegin(r, p, s)
  \/ \E r \in Requests, s \in Defaults : ListStep(r, s)
  \/ \E r \in Requests, x \in sections, s \in Slugs : RenameBegin(r, x, s)
  \/ \E r \in Requests, d \in Docs : \E at \in Targets(d) : MoveBegin(r, d, at)
  \/ \E x \in sections : DeleteSection(x) \/ AddSubsection(x)
  \/ \E y \in subs : DeleteSubsection(y)
  \/ Restart

Spec == Init /\ [][Next]_vars

-----------------------------------------------------------------------------
TypeOK ==
  /\ full \subseteq Defaults /\ lastId \in 0..MaxIds /\ listed \in 0..2
  /\ sections \subseteq [id: 1..MaxIds, product: Products, slug: Defaults \cup Slugs, dflt: BOOLEAN]
  /\ subs \subseteq [id: 1..MaxIds, section: 1..MaxIds, dflt: BOOLEAN]
  /\ place \in [Docs -> [section: 0..MaxIds, sub: 0..MaxIds]]
  /\ strayed \subseteq Products

(* Two sections of a product have the same slug, which every later look-up   *)
(* of that slug answers with an error, only when two requests that make or   *)
(* rename sections of the product were open at the same time.                *)
TwinSlugsNeedAnOverlap ==
  \A p \in Products : (\E x, y \in Of(p) : x # y /\ x.slug = y.slug) => p \in strayed

(* However moves and deletions overlap, a document's subsection exists and   *)
(* lies in the document's section, which exists.                             *)
PlacesExist ==
  \A d \in Docs : /\ place[d].section # 0 => \E x \in sections : x.id = place[d].section
                  /\ place[d].sub # 0 => \E y \in subs : /\ y.id = place[d].sub
                                                         /\ y.section = place[d].section

(* The first product that is given its defaults after a start of the process *)
(* gets all of their subsections.                                            *)
FirstDefaultsAreFull ==
  listed = 1 => \A r \in Requests : call[r].op = "list" => \A m \in call[r].made : m.subs

(* What ensure_default_sections says, and does not hold for every product:   *)
(* it "creates the default Technical and Conceptual sections with            *)
(* subsections".                                                             *)
DefaultsAreFull ==
  \A r \in Requests : call[r].op = "list" => \A m \in call[r].made : m.subs
=============================================================================
