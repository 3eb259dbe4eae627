------------------------- MODULE MCWorkspace_proofs -------------------------
(***************************************************************************)
(* Proofs about what members keep under a product and what is read of it:  *)
(* sections, variables, tickets, the limit of ordered documents, texts and *)
(* interfaces, for any numbers of requests, keys, rows and steps of time.  *)
(***************************************************************************)
EXTENDS MCWorkspace, Sequences, FiniteSetTheorems, WellFoundedInduction, TLAPS

Vars == <<part, documentSections, appInfo, tickets, customDocJobs, reading>>

-----------------------------------------------------------------------------
(* The limit: what is proved about CustomDocJobs, for this instance of it. *)

P == INSTANCE CustomDocJobs_proofs WITH
    MaxRequests <- 1, MaxCorrections <- 1,
    Features <- {"background", "raise", "lostack", "hour", "day"}

LimitInv == P!TypeOK /\ P!LimitInv

LEMMA SameTypes == J!TypeOK <=> P!TypeOK
BY DEF J!TypeOK, J!Job, J!Worker, J!Status, J!Progress, J!Age, J!WorkerPC,
       P!TypeOK, P!Job, P!Worker, P!Status, P!Progress, P!Age, P!WorkerPC

LEMMA SameInit == J!Init <=> P!Init
BY DEF J!Init, J!Unused, J!NoWorker, P!Init, P!Unused, P!NoWorker

LEMMA SameRequests == \A h : J!RequestStep(h) <=> P!RequestStep(h)
BY DEF J!RequestStep, J!CheckLimit, J!AcceptBackground, J!AcceptSync, J!Refuse, J!UnderLimit, J!Counted,
       J!Free, J!Unused, J!NoWorker, J!Cardinality, J!IsFiniteSet,
       P!RequestStep, P!CheckLimit, P!AcceptBackground, P!AcceptSync, P!Refuse, P!UnderLimit, P!Counted,
       P!Free, P!Unused, P!NoWorker, P!Cardinality, P!IsFiniteSet

LEMMA SameWork == \A j : J!WorkerStep(j) <=> P!WorkerStep(j)
BY DEF J!WorkerStep, J!EnterAnalysis, J!Analyze, J!EnterPlanning, J!EnterGeneration, J!CallModel,
       J!Correct, J!EnterFinalizing, J!Store, J!StoreFailure, J!Enter, J!Begin, J!Update, J!Cancelled,
       J!Corrected, J!Result,
       P!WorkerStep, P!EnterAnalysis, P!Analyze, P!EnterPlanning, P!EnterGeneration, P!CallModel,
       P!Correct, P!EnterFinalizing, P!Store, P!StoreFailure, P!Enter, P!Begin, P!Update, P!Cancelled,
       P!Corrected, P!Result

LEMMA SameOthers ==
    /\ \A j : /\ J!Cancel(j) <=> P!Cancel(j)
              /\ J!Raise(j) <=> P!Raise(j)
              /\ J!Lose(j) <=> P!Lose(j)
              /\ J!Forget(j) <=> P!Forget(j)
    /\ J!HourPasses <=> P!HourPasses
    /\ J!DayPasses <=> P!DayPasses
    /\ J!CleanupExpired <=> P!CleanupExpired
BY DEF J!Cancel, J!Cancellable, J!Raise, J!Failing, J!Lose, J!Forget, J!Working, J!WorkerPC,
       J!HourPasses, J!DayPasses, J!CleanupExpired, J!Older, J!Unused, J!NoWorker,
       P!Cancel, P!Cancellable, P!Raise, P!Failing, P!Lose, P!Forget, P!Working, P!WorkerPC,
       P!HourPasses, P!DayPasses, P!CleanupExpired, P!Older, P!Unused, P!NoWorker

LEMMA SameSteps == J!Next <=> P!Next
BY SameRequests, SameWork, SameOthers DEF J!Next, P!Next

LEMMA LimitBegins == J!Init => LimitInv
<1>1. P!Init => P!LimitInv
    BY P!LimitBegins, WorkspaceConstants DEF P!FeatureKinds
<1>2. P!Init => P!TypeOK
    BY P!UnusedTypes, WorkspaceConstants DEF P!Init, P!TypeOK, P!FeatureKinds
<1> QED  BY <1>1, <1>2, SameInit DEF LimitInv

LEMMA LimitStays ==
    ASSUME \A g, h \in Handlers : g = h, LimitInv, J!Next
    PROVE  LimitInv'
<1>1. P!JobsAssumption
    BY WorkspaceConstants DEF P!JobsAssumption, P!FeatureKinds
<1>2. P!OneAtATime /\ P!AllRows
    BY DEF P!OneAtATime, P!AllRows
<1>3. P!Next
    BY SameSteps
<1>4. P!TypeOK'
    BY <1>1, <1>3, P!TypesStay DEF LimitInv, P!vars
<1>5. P!LimitInv'
    BY <1>1, <1>2, <1>3, P!StepLimit DEF LimitInv
<1> QED  BY <1>4, <1>5 DEF LimitInv

LEMMA LimitHolds == LimitInv => J!TypeOK /\ J!WithinLimit
BY SameTypes
DEF LimitInv, P!LimitInv, P!Bounded, P!Recent, P!Cardinality, P!IsFiniteSet,
    J!WithinLimit, J!Cardinality, J!IsFiniteSet

LEMMA LimitRests == LimitInv /\ UNCHANGED customDocJobs => LimitInv'
BY DEF customDocJobs, LimitInv, P!TypeOK, P!LimitInv, P!Recent

-----------------------------------------------------------------------------
(* Sections: who lists, creates or renames alone finds what it looked up.  *)

SectionRows == [id: 1 .. SectionIds, product: Products, slug: Defaults \cup Slugs, dflt: BOOLEAN]
SubRows == [id: 1 .. SectionIds, section: 1 .. SectionIds, dflt: BOOLEAN]
Spots == [section: 0 .. SectionIds, sub: 0 .. SectionIds]
Filings == [op: {"idle", "list", "create", "rename", "move"}, product: Products \cup {NoProduct},
            todo: SUBSET Defaults, made: SUBSET [slug: Defaults, subs: BOOLEAN],
            slug: Slugs \cup {NoSlug}, doc: Docs \cup {NoDoc}, at: Spots]

SectionTypes ==
    /\ full \subseteq Defaults /\ filed \in 0 .. SectionIds /\ listed \in 0 .. 2
    /\ sections \subseteq SectionRows /\ subs \subseteq SubRows
    /\ place \in [Docs -> Spots] /\ crowded \subseteq Products
    /\ filing \in [Requests -> Filings]

\* Rows have numbers of their own, given in turn; a subsection has a section.
RowsFit ==
    /\ \A x \in sections : x.id <= filed
    /\ \A x, y \in sections : x.id = y.id => x = y
    /\ \A y \in subs : y.id <= filed /\ \E x \in sections : x.id = y.section
    /\ \A y, z \in subs : y.id = z.id => y = z

\* What a request carries, whatever happens beside it.
Fits(c) ==
    /\ c.op \in {"idle", "move"} => c.product = NoProduct
    /\ c.op \in {"list", "create", "rename"} => c.product \in Products
    /\ c.op \in {"create", "rename"} => c.slug \in Slugs
    /\ c.op = "list" =>
          /\ \A m \in c.made : m.slug \notin c.todo
          /\ \A m, n \in c.made : m.slug = n.slug => m = n
    /\ c.op = "rename" =>
          /\ c.at.section <= filed
          /\ \A x \in sections : x.id = c.at.section => x.product = c.product
    /\ c.op = "move" =>
          /\ c.at.section <= filed /\ c.at.sub <= filed
          /\ \A y \in subs : y.id = c.at.sub => y.section = c.at.section

CallsFit == \A r \in Requests : Fits(filing[r])

\* The slug a request looked for is still free.
StillFree(c) ==
    \A x \in sections : x.product = c.product =>
        c.op # "list" /\ (c.op \in {"create", "rename"} => x.slug # c.slug)

\* In a product without an overlap at most one request is open, and the slug
\* it looked for is still free.
Uncrowded ==
    \A p \in Products \ crowded :
      /\ \A r, s \in Requests : filing[r].product = p /\ filing[s].product = p => r = s
      /\ \A x, y \in sections : x.product = p /\ y.product = p /\ x.slug = y.slug => x = y
      /\ \A r \in Requests : filing[r].product = p => StillFree(filing[r])

\* The first list of defaults finds them full.
FirstList ==
    /\ listed = 0 => full = Defaults /\ \A r \in Requests : filing[r].op # "list"
    /\ listed = 1 =>
          /\ \A r, s \in Requests : filing[r].op = "list" /\ filing[s].op = "list" => r = s
          /\ \A r \in Requests : filing[r].op = "list" =>
                filing[r].todo \subseteq full /\ \A m \in filing[r].made : m.subs

SectionInv == SectionTypes /\ RowsFit /\ CallsFit /\ Uncrowded /\ FirstList /\ S!PlacesExist

LEMMA IdleFiling ==
    S!Idle \in Filings /\ S!Idle.op = "idle" /\ S!Idle.product = NoProduct /\ Fits(S!Idle)
BY WorkspaceConstants DEF S!Idle, Filings, Spots, Fits

Unfiled == sections' = sections /\ subs' = subs /\ place' = place /\ filed' = filed

\* A request goes on and stores nothing.
LEMMA CallGoesOn ==
    ASSUME SectionInv, Unfiled, NEW r \in Requests, NEW c \in Filings, Fits(c),
           filing' = [filing EXCEPT ![r] = c],
           full' \subseteq Defaults, listed' \in 0 .. 2,
           crowded \subseteq crowded', crowded' \subseteq Products,
           c.product \in Products \ crowded' =>
               StillFree(c) /\ \A s \in Requests \ {r} : filing[s].product # c.product,
           FirstList'
    PROVE  SectionInv'
<1>1. filing' \in [Requests -> Filings] /\ filing'[r] = c /\ \A s \in Requests \ {r} : filing'[s] = filing[s]
    BY DEF SectionInv, SectionTypes
<1>2. SectionTypes'
    BY <1>1 DEF SectionInv, SectionTypes, Unfiled
<1>3. RowsFit'
    BY DEF SectionInv, RowsFit, Unfiled
<1>4. CallsFit'
    <2>1. \A s \in Requests : Fits(filing'[s])
        BY <1>1 DEF SectionInv, CallsFit
    <2> QED  BY <2>1 DEF CallsFit, Fits, Unfiled
<1>5. Uncrowded'
    <2> SUFFICES ASSUME NEW p \in Products \ crowded'
                 PROVE  /\ \A s, t \in Requests : filing'[s].product = p /\ filing'[t].product = p => s = t
                        /\ \A x, y \in sections : x.product = p /\ y.product = p /\ x.slug = y.slug => x = y
                        /\ \A s \in Requests : filing'[s].product = p => StillFree(filing'[s])
        BY DEF Uncrowded, StillFree, Unfiled
    <2>1. /\ \A s, t \in Requests : filing[s].product = p /\ filing[t].product = p => s = t
          /\ \A x, y \in sections : x.product = p /\ y.product = p /\ x.slug = y.slug => x = y
          /\ \A s \in Requests : filing[s].product = p => StillFree(filing[s])
        BY DEF SectionInv, Uncrowded
    <2>2. \A s, t \in Requests : filing'[s].product = p /\ filing'[t].product = p => s = t
        BY <1>1, <2>1
    <2>3. \A s \in Requests : filing'[s].product = p => StillFree(filing'[s])
        BY <1>1, <2>1
    <2> QED  BY <2>1, <2>2, <2>3
<1>6. S!PlacesExist'
    BY DEF SectionInv, S!PlacesExist, Unfiled
<1> QED  BY <1>2, <1>3, <1>4, <1>5, <1>6 DEF SectionInv

\* The first list goes on as it began, and others that do not list.
LEMMA FirstStays ==
    ASSUME SectionInv, NEW r \in Requests, NEW c \in Filings, c.op # "list",
           filing' = [filing EXCEPT ![r] = c], full' = full, listed' = listed
    PROVE  FirstList'
<1>1. filing'[r] = c /\ \A s \in Requests \ {r} : filing'[s] = filing[s]
    BY DEF SectionInv, SectionTypes
<1>2. \A s \in Requests : filing'[s].op = "list" => filing'[s] = filing[s]
    BY <1>1
<1> QED  BY <1>2 DEF SectionInv, FirstList

LEMMA CrowdIs ==
    ASSUME NEW r \in Requests, NEW p \in Products, SectionTypes
    PROVE  /\ crowded \subseteq S!Crowd(r, p) /\ S!Crowd(r, p) \subseteq Products
           /\ p \notin S!Crowd(r, p) => \A s \in Requests \ {r} : filing[s].product # p
BY DEF S!Crowd, S!Busy, SectionTypes

LEMMA ListBegins ==
    ASSUME SectionInv, NEW r \in Requests, NEW p \in Products, S!ListBegin(r, p)
    PROVE  SectionInv'
<1> DEFINE c == [S!Idle EXCEPT !.op = "list", !.product = p, !.todo = Defaults]
<1>1. /\ Unfiled /\ full' = full /\ filing' = [filing EXCEPT ![r] = c]
      /\ crowded' = S!Crowd(r, p) /\ listed' = IF listed = 2 THEN 2 ELSE listed + 1
      /\ \A x \in sections : x.product # p
    BY DEF S!ListBegin, S!Of, Unfiled
<1>2. c \in Filings /\ c.op = "list" /\ c.product = p /\ c.todo = Defaults /\ c.made = {}
    BY IdleFiling DEF S!Idle, Filings
<1> HIDE DEF c
<1>3. Fits(c) /\ StillFree(c)
    BY <1>1, <1>2 DEF Fits, StillFree
<1>4. SectionTypes
    BY DEF SectionInv
<1>5. filing'[r] = c /\ \A s \in Requests \ {r} : filing'[s] = filing[s]
    BY <1>1, <1>4 DEF SectionTypes
<1>6. listed \in 0 .. 2 /\ listed' \in 0 .. 2 /\ listed' # 0 /\ (listed' = 1 => listed = 0)
    BY <1>1, <1>4 DEF SectionTypes
<1>7. FirstList'
    BY <1>1, <1>2, <1>5, <1>6 DEF SectionInv, FirstList
<1>8. full' \subseteq Defaults
    BY <1>1, <1>4 DEF SectionTypes
<1>9. /\ crowded \subseteq crowded' /\ crowded' \subseteq Products
      /\ p \notin crowded' => \A s \in Requests \ {r} : filing[s].product # p
    BY <1>1, <1>4, CrowdIs
<1> QED  BY <1>1, <1>2, <1>3, <1>6, <1>7, <1>8, <1>9, CallGoesOn

LEMMA ListSteps ==
    ASSUME SectionInv, NEW r \in Requests, NEW s \in Defaults, S!ListStep(r, s)
    PROVE  SectionInv'
<1> DEFINE c == [filing[r] EXCEPT !.todo = filing[r].todo \ {s},
                                  !.made = filing[r].made \cup {S!Popped(s)}]
<1>1. /\ Unfiled /\ full' = full \ {s} /\ filing' = [filing EXCEPT ![r] = c]
      /\ crowded' = crowded /\ listed' = listed
      /\ filing[r].op = "list" /\ s \in filing[r].todo
    BY DEF S!ListStep, Unfiled
<1>2. SectionTypes /\ filing[r] \in Filings
    BY DEF SectionInv, SectionTypes
<1>3. S!Popped(s) \in [slug: Defaults, subs: BOOLEAN] /\ S!Popped(s).slug = s /\ S!Popped(s).subs = (s \in full)
    BY DEF S!Popped
<1>4. filing[r].made \cup {S!Popped(s)} \subseteq [slug: Defaults, subs: BOOLEAN]
    BY <1>2, <1>3 DEF Filings
<1>5. /\ c \in Filings /\ c.op = "list" /\ c.product = filing[r].product
      /\ c.todo = filing[r].todo \ {s} /\ c.made = filing[r].made \cup {S!Popped(s)}
    BY <1>1, <1>2, <1>4 DEF Filings
<1> HIDE DEF c
<1>6. Fits(filing[r])
    BY DEF SectionInv, CallsFit
<1>7. Fits(c)
    BY <1>1, <1>3, <1>5, <1>6 DEF Fits
<1>8. c.product \in Products \ crowded' =>
          StillFree(c) /\ \A q \in Requests \ {r} : filing[q].product # c.product
    BY <1>1, <1>5 DEF SectionInv, Uncrowded, StillFree
<1>9. filing'[r] = c /\ \A q \in Requests \ {r} : filing'[q] = filing[q]
    BY <1>1, <1>2 DEF SectionTypes
<1>10. FirstList'
    BY <1>1, <1>3, <1>5, <1>9 DEF SectionInv, FirstList
<1>11. full' \subseteq Defaults /\ crowded' \subseteq Products /\ listed' \in 0 .. 2
    BY <1>1, <1>2 DEF SectionTypes
<1> QED  BY <1>1, <1>5, <1>7, <1>8, <1>10, <1>11, CallGoesOn

LEMMA CreateBegins ==
    ASSUME SectionInv, NEW r \in Requests, NEW p \in Products, NEW s \in Slugs, S!CreateBegin(r, p, s)
    PROVE  SectionInv'
<1> DEFINE c == [S!Idle EXCEPT !.op = "create", !.product = p, !.slug = s]
<1>1. /\ Unfiled /\ full' = full /\ filing' = [filing EXCEPT ![r] = c]
      /\ crowded' = S!Crowd(r, p) /\ listed' = listed
      /\ \A x \in sections : x.product = p => x.slug # s
    BY DEF S!CreateBegin, S!SlugFree, S!Named, S!Of, Unfiled
<1>2. c \in Filings /\ c.op = "create" /\ c.product = p /\ c.slug = s
    BY IdleFiling DEF S!Idle, Filings
<1> HIDE DEF c
<1>3. Fits(c) /\ StillFree(c)
    BY <1>1, <1>2 DEF Fits, StillFree
<1>4. SectionTypes /\ full' \subseteq Defaults /\ listed' \in 0 .. 2
    BY <1>1 DEF SectionInv, SectionTypes
<1>5. FirstList'
    BY <1>1, <1>2, FirstStays
<1> QED  BY <1>1, <1>2, <1>3, <1>4, <1>5, CrowdIs, CallGoesOn

LEMMA RenameBegins ==
    ASSUME SectionInv, NEW r \in Requests, NEW x \in sections, NEW s \in Slugs, S!RenameBegin(r, x, s)
    PROVE  SectionInv'
<1> DEFINE c == [S!Idle EXCEPT !.op = "rename", !.product = x.product, !.slug = s,
                               !.at = [section |-> x.id, sub |-> 0]]
<1>1. /\ Unfiled /\ full' = full /\ filing' = [filing EXCEPT ![r] = c]
      /\ crowded' = S!Crowd(r, x.product) /\ listed' = listed
      /\ \A y \in sections : y.product = x.product => y.slug # s
    BY DEF S!RenameBegin, S!SlugFree, S!Named, S!Of, Unfiled
<1>2. SectionTypes /\ RowsFit /\ full' \subseteq Defaults /\ listed' \in 0 .. 2
    BY <1>1 DEF SectionInv, SectionTypes
<1>3. x.product \in Products /\ x.id \in 1 .. SectionIds
    BY <1>2 DEF SectionTypes, SectionRows
<1>4. [section |-> x.id, sub |-> 0] \in Spots
    BY <1>3, WorkspaceConstants DEF Spots
<1>5. c \in Filings /\ c.op = "rename" /\ c.product = x.product /\ c.slug = s /\ c.at.section = x.id
    BY <1>3, <1>4 DEF S!Idle, Filings, Spots
<1> HIDE DEF c
<1>6. Fits(c) /\ StillFree(c)
    BY <1>1, <1>2, <1>3, <1>5 DEF Fits, StillFree, RowsFit
<1>7. FirstList'
    BY <1>1, <1>5, FirstStays
<1> QED  BY <1>1, <1>2, <1>3, <1>5, <1>6, <1>7, CrowdIs, CallGoesOn

LEMMA MoveBegins ==
    ASSUME SectionInv, NEW r \in Requests, NEW d \in Docs, NEW at \in S!Targets(d), S!MoveBegin(r, d, at)
    PROVE  SectionInv'
<1> DEFINE c == [S!Idle EXCEPT !.op = "move", !.doc = d, !.at = at]
<1>1. /\ Unfiled /\ full' = full /\ filing' = [filing EXCEPT ![r] = c]
      /\ crowded' = crowded /\ listed' = listed
    BY DEF S!MoveBegin, Unfiled
<1>2. SectionTypes /\ RowsFit /\ full' \subseteq Defaults /\ listed' \in 0 .. 2 /\ crowded' \subseteq Products
    BY <1>1 DEF SectionInv, SectionTypes
<1>3. /\ at \in Spots /\ at.section <= filed /\ at.sub <= filed
      /\ \A y \in subs : y.id = at.sub => y.section = at.section
    <2>1. CASE at = [section |-> 0, sub |-> 0]
        <3>1. at \in Spots /\ at.section = 0 /\ at.sub = 0
            BY <2>1, WorkspaceConstants DEF Spots
        <3>2. \A y \in subs : y.id # 0
            BY <1>2 DEF SectionTypes, SubRows
        <3> QED  BY <1>2, <3>1, <3>2 DEF SectionTypes
    <2>2. ASSUME NEW x \in sections, at = [section |-> x.id, sub |-> 0]
          PROVE  /\ at \in Spots /\ at.section <= filed /\ at.sub <= filed
                 /\ \A y \in subs : y.id = at.sub => y.section = at.section
        <3>1. x.id \in 1 .. SectionIds /\ x.id <= filed
            BY <1>2 DEF SectionTypes, SectionRows, RowsFit
        <3>2. at \in Spots /\ at.section = x.id /\ at.sub = 0
            BY <2>2, <3>1, WorkspaceConstants DEF Spots
        <3>3. \A y \in subs : y.id # 0
            BY <1>2 DEF SectionTypes, SubRows
        <3> QED  BY <1>2, <3>1, <3>2, <3>3 DEF SectionTypes
    <2>3. ASSUME NEW z \in subs, at = [section |-> z.section, sub |-> z.id]
          PROVE  /\ at \in Spots /\ at.section <= filed /\ at.sub <= filed
                 /\ \A y \in subs : y.id = at.sub => y.section = at.section
        <3>1. z.id \in 1 .. SectionIds /\ z.section \in 1 .. SectionIds /\ z.id <= filed /\ z.section <= filed
            BY <1>2 DEF SectionTypes, SubRows, RowsFit
        <3>2. at \in Spots /\ at.section = z.section /\ at.sub = z.id
            BY <2>3, <3>1 DEF Spots
        <3>3. \A y \in subs : y.id = z.id => y = z
            BY <1>2 DEF RowsFit
        <3> QED  BY <3>1, <3>2, <3>3
    <2> QED  BY <2>1, <2>2, <2>3 DEF S!Targets, S!Of
<1>4. c \in Filings /\ c.op = "move" /\ c.product = NoProduct /\ c.at = at
    BY <1>3, IdleFiling DEF S!Idle, Filings
<1> HIDE DEF c
<1>5. Fits(c) /\ c.product \notin Products
    BY <1>3, <1>4, WorkspaceConstants DEF Fits
<1>6. FirstList'
    BY <1>1, <1>4, FirstStays
<1> QED  BY <1>1, <1>2, <1>4, <1>5, <1>6, CallGoesOn

LEMMA Aborts ==
    ASSUME SectionInv, NEW r \in Requests, S!Abort(r)
    PROVE  SectionInv'
<1>1. /\ Unfiled /\ full' = full /\ filing' = [filing EXCEPT ![r] = S!Idle]
      /\ crowded' = crowded /\ listed' = listed
    BY DEF S!Abort, Unfiled
<1>2. full' \subseteq Defaults /\ listed' \in 0 .. 2 /\ crowded' \subseteq Products
    BY <1>1 DEF SectionInv, SectionTypes
<1>3. FirstList'
    BY <1>1, IdleFiling, FirstStays
<1>4. S!Idle.product \notin Products
    BY IdleFiling, WorkspaceConstants
<1> QED  BY <1>1, <1>2, <1>3, <1>4, IdleFiling, CallGoesOn

LEMMA Restarts ==
    ASSUME SectionInv, S!Restart
    PROVE  SectionInv'
<1>1. /\ Unfiled /\ full' = Defaults /\ filing' = [r \in Requests |-> S!Idle]
      /\ crowded' = crowded /\ listed' = 0
    BY DEF S!Restart, Unfiled
<1>2. SectionTypes'
    BY <1>1, IdleFiling DEF SectionInv, SectionTypes, Unfiled
<1>3. RowsFit' /\ S!PlacesExist'
    BY <1>1 DEF SectionInv, RowsFit, S!PlacesExist, Unfiled
<1>4. Fits(S!Idle)'
    BY <1>1, IdleFiling DEF Fits, Unfiled, S!Idle
<1>5. CallsFit'
    <2>1. \A r \in Requests : filing'[r] = S!Idle
        BY <1>1
    <2>2. /\ S!Idle.op = "idle" /\ S!Idle.product = NoProduct
        BY IdleFiling
    <2> QED  BY <2>1, <2>2 DEF CallsFit, Fits
<1>6. \A r \in Requests : filing'[r].product \notin Products /\ filing'[r].op # "list"
    BY <1>1, IdleFiling, WorkspaceConstants
<1>7. Uncrowded'
    BY <1>1, <1>6 DEF SectionInv, Uncrowded, Unfiled
<1>8. FirstList'
    BY <1>1, <1>6 DEF FirstList
<1> QED  BY <1>2, <1>3, <1>5, <1>7, <1>8 DEF SectionInv

\* Rows keep their numbers, and a new one gets a new number.
RowsGoOn ==
    /\ filed <= filed'
    /\ \A x \in sections' : x.id <= filed => \E w \in sections : w.id = x.id /\ w.product = x.product
    /\ \A y \in subs' : y.id <= filed => \E z \in subs : z.id = y.id /\ z.section = y.section

LEMMA FitsStay ==
    ASSUME RowsGoOn, filed \in Int, filed' \in Int, NEW c \in Filings, Fits(c)
    PROVE  Fits(c)'
<1>1. c.at.section \in Int /\ c.at.sub \in Int
    BY WorkspaceConstants DEF Filings, Spots
<1> QED  BY <1>1 DEF Fits, RowsGoOn

\* Rows change, and at most the request that does it ends.
LEMMA RowsChange ==
    ASSUME SectionInv, RowsGoOn,
           filing' \in [Requests -> Filings],
           \A s \in Requests : filing'[s] = filing[s] \/ filing'[s] = S!Idle,
           full' = full, listed' = listed, crowded' = crowded,
           sections' \subseteq SectionRows, subs' \subseteq SubRows, place' \in [Docs -> Spots],
           filed' \in 0 .. SectionIds,
           RowsFit', S!PlacesExist',
           \A p \in Products \ crowded :
             /\ \A x, y \in sections' : x.product = p /\ y.product = p /\ x.slug = y.slug => x = y
             /\ (\E s \in Requests : filing'[s].product = p) =>
                   \A x \in sections' : x.product = p => x \in sections
    PROVE  SectionInv'
<1>1. SectionTypes'
    BY DEF SectionInv, SectionTypes
<1>2. filed \in Int /\ filed' \in Int /\ filing \in [Requests -> Filings]
    BY DEF SectionInv, SectionTypes
<1>3. CallsFit'
    <2>1. \A c \in Filings : Fits(c) => Fits(c)'
        BY <1>2, FitsStay
    <2>2. \A s \in Requests : Fits(filing'[s])
        BY IdleFiling DEF SectionInv, CallsFit
    <2>3. \A s \in Requests : filing'[s] \in Filings
        OBVIOUS
    <2> QED  BY <2>1, <2>2, <2>3 DEF CallsFit, Fits
<1>4. Uncrowded'
    <2> SUFFICES ASSUME NEW p \in Products \ crowded
                 PROVE  /\ \A r, s \in Requests : filing'[r].product = p /\ filing'[s].product = p => r = s
                        /\ \A r \in Requests : filing'[r].product = p => StillFree(filing[r])'
        BY DEF Uncrowded
    <2>1. \A s \in Requests : filing'[s].product = p => filing'[s] = filing[s]
        BY IdleFiling, WorkspaceConstants
    <2>2. \A r, s \in Requests : filing'[r].product = p /\ filing'[s].product = p => r = s
        BY <2>1 DEF SectionInv, Uncrowded
    <2>3. ASSUME NEW r \in Requests, filing'[r].product = p PROVE StillFree(filing[r])'
        <3>1. \A x \in sections' : x.product = p => x \in sections
            BY <2>3
        <3>2. filing'[r] = filing[r] /\ StillFree(filing[r])
            BY <2>1, <2>3 DEF SectionInv, Uncrowded
        <3> QED  BY <2>3, <3>1, <3>2 DEF StillFree
    <2> QED  BY <2>2, <2>3
<1>5. FirstList'
    <2>1. \A s \in Requests : filing'[s].op = "list" => filing'[s] = filing[s]
        BY IdleFiling
    <2> QED  BY <2>1 DEF SectionInv, FirstList
<1> QED  BY <1>1, <1>3, <1>4, <1>5 DEF SectionInv

\* A request that stores ends.
LEMMA Ends ==
    ASSUME SectionTypes, NEW r \in Requests, filing' = [filing EXCEPT ![r] = S!Idle]
    PROVE  /\ filing' \in [Requests -> Filings]
           /\ \A s \in Requests : filing'[s] = filing[s] \/ filing'[s] = S!Idle
           /\ \A s \in Requests \ {r} : filing'[s] = filing[s]
           /\ filing'[r].product = NoProduct
BY IdleFiling DEF SectionTypes

LEMMA CreateCommits ==
    ASSUME SectionInv, NEW r \in Requests, S!CreateCommit(r)
    PROVE  SectionInv'
<1> DEFINE new == [id |-> filed + 1, product |-> filing[r].product, slug |-> filing[r].slug, dflt |-> FALSE]
<1>1. /\ filing[r].op = "create" /\ filed < SectionIds
      /\ sections' = sections \cup {new} /\ filed' = filed + 1
      /\ filing' = [filing EXCEPT ![r] = S!Idle]
      /\ full' = full /\ subs' = subs /\ place' = place /\ crowded' = crowded /\ listed' = listed
    BY DEF S!CreateCommit
<1>2. SectionTypes /\ RowsFit /\ CallsFit /\ Uncrowded /\ S!PlacesExist
    BY DEF SectionInv
<1>3. filed \in 0 .. SectionIds /\ filed' \in 0 .. SectionIds
    BY <1>1, <1>2, WorkspaceConstants DEF SectionTypes
<1>4. filing[r].product \in Products /\ filing[r].slug \in Slugs
    BY <1>1, <1>2 DEF CallsFit, Fits
<1>5. new \in SectionRows /\ new.id = filed + 1 /\ new.product = filing[r].product /\ new.slug = filing[r].slug
    BY <1>1, <1>3, <1>4, WorkspaceConstants DEF SectionRows
<1> HIDE DEF new
<1>6. \A x \in sections : x.id \in 1 .. SectionIds /\ x.id <= filed
    BY <1>2 DEF SectionTypes, SectionRows, RowsFit
<1>7. \A y \in subs : y.id \in 1 .. SectionIds /\ y.id <= filed
    BY <1>2 DEF SectionTypes, SubRows, RowsFit
<1>8. RowsGoOn
    BY <1>1, <1>3, <1>5 DEF RowsGoOn
<1>9. RowsFit'
    BY <1>1, <1>2, <1>3, <1>5, <1>6, <1>7 DEF RowsFit
<1>10. S!PlacesExist'
    BY <1>1, <1>2 DEF S!PlacesExist
<1>11. ASSUME NEW p \in Products \ crowded
       PROVE  /\ \A x, y \in sections' : x.product = p /\ y.product = p /\ x.slug = y.slug => x = y
              /\ (\E s \in Requests : filing'[s].product = p) =>
                    \A x \in sections' : x.product = p => x \in sections
    <2>1. CASE filing[r].product = p
        <3>1. StillFree(filing[r]) /\ \A s \in Requests \ {r} : filing[s].product # p
            BY <1>2, <2>1 DEF Uncrowded
        <3>2. \A s \in Requests : filing'[s].product # p
            BY <1>1, <1>2, <3>1, Ends, WorkspaceConstants
        <3> QED  BY <1>1, <1>2, <1>5, <2>1, <3>1, <3>2 DEF Uncrowded, StillFree
    <2>2. CASE filing[r].product # p
        BY <1>1, <1>2, <1>5, <2>2 DEF Uncrowded
    <2> QED  BY <2>1, <2>2
<1>12. sections' \subseteq SectionRows /\ subs' \subseteq SubRows /\ place' \in [Docs -> Spots]
    BY <1>1, <1>2, <1>5 DEF SectionTypes
<1>13. filing' \in [Requests -> Filings] /\ \A s \in Requests : filing'[s] = filing[s] \/ filing'[s] = S!Idle
    BY <1>1, <1>2, Ends
<1> QED  BY <1>1, <1>3, <1>8, <1>9, <1>10, <1>11, <1>12, <1>13, RowsChange

LEMMA RenameCommits ==
    ASSUME SectionInv, NEW r \in Requests, S!RenameCommit(r)
    PROVE  SectionInv'
<1>1. PICK x \in sections :
        x.id = filing[r].at.section /\ sections' = (sections \ {x}) \cup {[x EXCEPT !.slug = filing[r].slug]}
    BY DEF S!RenameCommit
<1> DEFINE new == [x EXCEPT !.slug = filing[r].slug]
<1>2. /\ filing[r].op = "rename"
      /\ sections' = (sections \ {x}) \cup {new} /\ filed' = filed
      /\ filing' = [filing EXCEPT ![r] = S!Idle]
      /\ full' = full /\ subs' = subs /\ place' = place /\ crowded' = crowded /\ listed' = listed
    BY <1>1 DEF S!RenameCommit
<1>3. SectionTypes /\ RowsFit /\ CallsFit /\ Uncrowded /\ S!PlacesExist
    BY DEF SectionInv
<1>4. filed \in 0 .. SectionIds /\ filed' \in 0 .. SectionIds /\ x \in SectionRows
    BY <1>2, <1>3 DEF SectionTypes
<1>5. filing[r].product \in Products /\ filing[r].slug \in Slugs /\ x.product = filing[r].product
    BY <1>1, <1>2, <1>3 DEF CallsFit, Fits
<1>6. new \in SectionRows /\ new.id = x.id /\ new.product = x.product /\ new.slug = filing[r].slug
    BY <1>4, <1>5 DEF SectionRows
<1> HIDE DEF new
<1>7. RowsGoOn
    BY <1>2, <1>4, <1>6 DEF RowsGoOn
<1>8. RowsFit'
    BY <1>2, <1>3, <1>6 DEF RowsFit
<1>9. S!PlacesExist'
    BY <1>2, <1>3, <1>6 DEF S!PlacesExist
<1>10. ASSUME NEW p \in Products \ crowded
       PROVE  /\ \A v, w \in sections' : v.product = p /\ w.product = p /\ v.slug = w.slug => v = w
              /\ (\E s \in Requests : filing'[s].product = p) =>
                    \A v \in sections' : v.product = p => v \in sections
    <2>1. CASE filing[r].product = p
        <3>1. StillFree(filing[r]) /\ \A s \in Requests \ {r} : filing[s].product # p
            BY <1>3, <2>1 DEF Uncrowded
        <3>2. \A s \in Requests : filing'[s].product # p
            BY <1>2, <1>3, <3>1, Ends, WorkspaceConstants
        <3> QED  BY <1>2, <1>3, <1>5, <1>6, <2>1, <3>1, <3>2 DEF Uncrowded, StillFree
    <2>2. CASE filing[r].product # p
        BY <1>2, <1>3, <1>5, <1>6, <2>2 DEF Uncrowded
    <2> QED  BY <2>1, <2>2
<1>11. sections' \subseteq SectionRows /\ subs' \subseteq SubRows /\ place' \in [Docs -> Spots]
    BY <1>2, <1>3, <1>6 DEF SectionTypes
<1>12. filing' \in [Requests -> Filings] /\ \A s \in Requests : filing'[s] = filing[s] \/ filing'[s] = S!Idle
    BY <1>2, <1>3, Ends
<1> QED  BY <1>2, <1>4, <1>7, <1>8, <1>9, <1>10, <1>11, <1>12, RowsChange

\* Rows are taken out and documents with them; no request ends.
LEMMA FewerRows ==
    ASSUME SectionInv, filing' = filing,
           full' = full, listed' = listed, crowded' = crowded, filed' = filed,
           sections' \subseteq sections, subs' \subseteq subs, place' \in [Docs -> Spots],
           \A y \in subs' : \E x \in sections' : x.id = y.section,
           S!PlacesExist'
    PROVE  SectionInv'
<1>1. SectionTypes /\ RowsFit /\ CallsFit /\ Uncrowded
    BY DEF SectionInv
<1>2. RowsGoOn
    BY <1>1 DEF RowsGoOn, SectionTypes
<1>3. RowsFit'
    BY <1>1 DEF RowsFit
<1>4. \A p \in Products \ crowded :
             /\ \A x, y \in sections' : x.product = p /\ y.product = p /\ x.slug = y.slug => x = y
             /\ (\E s \in Requests : filing'[s].product = p) =>
                   \A x \in sections' : x.product = p => x \in sections
    BY <1>1 DEF Uncrowded
<1>5. /\ filing' \in [Requests -> Filings] /\ \A s \in Requests : filing'[s] = filing[s] \/ filing'[s] = S!Idle
      /\ sections' \subseteq SectionRows /\ subs' \subseteq SubRows /\ filed' \in 0 .. SectionIds
    BY <1>1 DEF SectionTypes
<1> QED  BY <1>2, <1>3, <1>4, <1>5, RowsChange

LEMMA SectionGoes ==
    ASSUME SectionInv, NEW x \in sections, S!DeleteSection(x)
    PROVE  SectionInv'
<1>1. /\ sections' = sections \ {x} /\ subs' = {y \in subs : y.section # x.id}
      /\ filing' = filing /\ full' = full /\ listed' = listed /\ crowded' = crowded /\ filed' = filed
    BY DEF S!DeleteSection
<1>2. place' = [d \in Docs |-> [section |-> IF place[d].section = x.id THEN 0 ELSE place[d].section,
                                sub |-> IF place[d].sub \in {y.id : y \in {z \in subs : z.section = x.id}}
                                        THEN 0 ELSE place[d].sub]]
    BY DEF S!DeleteSection, S!Unfiled
<1>3. SectionTypes /\ RowsFit /\ S!PlacesExist
    BY DEF SectionInv
<1>4. place' \in [Docs -> Spots]
    <2>1. 0 \in 0 .. SectionIds
        BY WorkspaceConstants
    <2>2. \A d \in Docs : place[d].section \in 0 .. SectionIds /\ place[d].sub \in 0 .. SectionIds
        BY <1>3 DEF SectionTypes, Spots
    <2> QED  BY <1>2, <2>1, <2>2 DEF Spots
<1>5. \A y \in subs' : \E w \in sections' : w.id = y.section
    BY <1>1, <1>3 DEF RowsFit
<1>6. S!PlacesExist'
    <2> SUFFICES ASSUME NEW d \in Docs
                 PROVE  /\ place'[d].section # 0 => \E w \in sections' : w.id = place'[d].section
                        /\ place'[d].sub # 0 => \E y \in subs' : y.id = place'[d].sub /\ y.section = place'[d].section
        BY DEF S!PlacesExist
    <2>1. /\ place'[d].section = IF place[d].section = x.id THEN 0 ELSE place[d].section
          /\ place'[d].sub = IF \E y \in subs : y.section = x.id /\ place[d].sub = y.id
                             THEN 0 ELSE place[d].sub
        BY <1>2
    <2>2. /\ place[d].section # 0 => \E w \in sections : w.id = place[d].section
          /\ place[d].sub # 0 => \E y \in subs : y.id = place[d].sub /\ y.section = place[d].section
        BY <1>3 DEF S!PlacesExist
    <2>3. place'[d].section # 0 => \E w \in sections' : w.id = place'[d].section
        BY <1>1, <2>1, <2>2
    <2>4. place'[d].sub # 0 => \E y \in subs' : y.id = place'[d].sub /\ y.section = place'[d].section
        BY <1>1, <2>1, <2>2
    <2> QED  BY <2>3, <2>4
<1> QED  BY <1>1, <1>4, <1>5, <1>6, FewerRows

LEMMA SubsectionGoes ==
    ASSUME SectionInv, NEW z \in subs, S!DeleteSubsection(z)
    PROVE  SectionInv'
<1>1. /\ sections' = sections /\ subs' = subs \ {z}
      /\ place' = [d \in Docs |-> IF place[d].sub = z.id THEN [place[d] EXCEPT !.sub = 0] ELSE place[d]]
      /\ filing' = filing /\ full' = full /\ listed' = listed /\ crowded' = crowded /\ filed' = filed
    BY DEF S!DeleteSubsection, S!Cleared
<1>2. SectionTypes /\ RowsFit /\ S!PlacesExist
    BY DEF SectionInv
<1>3. place' \in [Docs -> Spots]
    <2>1. \A d \in Docs : place[d] \in Spots /\ [place[d] EXCEPT !.sub = 0] \in Spots
        BY <1>2, WorkspaceConstants DEF SectionTypes, Spots
    <2> QED  BY <1>1, <2>1
<1>4. \A y \in subs' : \E w \in sections' : w.id = y.section
    BY <1>1, <1>2 DEF RowsFit
<1>5. S!PlacesExist'
    <2> SUFFICES ASSUME NEW d \in Docs
                 PROVE  /\ place'[d].section # 0 => \E w \in sections' : w.id = place'[d].section
                        /\ place'[d].sub # 0 => \E y \in subs' : y.id = place'[d].sub /\ y.section = place'[d].section
        BY DEF S!PlacesExist
    <2>1. place[d] \in Spots
        BY <1>2 DEF SectionTypes
    <2>2. /\ place'[d].section = place[d].section
          /\ place'[d].sub = IF place[d].sub = z.id THEN 0 ELSE place[d].sub
        BY <1>1, <2>1 DEF Spots
    <2> QED  BY <1>1, <1>2, <2>2 DEF S!PlacesExist
<1> QED  BY <1>1, <1>3, <1>4, <1>5, FewerRows

LEMMA SubsectionComes ==
    ASSUME SectionInv, NEW x \in sections, S!AddSubsection(x)
    PROVE  SectionInv'
<1> DEFINE new == [id |-> filed + 1, section |-> x.id, dflt |-> FALSE]
<1>1. /\ filed < SectionIds /\ filed' = filed + 1
      /\ subs' = subs \cup {new} /\ sections' = sections /\ place' = place
      /\ filing' = filing /\ full' = full /\ listed' = listed /\ crowded' = crowded
    BY DEF S!AddSubsection
<1>2. SectionTypes /\ RowsFit /\ CallsFit /\ Uncrowded /\ S!PlacesExist
    BY DEF SectionInv
<1>3. filed \in 0 .. SectionIds /\ filed' \in 0 .. SectionIds /\ x \in SectionRows
    BY <1>1, <1>2, WorkspaceConstants DEF SectionTypes
<1>4. new \in SubRows /\ new.id = filed + 1 /\ new.section = x.id
    BY <1>1, <1>3, WorkspaceConstants DEF SectionRows, SubRows
<1> HIDE DEF new
<1>5. \A y \in sections : y.id \in 1 .. SectionIds /\ y.id <= filed
    BY <1>2 DEF SectionTypes, SectionRows, RowsFit
<1>6. \A y \in subs : y.id \in 1 .. SectionIds /\ y.id <= filed
    BY <1>2 DEF SectionTypes, SubRows, RowsFit
<1>7. RowsGoOn
    BY <1>1, <1>3, <1>4 DEF RowsGoOn
<1>8. RowsFit'
    BY <1>1, <1>2, <1>3, <1>4, <1>5, <1>6 DEF RowsFit
<1>9. S!PlacesExist'
    BY <1>1, <1>2 DEF S!PlacesExist
<1>10. \A p \in Products \ crowded :
             /\ \A v, w \in sections' : v.product = p /\ w.product = p /\ v.slug = w.slug => v = w
             /\ (\E s \in Requests : filing'[s].product = p) =>
                   \A v \in sections' : v.product = p => v \in sections
    BY <1>1, <1>2 DEF Uncrowded
<1>11. /\ filing' \in [Requests -> Filings] /\ \A s \in Requests : filing'[s] = filing[s] \/ filing'[s] = S!Idle
       /\ sections' \subseteq SectionRows /\ subs' \subseteq SubRows /\ place' \in [Docs -> Spots]
    BY <1>1, <1>2, <1>4 DEF SectionTypes
<1> QED  BY <1>1, <1>3, <1>7, <1>8, <1>9, <1>10, <1>11, RowsChange

\* The document comes where the subsection is, if both are still there.
LEMMA MoveCommits ==
    ASSUME SectionInv, NEW r \in Requests, S!MoveCommit(r)
    PROVE  SectionInv'
<1> DEFINE at == filing[r].at
<1>1. /\ filing[r].op = "move"
      /\ at.section \in {0} \cup {x.id : x \in sections}
      /\ at.sub \in {0} \cup {y.id : y \in subs}
      /\ place' = [place EXCEPT ![filing[r].doc] = at]
      /\ filing' = [filing EXCEPT ![r] = S!Idle]
      /\ sections' = sections /\ subs' = subs /\ filed' = filed
      /\ full' = full /\ listed' = listed /\ crowded' = crowded
    BY DEF S!MoveCommit
<1>2. SectionTypes /\ RowsFit /\ CallsFit /\ Uncrowded /\ S!PlacesExist
    BY DEF SectionInv
<1>3. at \in Spots /\ \A y \in subs : y.id = at.sub => y.section = at.section
    BY <1>1, <1>2 DEF SectionTypes, CallsFit, Fits, Filings
<1> HIDE DEF at
<1>4. /\ place' \in [Docs -> Spots]
      /\ \A d \in Docs : place'[d] = at \/ place'[d] = place[d]
    BY <1>1, <1>2, <1>3 DEF SectionTypes
<1>5. /\ at.section # 0 => \E x \in sections : x.id = at.section
      /\ at.sub # 0 => \E y \in subs : y.id = at.sub /\ y.section = at.section
    BY <1>1, <1>3
<1>6. S!PlacesExist'
    BY <1>1, <1>2, <1>4, <1>5 DEF S!PlacesExist
<1>7. RowsFit' /\ RowsGoOn
    BY <1>1, <1>2 DEF RowsFit, RowsGoOn, SectionTypes
<1>8. \A p \in Products \ crowded :
             /\ \A v, w \in sections' : v.product = p /\ w.product = p /\ v.slug = w.slug => v = w
             /\ (\E s \in Requests : filing'[s].product = p) =>
                   \A v \in sections' : v.product = p => v \in sections
    BY <1>1, <1>2 DEF Uncrowded
<1>9. /\ sections' \subseteq SectionRows /\ subs' \subseteq SubRows /\ filed' \in 0 .. SectionIds
    BY <1>1, <1>2 DEF SectionTypes
<1>10. filing' \in [Requests -> Filings] /\ \A s \in Requests : filing'[s] = filing[s] \/ filing'[s] = S!Idle
    BY <1>1, <1>2, Ends
<1> QED  BY <1>1, <1>4, <1>6, <1>7, <1>8, <1>9, <1>10, RowsChange

LEMMA SectionsCount == \A M : S!Cardinality(M) = Cardinality(M)
BY DEF S!Cardinality, Cardinality, S!IsFiniteSet, IsFiniteSet

\* A list makes as many sections as it has slugs.
LEMMA MadeIsFinite ==
    ASSUME NEW M \in SUBSET [slug: Defaults, subs: BOOLEAN], \A m, n \in M : m.slug = n.slug => m = n
    PROVE  IsFiniteSet(M) /\ S!Cardinality(M) \in Nat
<1> DEFINE f == [m \in M |-> m.slug]
<1>1. f \in Injection(M, Defaults)
    BY DEF Injection, IsInjective
<1>2. IsFiniteSet(M)
    BY <1>1, FS_Injection, WorkspaceConstants
<1> QED  BY <1>2, FS_CardinalityType, SectionsCount

LEMMA ListCommits ==
    ASSUME SectionInv, NEW r \in Requests, S!ListCommit(r)
    PROVE  SectionInv'
<1> DEFINE made == filing[r].made
           n == S!Cardinality(made)
           p == filing[r].product
<1>1. PICK id \in [made -> filed + 1 .. filed + n] :
        /\ \A m, k \in made : id[m] = id[k] => m = k
        /\ sections' = sections \cup
             {[id |-> id[m], product |-> p, slug |-> m.slug, dflt |-> TRUE] : m \in made}
        /\ subs' = subs \cup
             {[id |-> id[m] + n, section |-> id[m], dflt |-> TRUE] : m \in {k \in made : k.subs}}
    BY DEF S!ListCommit
<1>2. /\ filing[r].op = "list" /\ filed + 2 * n <= SectionIds /\ filed' = filed + 2 * n
      /\ filing' = [filing EXCEPT ![r] = S!Idle]
      /\ full' = full /\ listed' = listed /\ crowded' = crowded /\ place' = place
    BY DEF S!ListCommit
<1>3. SectionTypes /\ RowsFit /\ CallsFit /\ Uncrowded /\ S!PlacesExist
    BY DEF SectionInv
<1>4. /\ p \in Products /\ made \subseteq [slug: Defaults, subs: BOOLEAN]
      /\ \A m, k \in made : m.slug = k.slug => m = k
    BY <1>2, <1>3 DEF CallsFit, Fits, SectionTypes, Filings
<1>5. n \in Nat
    BY <1>4, MadeIsFinite
<1> HIDE DEF made, n, p
<1>6. filed \in 0 .. SectionIds /\ filed' \in 0 .. SectionIds /\ filed <= filed'
    BY <1>2, <1>3, <1>5, WorkspaceConstants DEF SectionTypes
<1>7. \A m \in made : id[m] \in Int /\ id[m] > filed /\ id[m] <= filed + n
    BY <1>5, <1>6
<1>8. \A m \in made : id[m] \in 1 .. SectionIds /\ id[m] + n \in 1 .. SectionIds
                      /\ id[m] + n > filed + n /\ id[m] + n <= filed' /\ id[m] <= filed'
    BY <1>2, <1>5, <1>6, <1>7, WorkspaceConstants
<1> DEFINE Row(m) == [id |-> id[m], product |-> p, slug |-> m.slug, dflt |-> TRUE]
           Sub(m) == [id |-> id[m] + n, section |-> id[m], dflt |-> TRUE]
<1>9. \A m \in made : /\ Row(m) \in SectionRows /\ Row(m).id = id[m] /\ Row(m).product = p /\ Row(m).slug = m.slug
                      /\ Sub(m) \in SubRows /\ Sub(m).id = id[m] + n /\ Sub(m).section = id[m]
    BY <1>4, <1>8 DEF SectionRows, SubRows
<1>10. /\ \A x \in sections' : x \in sections \/ \E m \in made : x = Row(m)
       /\ \A m \in made : Row(m) \in sections'
       /\ sections \subseteq sections'
       /\ \A y \in subs' : y \in subs \/ \E m \in made : y = Sub(m)
       /\ subs \subseteq subs'
    BY <1>1
<1> HIDE DEF Row, Sub
<1>11. \A x \in sections : x.id \in 1 .. SectionIds /\ x.id <= filed
    BY <1>3 DEF SectionTypes, SectionRows, RowsFit
<1>12. \A y \in subs : y.id \in 1 .. SectionIds /\ y.id <= filed
    BY <1>3 DEF SectionTypes, SubRows, RowsFit
<1>13. RowsGoOn
    BY <1>5, <1>6, <1>7, <1>8, <1>9, <1>10 DEF RowsGoOn
<1>14. RowsFit'
    <2>1. \A x \in sections' : x.id <= filed'
        BY <1>6, <1>8, <1>9, <1>10, <1>11
    <2>2. \A x, y \in sections' : x.id = y.id => x = y
        BY <1>1, <1>3, <1>6, <1>7, <1>9, <1>10, <1>11 DEF RowsFit
    <2>3. \A y \in subs' : y.id <= filed'
        BY <1>6, <1>8, <1>9, <1>10, <1>12
    <2>4. \A y \in subs' : \E x \in sections' : x.id = y.section
        BY <1>3, <1>9, <1>10 DEF RowsFit
    <2>5. \A y, z \in subs' : y.id = z.id => y = z
        <3> SUFFICES ASSUME NEW y \in subs', NEW z \in subs', y.id = z.id PROVE y = z
            OBVIOUS
        <3>1. CASE y \in subs /\ z \in subs
            BY <1>3, <3>1 DEF RowsFit
        <3>2. ASSUME NEW m \in made, NEW k \in made, y = Sub(m), z = Sub(k) PROVE y = z
            <4>1. id[m] + n = id[k] + n
                BY <1>9, <3>2
            <4> QED  BY <1>1, <1>5, <1>7, <3>2, <4>1
        <3>3. ASSUME NEW u \in subs, NEW m \in made PROVE u.id # Sub(m).id
            BY <1>5, <1>6, <1>7, <1>9, <1>12
        <3> QED  BY <1>10, <3>1, <3>2, <3>3
    <2> QED  BY <2>1, <2>2, <2>3, <2>4, <2>5 DEF RowsFit
<1>15. S!PlacesExist'
    BY <1>2, <1>3, <1>10 DEF S!PlacesExist
<1>16. ASSUME NEW q \in Products \ crowded
       PROVE  /\ \A x, y \in sections' : x.product = q /\ y.product = q /\ x.slug = y.slug => x = y
              /\ (\E s \in Requests : filing'[s].product = q) =>
                    \A x \in sections' : x.product = q => x \in sections
    <2>1. CASE p = q
        <3>1. StillFree(filing[r]) /\ \A s \in Requests \ {r} : filing[s].product # q
            BY <1>3, <2>1 DEF Uncrowded, p
        <3>2. \A s \in Requests : filing'[s].product # q
            BY <1>2, <1>3, <3>1, Ends, WorkspaceConstants
        <3>3. \A x \in sections : x.product # q
            BY <1>2, <2>1, <3>1 DEF StillFree, p
        <3>4. \A x \in sections' : x.product = q => \E m \in made : x = Row(m)
            BY <1>10, <3>3
        <3> QED  BY <1>4, <1>9, <3>2, <3>4
    <2>2. CASE p # q
        <3>1. \A x \in sections' : x.product = q => x \in sections
            BY <1>9, <1>10, <2>2
        <3> QED  BY <1>3, <3>1 DEF Uncrowded
    <2> QED  BY <2>1, <2>2
<1>17. sections' \subseteq SectionRows /\ subs' \subseteq SubRows /\ place' \in [Docs -> Spots]
    BY <1>2, <1>3, <1>9, <1>10 DEF SectionTypes
<1>18. filing' \in [Requests -> Filings] /\ \A s \in Requests : filing'[s] = filing[s] \/ filing'[s] = S!Idle
    BY <1>2, <1>3, Ends
<1> QED  BY <1>2, <1>6, <1>13, <1>14, <1>15, <1>16, <1>17, <1>18, RowsChange

LEMMA SectionsStay == SectionInv /\ S!Next => SectionInv'
BY ListCommits, CreateCommits, RenameCommits, MoveCommits, Aborts, ListBegins, CreateBegins, ListSteps,
   RenameBegins, MoveBegins, SectionGoes, SubsectionComes, SubsectionGoes, Restarts
DEF S!Next

LEMMA SectionsBegin == S!Init => SectionInv
<1> SUFFICES ASSUME S!Init PROVE SectionInv
    OBVIOUS
<1>1. SectionTypes
    BY IdleFiling, WorkspaceConstants DEF S!Init, SectionTypes, Spots
<1>2. sections = {} /\ subs = {} /\ \A r \in Requests : filing[r] = S!Idle
    BY DEF S!Init
<1>3. RowsFit /\ CallsFit
    BY <1>2, IdleFiling DEF RowsFit, CallsFit
<1>4. Uncrowded
    BY <1>2, IdleFiling, WorkspaceConstants DEF Uncrowded
<1>5. FirstList
    BY <1>2, IdleFiling DEF S!Init, FirstList
<1>6. S!PlacesExist
    BY DEF S!Init, S!PlacesExist
<1> QED  BY <1>1, <1>3, <1>4, <1>5, <1>6 DEF SectionInv

LEMMA SectionsHold ==
    SectionInv => S!TypeOK /\ S!TwinSlugsNeedAnOverlap /\ S!PlacesExist /\ S!FirstDefaultsAreFull
<1> SUFFICES ASSUME SectionInv
             PROVE  S!TypeOK /\ S!TwinSlugsNeedAnOverlap /\ S!FirstDefaultsAreFull
    BY DEF SectionInv
<1>1. S!TypeOK
    BY DEF SectionInv, SectionTypes, SectionRows, SubRows, Spots, S!TypeOK
<1>2. S!TwinSlugsNeedAnOverlap
    BY DEF SectionInv, Uncrowded, S!TwinSlugsNeedAnOverlap, S!Of
<1>3. S!FirstDefaultsAreFull
    BY DEF SectionInv, FirstList, S!FirstDefaultsAreFull
<1> QED  BY <1>1, <1>2, <1>3

LEMMA SectionsRest == SectionInv /\ UNCHANGED documentSections => SectionInv'
BY DEF documentSections, SectionInv, SectionTypes, RowsFit, CallsFit, Fits, Uncrowded, StillFree,
       FirstList, S!PlacesExist

-----------------------------------------------------------------------------
(* Variables: who adds alone, and renames nothing, adds keys nobody added.  *)

EntryRows == [id: 1 .. EntryIds, user: Users, key: Keys, secret: BOOLEAN, enc: BOOLEAN]
Adds == [op: {"add"}, user: Users, new: SUBSET [key: Keys, secret: BOOLEAN]]
Changes == [op: {"update"}, user: Users, id: 1 .. EntryIds, key: A!Option(Keys), text: BOOLEAN,
            secret: A!Option(BOOLEAN), seen: BOOLEAN, hide: BOOLEAN]

EntryTypes ==
    /\ entries \subseteq EntryRows /\ turned \subseteq 1 .. EntryIds
    /\ mingled \subseteq Users /\ entered \in 0 .. EntryIds
    /\ editing \in [Requests -> {A!Idle} \cup Adds \cup Changes]

EntriesFit ==
    /\ \A e \in entries : e.id <= entered
    /\ \A d, e \in entries : d.id = e.id => d = e

\* What a request carries: finitely many new entries with keys of their own, or
\* an entry of the user it is counted to and how its new text will be stored.
EditFits(c) ==
    /\ c.op = "add" =>
          /\ IsFiniteSet(c.new)
          /\ \A m, n \in c.new : m.key = n.key => m = n
    /\ c.op = "update" =>
          /\ c.id <= entered
          /\ \A e \in entries : e.id = c.id => e.user = c.user
          /\ c.hide <=> (IF c.secret = {} THEN c.seen ELSE TRUE \in c.secret)

EditsFit == \A r \in Requests : EditFits(editing[r])

\* The keys a request adds are still free, and it renames nothing.
KeysFree(c) ==
    /\ c.op = "add" => \A m \in c.new, e \in entries : e.user = c.user => e.key # m.key
    /\ c.op = "update" => c.key = {}

Open(r, u) == editing[r] # A!Idle /\ editing[r].user = u

Unmingled ==
    \A u \in Users \ mingled :
      /\ \A r, s \in Requests : Open(r, u) /\ Open(s, u) => r = s
      /\ \A d, e \in entries : d.user = u /\ e.user = u /\ d.key = e.key => d = e
      /\ \A r \in Requests : Open(r, u) => KeysFree(editing[r])

VariableInv == EntryTypes /\ EntriesFit /\ EditsFit /\ Unmingled /\ A!KeptSecretsAreEncrypted

\* Calls and rows, field by field.
LEMMA EditKinds ==
    /\ A!Idle.op = "idle"
    /\ \A c \in Adds : c.op = "add" /\ c # A!Idle /\ c.user \in Users
                       /\ c.new \subseteq [key: Keys, secret: BOOLEAN]
    /\ \A c \in Changes : c.op = "update" /\ c # A!Idle /\ c.user \in Users /\ c.id \in 1 .. EntryIds
                       /\ c.key \in A!Option(Keys) /\ c.secret \in A!Option(BOOLEAN)
                       /\ c.text \in BOOLEAN /\ c.seen \in BOOLEAN /\ c.hide \in BOOLEAN
BY DEF A!Idle, Adds, Changes

LEMMA GivenIs ==
    ASSUME NEW X, NEW set \in A!Option(X), NEW old
    PROVE  /\ A!Given({}, old) = old
           /\ set # {} => A!Given(set, old) \in X
           /\ \A x : set = {x} => A!Given(set, old) = x
BY DEF A!Option, A!Given

LEMMA UpdatedIs ==
    ASSUME NEW e \in EntryRows, NEW c \in Changes
    PROVE  /\ A!Updated(e, c) \in EntryRows
           /\ A!Updated(e, c).id = e.id /\ A!Updated(e, c).user = e.user
           /\ c.key = {} => A!Updated(e, c).key = e.key
           /\ A!Updated(e, c).secret = A!Given(c.secret \ {c.seen}, e.secret)
           /\ A!Updated(e, c).enc = IF c.text THEN c.hide ELSE e.enc
<1>1. c.key \in A!Option(Keys) /\ c.secret \in A!Option(BOOLEAN) /\ c.hide \in BOOLEAN
    BY EditKinds
<1>2. c.secret \ {c.seen} \in A!Option(BOOLEAN)
    <2>1. CASE c.secret = {}
        BY <2>1 DEF A!Option
    <2>2. ASSUME NEW b \in BOOLEAN, c.secret = {b} PROVE c.secret \ {c.seen} \in {{}, {b}}
        BY <2>2
    <2>3. \A b \in BOOLEAN : {b} \in A!Option(BOOLEAN) /\ {} \in A!Option(BOOLEAN)
        BY DEF A!Option
    <2>4. c.secret = {} \/ \E b \in BOOLEAN : c.secret = {b}
        BY <1>1 DEF A!Option
    <2> QED  BY <2>1, <2>2, <2>3, <2>4
<1>3. e.key \in Keys /\ e.secret \in BOOLEAN /\ e.enc \in BOOLEAN /\ e.id \in 1 .. EntryIds /\ e.user \in Users
    BY DEF EntryRows
<1> DEFINE k == A!Given(c.key, e.key)
           s == A!Given(c.secret \ {c.seen}, e.secret)
           n == IF c.text THEN c.hide ELSE e.enc
<1>4. k \in Keys /\ (c.key = {} => k = e.key)
    <2>1. CASE c.key = {}
        BY <1>3, <2>1 DEF A!Given
    <2>2. CASE c.key # {}
        BY <1>1, <2>2, GivenIs
    <2> QED  BY <2>1, <2>2
<1>5. s \in BOOLEAN
    BY <1>2, <1>3, GivenIs
<1>6. n \in BOOLEAN
    BY <1>1, <1>3
<1>7. A!Updated(e, c) = [e EXCEPT !.key = k, !.secret = s, !.enc = n]
    BY DEF A!Updated, A!Encrypted
<1> HIDE DEF k, s, n
<1>8. A!Updated(e, c) = [id |-> e.id, user |-> e.user, key |-> k, secret |-> s, enc |-> n]
    BY <1>7 DEF EntryRows
<1>9. A!Updated(e, c) \in EntryRows
    BY <1>3, <1>4, <1>5, <1>6, <1>8 DEF EntryRows
<1> QED  BY <1>4, <1>8, <1>9 DEF s, n

\* A step that leaves the rows of the entries alone, and ends calls or begins
\* one that fits.
LEMMA CallsChange ==
    ASSUME VariableInv, NEW r \in Requests, NEW u \in Users, NEW c \in Adds \cup Changes,
           editing[r] = A!Idle, c.user = u, EditFits(c),
           editing' = [editing EXCEPT ![r] = c],
           mingled \subseteq mingled', mingled' \subseteq Users, A!Crowd(r, u) \subseteq mingled',
           u \notin mingled' => KeysFree(c),
           UNCHANGED <<entries, turned, entered>>
    PROVE  VariableInv'
<1>1. EntryTypes /\ EntriesFit /\ EditsFit /\ Unmingled /\ A!KeptSecretsAreEncrypted
    BY DEF VariableInv
<1>2. editing'[r] = c /\ \A s \in Requests \ {r} : editing'[s] = editing[s]
    BY <1>1 DEF EntryTypes
<1>3. EntryTypes'
    BY <1>1 DEF EntryTypes
<1>4. EntriesFit' /\ A!KeptSecretsAreEncrypted'
    BY <1>1 DEF EntriesFit, A!KeptSecretsAreEncrypted
<1>5. EditsFit'
    <2>1. EditFits(editing[r])'
        BY <1>2 DEF EditFits
    <2>2. ASSUME NEW s \in Requests \ {r} PROVE EditFits(editing[s])'
        <3>1. editing'[s] = editing[s] /\ EditFits(editing[s])
            BY <1>1, <1>2 DEF EditsFit
        <3> QED  BY <3>1 DEF EditFits
    <2> QED  BY <2>1, <2>2 DEF EditsFit
<1>6. Unmingled'
    <2> SUFFICES ASSUME NEW v \in Users, v \notin mingled'
                 PROVE  /\ \A q, s \in Requests : Open(q, v)' /\ Open(s, v)' => q = s
                        /\ \A d, e \in entries : d.user = v /\ e.user = v /\ d.key = e.key => d = e
                        /\ \A q \in Requests : Open(q, v)' => KeysFree(editing[q])'
        BY DEF Unmingled
    <2>1. v \notin mingled
        OBVIOUS
    <2>2. CASE v = u
        <3>1. \A s \in Requests \ {r} : ~Open(s, v)
            BY <2>2 DEF A!Crowd, A!Busy, Open
        <3>2. \A s \in Requests \ {r} : ~Open(s, v)'
            BY <1>2, <3>1 DEF Open
        <3>3. KeysFree(editing[r])'
            BY <1>2, <2>2 DEF KeysFree
        <3> QED  BY <1>1, <2>1, <3>2, <3>3 DEF Unmingled
    <2>3. CASE v # u
        <3>1. \A s \in Requests : Open(s, v)' => Open(s, v) /\ s # r
            BY <1>2, <2>3 DEF Open
        <3> QED  BY <1>1, <1>2, <2>1, <3>1 DEF Unmingled, KeysFree
    <2> QED  BY <2>2, <2>3
<1> QED  BY <1>3, <1>4, <1>5, <1>6 DEF VariableInv

LEMMA CreateEntryBegins ==
    ASSUME VariableInv, NEW r \in Requests, NEW u \in Users, NEW k \in Keys, NEW s \in BOOLEAN,
           A!CreateBegin(r, u, k, s)
    PROVE  VariableInv'
<1> DEFINE m == [key |-> k, secret |-> s]
           c == [op |-> "add", user |-> u, new |-> {m}]
<1>1. c \in Adds /\ c.user = u /\ c.op = "add" /\ c.new = {m} /\ m.key = k
    BY DEF Adds
<1>2. IsFiniteSet({m})
    BY FS_Singleton
<1>3. EditFits(c)
    BY <1>1, <1>2 DEF EditFits
<1>4. KeysFree(c)
    BY <1>1 DEF A!CreateBegin, A!Under, A!Of, KeysFree
<1>5. /\ editing[r] = A!Idle /\ editing' = [editing EXCEPT ![r] = c]
      /\ mingled' = A!Crowd(r, u) /\ UNCHANGED <<entries, turned, entered>>
    BY DEF A!CreateBegin
<1>6. mingled \subseteq mingled' /\ mingled' \subseteq Users
    BY <1>5 DEF A!Crowd, VariableInv, EntryTypes
<1> HIDE DEF c
<1> QED  BY <1>1, <1>3, <1>4, <1>5, <1>6, CallsChange

\* What a batch leaves to add: entries with keys of their own that the caller
\* has not.
LEMMA FreshIs ==
    ASSUME NEW u \in Users, NEW batch \in A!Batches, NEW new, new = A!Fresh(u, batch)
    PROVE  /\ new \subseteq [key: Keys, secret: BOOLEAN]
           /\ IsFiniteSet(new)
           /\ \A m, n \in new : m.key = n.key => m = n
           /\ \A m \in new, e \in entries : e.user = u => e.key # m.key
<1>1. DOMAIN batch = 1 .. 2 /\ batch[1] \in [key: Keys, secret: BOOLEAN] /\ batch[2] \in [key: Keys, secret: BOOLEAN]
    BY DEF A!Batches
<1>2. \A m \in new : \E i \in 1 .. 2 :
         m = batch[i] /\ i \in A!LastOf(batch) /\ m.key \notin A!Known(u, {x.key : x \in A!Range(batch)})
    BY <1>1 DEF A!Fresh, A!LastOf
<1>3. new \subseteq {batch[1]} \cup {batch[2]}
    <2>1. \A i \in 1 .. 2 : i = 1 \/ i = 2
        OBVIOUS
    <2> QED  BY <1>2, <2>1
<1>4. IsFiniteSet({batch[1]} \cup {batch[2]})
    BY FS_Singleton, FS_AddElement
<1>5. IsFiniteSet(new)
    BY <1>3, <1>4, FS_Subset
<1>6. \A i, j \in A!LastOf(batch) : batch[i].key = batch[j].key => i = j
    BY <1>1 DEF A!LastOf
<1>7. \A m, n \in new : m.key = n.key => m = n
    BY <1>2, <1>6
<1>8. \A i \in 1 .. 2 : batch[i].key \in {x.key : x \in A!Range(batch)}
    BY <1>1 DEF A!Range
<1>9. ASSUME NEW m \in new, NEW e \in entries, e.user = u PROVE e.key # m.key
    BY <1>2, <1>8, <1>9 DEF A!Known, A!Of
<1> QED  BY <1>1, <1>3, <1>5, <1>7, <1>9

LEMMA BulkBegins ==
    ASSUME VariableInv, NEW r \in Requests, NEW u \in Users, NEW batch \in A!Batches,
           A!BulkBegin(r, u, batch)
    PROVE  VariableInv'
<1> DEFINE new == A!Fresh(u, batch)
           c == [op |-> "add", user |-> u, new |-> new]
<1>1. /\ editing[r] = A!Idle /\ editing' = [editing EXCEPT ![r] = c]
      /\ mingled' = A!Crowd(r, u) /\ UNCHANGED <<entries, turned, entered>>
    BY DEF A!BulkBegin
<1>2. /\ new \subseteq [key: Keys, secret: BOOLEAN]
      /\ IsFiniteSet(new)
      /\ \A m, n \in new : m.key = n.key => m = n
      /\ \A m \in new, e \in entries : e.user = u => e.key # m.key
    BY FreshIs
<1> HIDE DEF new
<1>3. c \in Adds /\ c.user = u /\ c.op = "add" /\ c.new = new
    BY <1>2 DEF Adds
<1> HIDE DEF c
<1>4. EditFits(c) /\ KeysFree(c)
    BY <1>2, <1>3 DEF EditFits, KeysFree
<1>5. mingled \subseteq mingled' /\ mingled' \subseteq Users
    BY <1>1 DEF A!Crowd, VariableInv, EntryTypes
<1> QED  BY <1>1, <1>3, <1>4, <1>5, CallsChange

LEMMA UpdateBegins ==
    ASSUME VariableInv, NEW r \in Requests, NEW e \in entries, NEW key \in A!Option(Keys),
           NEW text \in BOOLEAN, NEW secret \in A!Option(BOOLEAN),
           A!UpdateBegin(r, e, key, text, secret)
    PROVE  VariableInv'
<1> DEFINE hide == A!Hidden(e, secret)
           u == e.user
           c == [op |-> "update", user |-> u, id |-> e.id, key |-> key, text |-> text,
                 secret |-> secret, seen |-> e.secret, hide |-> hide]
<1>1. /\ editing[r] = A!Idle /\ editing' = [editing EXCEPT ![r] = c]
      /\ mingled' = A!Crowd(r, u) \cup (IF key = {} THEN {} ELSE {u})
      /\ UNCHANGED <<entries, turned, entered>>
    BY DEF A!UpdateBegin
<1>2. e \in EntryRows /\ EntriesFit
    BY DEF VariableInv, EntryTypes
<1>3. u \in Users /\ e.id \in 1 .. EntryIds /\ e.secret \in BOOLEAN
    BY <1>2 DEF EntryRows
<1>4. hide \in BOOLEAN /\ (hide <=> (IF secret = {} THEN e.secret ELSE TRUE \in secret))
    <2>1. (TRUE \in secret) \in BOOLEAN
        OBVIOUS
    <2>2. CASE secret = {}
        BY <1>3, <2>2 DEF A!Hidden
    <2>3. CASE secret # {}
        BY <2>1, <2>3 DEF A!Hidden
    <2> QED  BY <2>2, <2>3
<1> HIDE DEF hide, u
<1>5. c \in Changes
    BY <1>3, <1>4 DEF Changes
<1>6. /\ c.user = u /\ c.op = "update" /\ c.key = key /\ c.id = e.id /\ c.secret = secret
      /\ c.seen = e.secret /\ c.hide = hide
    OBVIOUS
<1> HIDE DEF c
<1>7. EditFits(c)
    BY <1>2, <1>4, <1>6 DEF EditFits, EntriesFit, u
<1>8. u \notin mingled' => KeysFree(c)
    BY <1>1, <1>6 DEF KeysFree
<1>9. mingled \subseteq mingled' /\ mingled' \subseteq Users /\ A!Crowd(r, u) \subseteq mingled'
    BY <1>1, <1>3 DEF A!Crowd, VariableInv, EntryTypes
<1> QED  BY <1>1, <1>3, <1>5, <1>6, <1>7, <1>8, <1>9, CallsChange

\* A step that changes the entries and ends a call or none.
LEMMA EntriesChange ==
    ASSUME VariableInv,
           editing' \in [Requests -> {A!Idle} \cup Adds \cup Changes],
           \A s \in Requests : editing'[s] = editing[s] \/ editing'[s] = A!Idle,
           mingled' = mingled, entered' \in 0 .. EntryIds, entered <= entered',
           turned' \subseteq 1 .. EntryIds, entries' \subseteq EntryRows,
           EntriesFit', A!KeptSecretsAreEncrypted',
           \A e \in entries' : e.id > entered \/ \E d \in entries : d.id = e.id /\ d.user = e.user,
           \A u \in Users \ mingled :
              /\ \A d, e \in entries' : d.user = u /\ e.user = u /\ d.key = e.key => d = e
              /\ (\E s \in Requests : Open(s, u)') =>
                    \A e \in entries' : e.user = u => \E d \in entries : d.user = u /\ d.key = e.key
    PROVE  VariableInv'
<1>1. EntryTypes /\ EntriesFit /\ EditsFit /\ Unmingled
    BY DEF VariableInv
<1>2. EntryTypes'
    BY <1>1 DEF EntryTypes
<1>3. EditsFit'
    <2> SUFFICES ASSUME NEW s \in Requests PROVE EditFits(editing[s])'
        BY DEF EditsFit
    <2>1. CASE editing'[s] = A!Idle
        BY <2>1, EditKinds DEF EditFits
    <2>2. CASE editing'[s] = editing[s]
        <3>0. PICK c \in {A!Idle} \cup Adds \cup Changes : c = editing[s]
            BY <1>1 DEF EntryTypes
        <3>1. EditFits(c)
            BY <1>1, <3>0 DEF EditsFit
        <3>2. ASSUME c.op = "update" PROVE c.id \in 1 .. EntryIds /\ c.id <= entered
            BY <3>1, <3>2, EditKinds DEF EditFits
        <3>3. ASSUME c.op = "update" PROVE c.id <= entered'
            BY <1>1, <3>2, <3>3, WorkspaceConstants DEF EntryTypes
        <3>4. ASSUME c.op = "update", NEW e \in entries', e.id = c.id PROVE e.user = c.user
            <4>1. \E d \in entries : d.id = e.id /\ d.user = e.user
                BY <1>1, <3>2, <3>4, WorkspaceConstants DEF EntryTypes
            <4> QED  BY <3>1, <3>4, <4>1 DEF EditFits
        <3>5. editing'[s] = c
            BY <2>2, <3>0
        <3>6. EditFits(c)'
            BY <3>1, <3>3, <3>4 DEF EditFits
        <3> QED  BY <3>5, <3>6
    <2> QED  BY <2>1, <2>2
<1>4. Unmingled'
    <2> SUFFICES ASSUME NEW u \in Users \ mingled
                 PROVE  /\ \A r, s \in Requests : Open(r, u)' /\ Open(s, u)' => r = s
                        /\ \A r \in Requests : Open(r, u)' => KeysFree(editing[r])'
        BY DEF Unmingled
    <2>1. \A r \in Requests : Open(r, u)' => Open(r, u) /\ editing'[r] = editing[r]
        BY DEF Open
    <2>2. ASSUME NEW r \in Requests, Open(r, u)' PROVE KeysFree(editing[r])'
        <3>1. KeysFree(editing[r]) /\ editing'[r] = editing[r] /\ editing[r].user = u
            BY <1>1, <2>1, <2>2 DEF Unmingled, Open
        <3> QED  BY <2>2, <3>1 DEF KeysFree
    <2> QED  BY <1>1, <2>1, <2>2 DEF Unmingled
<1> QED  BY <1>1, <1>2, <1>3, <1>4 DEF VariableInv

LEMMA EditEnds ==
    ASSUME VariableInv, NEW r \in Requests, editing' = [editing EXCEPT ![r] = A!Idle]
    PROVE  /\ editing' \in [Requests -> {A!Idle} \cup Adds \cup Changes]
           /\ editing'[r] = A!Idle
           /\ \A s \in Requests \ {r} : editing'[s] = editing[s]
           /\ \A s \in Requests : editing'[s] = editing[s] \/ editing'[s] = A!Idle
BY DEF VariableInv, EntryTypes

LEMMA EditAborts ==
    ASSUME VariableInv, NEW r \in Requests, A!Abort(r)
    PROVE  VariableInv'
<1>1. editing' = [editing EXCEPT ![r] = A!Idle] /\ UNCHANGED <<entries, turned, mingled, entered>>
    BY DEF A!Abort
<1>2. EntriesFit' /\ A!KeptSecretsAreEncrypted'
    BY <1>1 DEF VariableInv, EntriesFit, A!KeptSecretsAreEncrypted
<1>3. entered \in 0 .. EntryIds /\ turned \subseteq 1 .. EntryIds /\ entries \subseteq EntryRows /\ Unmingled
    BY DEF VariableInv, EntryTypes
<1>4. entered <= entered'
    BY <1>1, <1>3, WorkspaceConstants
<1> QED  BY <1>1, <1>2, <1>3, <1>4, EditEnds, EntriesChange DEF Unmingled

LEMMA EntryGoes ==
    ASSUME VariableInv, NEW g \in entries, A!Delete(g)
    PROVE  VariableInv'
<1>1. entries' = entries \ {g} /\ UNCHANGED <<editing, turned, mingled, entered>>
    BY DEF A!Delete
<1>2. EntriesFit' /\ A!KeptSecretsAreEncrypted'
    BY <1>1 DEF VariableInv, EntriesFit, A!KeptSecretsAreEncrypted
<1>3. entered \in 0 .. EntryIds /\ turned \subseteq 1 .. EntryIds /\ entries \subseteq EntryRows /\ Unmingled
      /\ editing \in [Requests -> {A!Idle} \cup Adds \cup Changes]
    BY DEF VariableInv, EntryTypes
<1>4. entered <= entered'
    BY <1>1, <1>3, WorkspaceConstants
<1> QED  BY <1>1, <1>2, <1>3, <1>4, EntriesChange DEF Unmingled

LEMMA EntryChanges ==
    ASSUME VariableInv, NEW r \in Requests, A!UpdateCommit(r)
    PROVE  VariableInv'
<1> DEFINE c == editing[r]
<1>1. /\ c.op = "update" /\ editing' = [editing EXCEPT ![r] = A!Idle]
      /\ UNCHANGED <<mingled, entered>>
    BY DEF A!UpdateCommit
<1>2. PICK e \in entries :
        /\ e.id = c.id
        /\ entries' = (entries \ {e}) \cup {A!Updated(e, c)}
        /\ turned' = IF A!Updated(e, c).secret # e.secret \/ c.seen # e.secret
                     THEN turned \cup {e.id} ELSE turned
    BY DEF A!UpdateCommit
<1>3. /\ EntryTypes /\ EntriesFit /\ EditsFit /\ Unmingled /\ A!KeptSecretsAreEncrypted
      /\ entered \in 0 .. EntryIds /\ turned \subseteq 1 .. EntryIds /\ entries \subseteq EntryRows
    BY DEF VariableInv, EntryTypes
<1>4. c \in Changes /\ EditFits(c) /\ e \in EntryRows
    BY <1>1, <1>3, EditKinds DEF EntryTypes, EditsFit
<1> DEFINE f == A!Updated(e, c)
<1>5. /\ f \in EntryRows /\ f.id = e.id /\ f.user = e.user /\ (c.key = {} => f.key = e.key)
      /\ f.secret = A!Given(c.secret \ {c.seen}, e.secret)
      /\ f.enc = IF c.text THEN c.hide ELSE e.enc
    BY <1>4, UpdatedIs
<1>6. e.user = c.user /\ c # A!Idle
    BY <1>1, <1>2, <1>4, EditKinds DEF EditFits
<1> HIDE DEF c, f
<1>7. /\ \A d \in entries' : d = f \/ (d \in entries /\ d # e)
      /\ \A d \in entries' : d.id > entered \/ \E b \in entries : b.id = d.id /\ b.user = d.user
    BY <1>2, <1>5 DEF f
<1>8. EntriesFit'
    BY <1>1, <1>2, <1>3, <1>5, <1>7 DEF EntriesFit
<1>9. turned' \subseteq 1 .. EntryIds /\ entries' \subseteq EntryRows /\ entered <= entered'
    <2>1. e.id \in 1 .. EntryIds
        BY <1>4 DEF EntryRows
    <2>2. turned' \subseteq 1 .. EntryIds
        BY <1>2, <1>3, <2>1
    <2>3. entries' \subseteq EntryRows
        BY <1>3, <1>5, <1>7
    <2>4. entered <= entered'
        BY <1>1, <1>3, WorkspaceConstants
    <2> QED  BY <2>2, <2>3, <2>4
<1>10. ASSUME f.id \notin turned' PROVE f.enc <=> f.secret
    <2>1. f.secret = e.secret /\ c.seen = e.secret /\ (e.enc <=> e.secret)
        BY <1>2, <1>3, <1>5, <1>10 DEF A!KeptSecretsAreEncrypted, f
    <2>2. c.secret \in A!Option(BOOLEAN) /\ e.secret \in BOOLEAN /\ c.hide \in BOOLEAN /\ c.seen \in BOOLEAN
          /\ f.enc \in BOOLEAN
        BY <1>4, <1>5, EditKinds DEF EntryRows
    <2>3. c.hide <=> (IF c.secret = {} THEN c.seen ELSE TRUE \in c.secret)
        BY <1>1, <1>4 DEF EditFits
    <2>4. c.hide <=> e.secret
        <3>1. CASE c.secret = {}
            BY <2>1, <2>3, <3>1
        <3>2. ASSUME NEW b \in BOOLEAN, c.secret = {b} PROVE c.hide <=> e.secret
            <4>1. c.hide <=> b
                BY <2>3, <3>2
            <4>2. ASSUME b # c.seen PROVE FALSE
                <5>1. c.secret \ {c.seen} = {b}
                    BY <3>2, <4>2
                <5>2. A!Given({b}, e.secret) = b
                    BY DEF A!Given
                <5> QED  BY <1>5, <2>1, <4>2, <5>1, <5>2
            <4> QED  BY <2>1, <4>1, <4>2
        <3>3. c.secret = {} \/ \E b \in BOOLEAN : c.secret = {b}
            BY <2>2 DEF A!Option
        <3> QED  BY <3>1, <3>2, <3>3
    <2>5. CASE c.text
        BY <1>5, <2>1, <2>4, <2>5
    <2>6. CASE ~c.text
        BY <1>5, <2>1, <2>6
    <2> QED  BY <2>5, <2>6
<1>11. A!KeptSecretsAreEncrypted'
    <2> SUFFICES ASSUME NEW d \in entries', d.id \notin turned' PROVE d.enc <=> d.secret
        BY DEF A!KeptSecretsAreEncrypted
    <2>1. CASE d = f
        BY <1>10, <2>1
    <2>2. CASE d \in entries /\ d # e
        <3>1. d.id \notin turned
            BY <1>2
        <3> QED  BY <1>3, <2>2, <3>1 DEF A!KeptSecretsAreEncrypted
    <2> QED  BY <1>7, <2>1, <2>2
<1>12. ASSUME NEW u \in Users \ mingled
       PROVE  /\ \A a, b \in entries' : a.user = u /\ b.user = u /\ a.key = b.key => a = b
              /\ \A a \in entries' : a.user = u => \E d \in entries : d.user = u /\ d.key = a.key
    <2>1. ASSUME e.user = u PROVE f.key = e.key
        <3>1. KeysFree(c)
            BY <1>3, <1>6, <2>1 DEF Unmingled, Open, c
        <3> QED  BY <1>1, <1>5, <3>1 DEF KeysFree, c
    <2>2. \A a, b \in entries : a.user = u /\ b.user = u /\ a.key = b.key => a = b
        BY <1>3 DEF Unmingled
    <2> QED  BY <1>5, <1>7, <2>1, <2>2
<1>13. /\ editing' \in [Requests -> {A!Idle} \cup Adds \cup Changes]
       /\ \A s \in Requests : editing'[s] = editing[s] \/ editing'[s] = A!Idle
    BY <1>1, EditEnds
<1> QED  BY <1>1, <1>3, <1>7, <1>8, <1>9, <1>11, <1>12, <1>13, EntriesChange

\* A finite set is numbered without a repetition.
LEMMA Numbering ==
    ASSUME NEW M, IsFiniteSet(M), NEW f, f = A!SetToSeq(M)
    PROVE  /\ Cardinality(M) \in Nat
           /\ f \in [1 .. Cardinality(M) -> M]
           /\ \A i, j \in 1 .. Cardinality(M) : f[i] = f[j] => i = j
<1>1. A!Cardinality(M) = Cardinality(M)
    BY DEF A!Cardinality, Cardinality, A!IsFiniteSet, IsFiniteSet
<1>2. Cardinality(M) \in Nat /\ ExistsBijection(1 .. Cardinality(M), M)
    BY FS_CardinalityType
<1>3. \E g \in [1 .. Cardinality(M) -> M] : A!IsInjective(g)
    BY <1>2 DEF ExistsBijection, Bijection, Injection, Surjection, IsInjective, A!IsInjective
<1>4. f \in [1 .. Cardinality(M) -> M] /\ A!IsInjective(f)
    BY <1>1, <1>3 DEF A!SetToSeq
<1> QED  BY <1>2, <1>4 DEF A!IsInjective

LEMMA EntriesCome ==
    ASSUME VariableInv, NEW r \in Requests, A!AddCommit(r)
    PROVE  VariableInv'
<1> DEFINE c == editing[r]
           new == A!SetToSeq(c.new)
           n == Cardinality(c.new)
           Entry(i) == [id |-> entered + i, user |-> c.user, key |-> new[i].key,
                        secret |-> new[i].secret, enc |-> new[i].secret]
<1>1. /\ c.op = "add" /\ editing' = [editing EXCEPT ![r] = A!Idle]
      /\ UNCHANGED <<turned, mingled>>
    BY DEF A!AddCommit
<1>2. /\ EntryTypes /\ EntriesFit /\ EditsFit /\ Unmingled /\ A!KeptSecretsAreEncrypted
      /\ entered \in 0 .. EntryIds /\ turned \subseteq 1 .. EntryIds /\ entries \subseteq EntryRows
    BY DEF VariableInv, EntryTypes
<1>3. /\ c # A!Idle /\ c.user \in Users /\ c.new \subseteq [key: Keys, secret: BOOLEAN]
      /\ IsFiniteSet(c.new) /\ \A l, m \in c.new : l.key = m.key => l = m
    BY <1>1, <1>2, EditKinds DEF EntryTypes, EditsFit, EditFits
<1>4. /\ n \in Nat /\ new \in [1 .. n -> c.new]
      /\ \A i, j \in 1 .. n : new[i] = new[j] => i = j
    BY <1>3, Numbering
<1>5. A!Cardinality(c.new) = n
    BY DEF A!Cardinality, Cardinality, A!IsFiniteSet, IsFiniteSet
<1>6. A!Len(new) = n /\ DOMAIN new = 1 .. n
    BY <1>4
<1>7. /\ entries' = entries \cup {Entry(i) : i \in 1 .. n}
      /\ entered + n <= EntryIds /\ entered' = entered + n
    BY <1>5, <1>6 DEF A!AddCommit, A!Encrypted
<1> HIDE DEF new, n
<1>8. \A i \in 1 .. n : new[i] \in c.new /\ new[i].key \in Keys /\ new[i].secret \in BOOLEAN
    BY <1>3, <1>4
<1>9. \A i \in 1 .. n : entered + i \in 1 .. EntryIds /\ entered + i <= entered' /\ entered + i > entered
    BY <1>2, <1>4, <1>7, WorkspaceConstants
<1>10. \A i \in 1 .. n :
         /\ Entry(i) \in EntryRows /\ Entry(i).id = entered + i /\ Entry(i).user = c.user
         /\ Entry(i).key = new[i].key /\ (Entry(i).enc <=> Entry(i).secret)
    BY <1>3, <1>8, <1>9 DEF EntryRows
<1>11. \A e \in entries' : e \in entries \/ \E i \in 1 .. n : e = Entry(i)
    BY <1>7
<1> HIDE DEF Entry
<1>12. entries' \subseteq EntryRows
    BY <1>2, <1>10, <1>11
<1>13. entered' \in 0 .. EntryIds /\ entered <= entered'
    BY <1>2, <1>4, <1>7, WorkspaceConstants
<1>14. \A e \in entries : e.id \in 1 .. EntryIds /\ e.id <= entered
    BY <1>2 DEF EntryRows, EntriesFit
<1>15. EntriesFit'
    <2>1. \A e \in entries' : e.id <= entered'
        <3>1. \A e \in entries : e.id <= entered'
            BY <1>2, <1>13, <1>14, WorkspaceConstants
        <3> QED  BY <1>9, <1>10, <1>11, <3>1
    <2>2. \A d, e \in entries' : d.id = e.id => d = e
        <3>1. ASSUME NEW i \in 1 .. n, NEW j \in 1 .. n, Entry(i).id = Entry(j).id PROVE Entry(i) = Entry(j)
            <4>1. i = j
                BY <1>2, <1>4, <1>10, <3>1
            <4> QED  BY <4>1
        <3>2. ASSUME NEW e \in entries, NEW i \in 1 .. n PROVE e.id # Entry(i).id
            BY <1>2, <1>9, <1>10, <1>14
        <3> QED  BY <1>2, <1>11, <3>1, <3>2 DEF EntriesFit
    <2> QED  BY <2>1, <2>2 DEF EntriesFit
<1>16. A!KeptSecretsAreEncrypted'
    BY <1>1, <1>2, <1>10, <1>11 DEF A!KeptSecretsAreEncrypted
<1>17. \A e \in entries' : e.id > entered \/ \E d \in entries : d.id = e.id /\ d.user = e.user
    BY <1>9, <1>10, <1>11
<1>18. /\ editing' \in [Requests -> {A!Idle} \cup Adds \cup Changes]
       /\ editing'[r] = A!Idle
       /\ \A s \in Requests \ {r} : editing'[s] = editing[s]
       /\ \A s \in Requests : editing'[s] = editing[s] \/ editing'[s] = A!Idle
    BY <1>1, EditEnds
<1>19. ASSUME NEW u \in Users \ mingled
       PROVE  /\ \A d, e \in entries' : d.user = u /\ e.user = u /\ d.key = e.key => d = e
              /\ (\E s \in Requests : Open(s, u)') =>
                    \A e \in entries' : e.user = u => \E d \in entries : d.user = u /\ d.key = e.key
    <2>1. \A d, e \in entries : d.user = u /\ e.user = u /\ d.key = e.key => d = e
        BY <1>2 DEF Unmingled
    <2>2. CASE c.user = u
        <3>1. KeysFree(c) /\ \A s \in Requests \ {r} : ~Open(s, u)
            BY <1>2, <1>3, <2>2 DEF Unmingled, Open
        <3>2. \A s \in Requests : ~Open(s, u)'
            BY <1>18, <3>1 DEF Open
        <3>3. \A e \in entries, i \in 1 .. n : e.user = u => e.key # Entry(i).key
            BY <1>1, <1>8, <1>10, <2>2, <3>1 DEF KeysFree
        <3>4. \A i, j \in 1 .. n : Entry(i).key = Entry(j).key => Entry(i) = Entry(j)
            BY <1>3, <1>4, <1>8, <1>10
        <3> QED  BY <1>11, <2>1, <3>2, <3>3, <3>4
    <2>3. CASE c.user # u
        <3>1. \A e \in entries' : e.user = u => e \in entries
            BY <1>10, <1>11, <2>3
        <3> QED  BY <2>1, <3>1
    <2> QED  BY <2>2, <2>3
<1> QED  BY <1>1, <1>2, <1>12, <1>13, <1>15, <1>16, <1>17, <1>18, <1>19, EntriesChange

LEMMA VariablesStay == VariableInv /\ A!Next => VariableInv'
BY EntriesCome, EntryChanges, EditAborts, CreateEntryBegins, BulkBegins, UpdateBegins, EntryGoes
DEF A!Next

LEMMA VariablesBegin == A!Init => VariableInv
<1> SUFFICES ASSUME A!Init PROVE VariableInv
    OBVIOUS
<1>1. EntryTypes
    BY WorkspaceConstants DEF A!Init, EntryTypes
<1>2. entries = {} /\ \A r \in Requests : editing[r] = A!Idle
    BY DEF A!Init
<1>3. EntriesFit /\ EditsFit /\ Unmingled /\ A!KeptSecretsAreEncrypted
    BY <1>2, EditKinds DEF EntriesFit, EditsFit, EditFits, Unmingled, Open, A!KeptSecretsAreEncrypted
<1> QED  BY <1>1, <1>3 DEF VariableInv

LEMMA VariablesHold == VariableInv => A!TypeOK /\ A!TwinKeysNeedAnOverlap /\ A!KeptSecretsAreEncrypted
<1> SUFFICES ASSUME VariableInv PROVE A!TypeOK /\ A!TwinKeysNeedAnOverlap
    BY DEF VariableInv
<1>1. A!TypeOK
    BY DEF VariableInv, EntryTypes, EntryRows, EntriesFit, A!TypeOK, A!Id
<1>2. A!TwinKeysNeedAnOverlap
    BY DEF VariableInv, EntryTypes, EntryRows, Unmingled, A!TwinKeysNeedAnOverlap
<1> QED  BY <1>1, <1>2

LEMMA VariablesRest == VariableInv /\ UNCHANGED appInfo => VariableInv'
<1> SUFFICES ASSUME VariableInv, UNCHANGED appInfo PROVE VariableInv'
    OBVIOUS
<1>1. UNCHANGED <<entries, turned, editing, mingled, entered>>
    BY DEF appInfo
<1>2. EntryTypes' /\ EntriesFit'
    BY <1>1 DEF VariableInv, EntryTypes, EntriesFit
<1>3. EditsFit'
    BY <1>1 DEF VariableInv, EditsFit, EditFits
<1>4. Unmingled'
    BY <1>1 DEF VariableInv, Unmingled, Open, KeysFree
<1>5. A!KeptSecretsAreEncrypted'
    BY <1>1 DEF VariableInv, A!KeptSecretsAreEncrypted
<1> QED  BY <1>2, <1>3, <1>4, <1>5 DEF VariableInv

-----------------------------------------------------------------------------
(* Tickets.  A call under way carries the time of its validation, and       *)
(* whether it writes the key's use when it ends.                            *)

TicketCalls == [op: {"validated", "counted", "new", "known"}, key: ApiKeys, title: Titles,
                began: 0 .. MaxTime, writes: BOOLEAN]
Rows == [id: 1 .. MaxItems, title: Titles, status: T!Statuses]
Times == [at: 0 .. MaxTime, no: Nat]

TicketTypes ==
    /\ now \in 0 .. MaxTime /\ live \subseteq ApiKeys
    /\ used \in [ApiKeys -> 0 .. MaxTime] /\ wrote \in [ApiKeys -> 0 .. MaxTime]
    /\ recent \in [ApiKeys -> SUBSET Times] /\ counted \in [ApiKeys -> SUBSET Times]
    /\ items \subseteq Rows /\ IsFiniteSet(items)
    /\ asking \in [Requests -> {T!Idle} \cup TicketCalls]
    /\ unsaid \subseteq ApiKeys /\ strayed \subseteq {"overlap", "direct", "reopened"}

\* What the limiter keeps of a key's requests is all of the window that ends
\* now, and no window that ends anywhere holds too many.
Windowed(k, end) == {c \in counted[k] : c.at > end - Window /\ c.at <= end}

LimitKept ==
    \A k \in ApiKeys :
        /\ IsFiniteSet(counted[k]) /\ recent[k] \subseteq counted[k]
        /\ \A c \in counted[k] : c.at <= now /\ (c.at > now - Window => c \in recent[k])
        /\ Cardinality(recent[k]) <= Limit
        /\ \A end \in Nat : Cardinality(Windowed(k, end)) <= Limit

\* While nothing strayed, open tickets differ, one request at most found none
\* like its own, and there still is none.
TwinsApart ==
    strayed = {} =>
        /\ \A v, w \in items : T!Open(v) /\ T!Open(w) /\ v.title = w.title => v = w
        /\ \A q, r \in Requests : asking[q].op = "new" /\ asking[r].op = "new" => q = r
        /\ \A r \in Requests : asking[r].op = "new" =>
              \A w \in items : T!Open(w) => w.title # asking[r].title

\* A use that somebody relies on is noted, and what is noted is written unless
\* that is under way or came to nothing.
UsesNoted ==
    /\ \A r \in Requests : asking[r] # T!Idle => asking[r].began <= wrote[asking[r].key] + Window
    /\ \A k \in ApiKeys \ unsaid : ~T!UnderWay(k) => used[k] = wrote[k]

TicketInv == TicketTypes /\ LimitKept /\ TwinsApart /\ UsesNoted

LEMMA CallKinds ==
    ASSUME TicketTypes, NEW r \in Requests, asking[r].op # "idle"
    PROVE  asking[r] \in TicketCalls /\ asking[r] # T!Idle
BY DEF TicketTypes, T!Idle

LEMMA CallActive ==
    ASSUME TicketTypes, NEW r \in Requests, asking[r] # T!Idle
    PROVE  asking[r] \in TicketCalls /\ asking[r].op # "idle"
BY DEF TicketTypes, TicketCalls

LEMMA IdleTicket == T!Idle.op = "idle" /\ T!Idle \notin TicketCalls
BY DEF T!Idle, TicketCalls

\* The step of a request's call, as far as the other parts see it.
LEMMA TicketsBegin == T!Init => TicketInv
<1> SUFFICES ASSUME T!Init PROVE TicketInv
    OBVIOUS
<1>1. TicketTypes
    BY WorkspaceConstants, FS_EmptySet DEF T!Init, TicketTypes
<1>2. LimitKept
    <2> SUFFICES ASSUME NEW k \in ApiKeys
                 PROVE  /\ IsFiniteSet(counted[k]) /\ recent[k] \subseteq counted[k]
                        /\ \A c \in counted[k] : c.at <= now /\ (c.at > now - Window => c \in recent[k])
                        /\ Cardinality(recent[k]) <= Limit
                        /\ \A end \in Nat : Cardinality(Windowed(k, end)) <= Limit
        BY DEF LimitKept
    <2>1. counted[k] = {} /\ recent[k] = {}
        BY DEF T!Init
    <2>2. \A end \in Nat : Windowed(k, end) = {}
        BY <2>1 DEF Windowed
    <2> QED  BY <2>1, <2>2, FS_EmptySet, WorkspaceConstants
<1>3. TwinsApart
    BY IdleTicket DEF T!Init, TwinsApart
<1>4. UsesNoted
    BY DEF T!Init, UsesNoted
<1> QED  BY <1>1, <1>2, <1>3, <1>4 DEF TicketInv


LEMMA LimitUntouched ==
    ASSUME LimitKept, UNCHANGED <<now, recent, counted>>
    PROVE  LimitKept'
BY DEF LimitKept, Windowed

\* A call that goes to a record, all else about calls as it was.
LEMMA OneCall ==
    ASSUME TicketTypes, NEW r \in Requests, NEW c \in {T!Idle} \cup TicketCalls,
           asking' = [asking EXCEPT ![r] = c]
    PROVE  /\ asking' \in [Requests -> {T!Idle} \cup TicketCalls]
           /\ asking'[r] = c
           /\ \A q \in Requests : q # r => asking'[q] = asking[q]
BY DEF TicketTypes

LEMMA TicketBegins ==
    ASSUME TicketInv, NEW r \in Requests, NEW k \in ApiKeys, NEW t \in Titles, T!Begin(r, k, t)
    PROVE  TicketInv'
<1> DEFINE c == [op |-> "validated", key |-> k, title |-> t, began |-> now, writes |-> T!Due(k)]
<1>1. /\ asking[r] = T!Idle
      /\ wrote' = [wrote EXCEPT ![k] = T!Noted(k)] /\ asking' = [asking EXCEPT ![r] = c]
      /\ UNCHANGED <<now, live, used, recent, counted, items, unsaid, strayed>>
    BY DEF T!Begin
<1>2. /\ TicketTypes /\ LimitKept /\ TwinsApart /\ UsesNoted
      /\ now \in 0 .. MaxTime /\ wrote \in [ApiKeys -> 0 .. MaxTime]
    BY DEF TicketInv, TicketTypes
<1>3. c \in TicketCalls /\ c.key = k /\ c.began = now /\ c.op = "validated" /\ c.writes = T!Due(k)
    <2>1. T!Due(k) \in BOOLEAN
        BY DEF T!Due
    <2> QED  BY <1>2, <2>1 DEF TicketCalls
<1> HIDE DEF c
<1>4. /\ asking' \in [Requests -> {T!Idle} \cup TicketCalls] /\ asking'[r] = c
      /\ \A q \in Requests : q # r => asking'[q] = asking[q]
    BY <1>1, <1>2, <1>3, OneCall
<1>5. /\ T!Noted(k) \in 0 .. MaxTime /\ T!Noted(k) >= wrote[k] /\ now <= T!Noted(k) + Window
      /\ ~T!Due(k) => T!Noted(k) = wrote[k]
    BY <1>2, WorkspaceConstants DEF T!Noted, T!Due
<1>6. /\ wrote' \in [ApiKeys -> 0 .. MaxTime] /\ wrote'[k] = T!Noted(k)
      /\ \A l \in ApiKeys : l # k => wrote'[l] = wrote[l]
    BY <1>1, <1>2, <1>5
<1>7. TicketTypes'
    BY <1>1, <1>2, <1>4, <1>6 DEF TicketTypes
<1>8. LimitKept'
    BY <1>1, <1>2, LimitUntouched
<1>9. TwinsApart'
    BY <1>1, <1>2, <1>3, <1>4 DEF TwinsApart
<1>10. UsesNoted'
    <2>1. ASSUME NEW q \in Requests, asking'[q] # T!Idle
          PROVE  asking'[q].began <= wrote'[asking'[q].key] + Window
        <3>1. CASE q = r
            BY <1>3, <1>4, <1>5, <1>6, <3>1
        <3>2. CASE q # r
            <4>1. asking'[q] = asking[q] /\ asking[q] \in TicketCalls
                BY <1>2, <1>4, <2>1, <3>2, CallActive
            <4>2. asking[q].key \in ApiKeys /\ asking[q].began \in 0 .. MaxTime
                BY <4>1 DEF TicketCalls
            <4>3. asking[q].began <= wrote[asking[q].key] + Window
                BY <1>2, <2>1, <4>1 DEF UsesNoted
            <4>4. wrote[asking[q].key] <= wrote'[asking[q].key] /\ wrote[asking[q].key] \in 0 .. MaxTime
                  /\ wrote'[asking[q].key] \in 0 .. MaxTime
                BY <1>2, <1>5, <1>6, <4>2
            <4> QED  BY <4>1, <4>2, <4>3, <4>4, WorkspaceConstants
        <3> QED  BY <3>1, <3>2
    <2>2. ASSUME NEW l \in ApiKeys \ unsaid', ~T!UnderWay(l)' PROVE used'[l] = wrote'[l]
        <3>1. ~T!UnderWay(l)
            <4> SUFFICES ASSUME NEW q \in Requests, asking[q] # T!Idle, asking[q].key = l, asking[q].writes
                         PROVE  FALSE
                BY DEF T!UnderWay
            <4> QED  BY <1>1, <1>4, <2>2 DEF T!UnderWay
        <3>2. l = k => ~T!Due(k)
            BY <1>3, <1>4, <2>2, IdleTicket DEF T!UnderWay
        <3>3. used[l] = wrote[l]
            BY <1>1, <1>2, <2>2, <3>1 DEF UsesNoted
        <3>4. wrote'[l] = wrote[l]
            BY <1>5, <1>6, <3>2
        <3> QED  BY <1>1, <3>3, <3>4
    <2> QED  BY <2>1, <2>2 DEF UsesNoted
<1> QED  BY <1>7, <1>8, <1>9, <1>10 DEF TicketInv

LEMMA TicketCounts ==
    ASSUME TicketInv, NEW r \in Requests, T!Count(r)
    PROVE  TicketInv'
<1> DEFINE k == asking[r].key
           c == [asking[r] EXCEPT !.op = "counted"]
           n == T!Another(k)
<1>1. /\ asking[r].op = "validated" /\ ~T!Full(k)
      /\ recent' = [recent EXCEPT ![k] = T!InWindow(recent[k]) \cup {n}]
      /\ counted' = [counted EXCEPT ![k] = counted[k] \cup {n}]
      /\ asking' = [asking EXCEPT ![r] = c]
      /\ UNCHANGED <<now, live, used, wrote, items, unsaid, strayed>>
    BY DEF T!Count
<1>2. /\ TicketTypes /\ LimitKept /\ TwinsApart /\ UsesNoted
      /\ now \in 0 .. MaxTime
      /\ recent \in [ApiKeys -> SUBSET Times] /\ counted \in [ApiKeys -> SUBSET Times]
    BY DEF TicketInv, TicketTypes
<1>3. asking[r] \in TicketCalls /\ asking[r] # T!Idle
    BY <1>1, <1>2, CallKinds
<1>4. k \in ApiKeys
    BY <1>3 DEF TicketCalls
<1>5. c \in TicketCalls /\ c.key = k /\ c.began = asking[r].began /\ c.writes = asking[r].writes /\ c.op = "counted"
    BY <1>3 DEF TicketCalls
<1> HIDE DEF c
<1>6. /\ asking' \in [Requests -> {T!Idle} \cup TicketCalls] /\ asking'[r] = c
      /\ \A q \in Requests : q # r => asking'[q] = asking[q]
    BY <1>1, <1>2, <1>5, OneCall
<1>7. /\ IsFiniteSet(counted[k]) /\ recent[k] \subseteq counted[k]
      /\ \A e \in counted[k] : e.at <= now /\ (e.at > now - Window => e \in recent[k])
      /\ \A end \in Nat : Cardinality(Windowed(k, end)) <= Limit
    BY <1>2, <1>4 DEF LimitKept
<1>8. n.at = now /\ n \in Times
    <2>1. IsFiniteSet({e \in counted[k] : e.at = now})
        BY <1>7, FS_Subset
    <2>2. T!Cardinality({e \in counted[k] : e.at = now}) = Cardinality({e \in counted[k] : e.at = now})
        BY DEF T!Cardinality, Cardinality, T!IsFiniteSet, IsFiniteSet
    <2>3. T!Cardinality({e \in counted[k] : e.at = now}) \in Nat
        BY <2>1, <2>2, FS_CardinalityType
    <2> QED  BY <1>2, <2>3 DEF T!Another, Times
<1> HIDE DEF n
<1> DEFINE W == T!InWindow(recent[k])
<1>9. /\ W \subseteq recent[k] /\ IsFiniteSet(W) /\ Cardinality(W) \in Nat /\ Cardinality(W) < Limit
    <2>1. W \subseteq recent[k] /\ IsFiniteSet(W)
        BY <1>7, FS_Subset DEF T!InWindow
    <2>2. Cardinality(W) \in Nat
        BY <2>1, FS_CardinalityType
    <2>3. T!Cardinality(W) = Cardinality(W)
        BY DEF T!Cardinality, Cardinality, T!IsFiniteSet, IsFiniteSet
    <2> QED  BY <1>1, <2>1, <2>2, <2>3, WorkspaceConstants DEF T!Full
<1>10. \A e \in counted[k] : e.at > now - Window => e \in W
    BY <1>7 DEF T!InWindow
<1> HIDE DEF W, k
<1>11. /\ recent'[k] = W \cup {n} /\ counted'[k] = counted[k] \cup {n}
       /\ recent' \in [ApiKeys -> SUBSET Times] /\ counted' \in [ApiKeys -> SUBSET Times]
       /\ \A l \in ApiKeys : l # k => recent'[l] = recent[l] /\ counted'[l] = counted[l]
    BY <1>1, <1>2, <1>4, <1>7, <1>8, <1>9 DEF W
<1>12. /\ IsFiniteSet(W \cup {n}) /\ Cardinality(W \cup {n}) <= Limit
       /\ Cardinality(W \cup {n}) \in Nat
    <2>1. /\ IsFiniteSet(W \cup {n})
          /\ Cardinality(W \cup {n}) = IF n \in W THEN Cardinality(W) ELSE Cardinality(W) + 1
        BY <1>9, FS_AddElement
    <2> QED  BY <1>9, <2>1, WorkspaceConstants
<1>13. LimitKept'
    <2> SUFFICES ASSUME NEW l \in ApiKeys
                 PROVE  /\ IsFiniteSet(counted'[l]) /\ recent'[l] \subseteq counted'[l]
                        /\ \A e \in counted'[l] : e.at <= now' /\ (e.at > now' - Window => e \in recent'[l])
                        /\ Cardinality(recent'[l]) <= Limit
                        /\ \A end \in Nat : Cardinality(Windowed(l, end)') <= Limit
        BY DEF LimitKept
    <2>1. CASE l # k
        BY <1>1, <1>2, <1>11, <2>1 DEF LimitKept, Windowed
    <2>2. CASE l = k
        <3>1. IsFiniteSet(counted'[k])
            BY <1>7, <1>11, FS_AddElement, SMTT(30)
        <3>2. recent'[k] \subseteq counted'[k]
            BY <1>7, <1>9, <1>11
        <3>3. \A e \in counted'[k] : e.at <= now' /\ (e.at > now' - Window => e \in recent'[k])
            BY <1>1, <1>2, <1>7, <1>8, <1>10, <1>11
        <3>4. ASSUME NEW end \in Nat PROVE Cardinality(Windowed(l, end)') <= Limit
            <4>1. CASE end < now
                <5>1. Windowed(l, end)' = Windowed(l, end)
                    BY <1>2, <1>8, <1>11, <2>2, <4>1 DEF Windowed
                <5> QED  BY <1>7, <2>2, <5>1
            <4>2. CASE ~(end < now)
                <5>1. ASSUME NEW e \in counted[k], e.at > end - Window PROVE e \in W
                    <6>1. e.at \in 0 .. MaxTime
                        BY <1>2, <1>4 DEF Times
                    <6>2. e.at > now - Window
                        BY <1>2, <4>2, <5>1, <6>1, WorkspaceConstants
                    <6> QED  BY <1>10, <6>2
                <5>2. Windowed(l, end)' \subseteq W \cup {n}
                    BY <1>11, <2>2, <5>1 DEF Windowed
                <5>3. Cardinality(Windowed(l, end)') <= Cardinality(W \cup {n})
                      /\ Cardinality(Windowed(l, end)') \in Nat
                    BY <1>12, <5>2, FS_Subset, FS_CardinalityType
                <5> QED  BY <1>12, <5>3, WorkspaceConstants
            <4> QED  BY <4>1, <4>2
        <3> QED  BY <1>11, <1>12, <2>2, <3>1, <3>2, <3>3, <3>4
    <2> QED  BY <2>1, <2>2
<1>14. TicketTypes'
    BY <1>1, <1>2, <1>6, <1>11 DEF TicketTypes
<1>15. TwinsApart'
    BY <1>1, <1>2, <1>5, <1>6 DEF TwinsApart
<1>16. UsesNoted'
    <2>1. \A q \in Requests : asking'[q] # T!Idle =>
              asking[q] # T!Idle /\ asking'[q].began = asking[q].began /\ asking'[q].key = asking[q].key
        BY <1>3, <1>5, <1>6 DEF k
    <2>2. \A l \in ApiKeys : T!UnderWay(l) => T!UnderWay(l)'
        BY <1>3, <1>5, <1>6, IdleTicket DEF T!UnderWay, k
    <2> QED  BY <1>1, <1>2, <2>1, <2>2 DEF UsesNoted
<1> QED  BY <1>13, <1>14, <1>15, <1>16 DEF TicketInv


\* A call that ends leaves no more under way than there was, and those of
\* others.
LEMMA CallEnds ==
    ASSUME TicketTypes, NEW r \in Requests, asking[r] # T!Idle, asking' = [asking EXCEPT ![r] = T!Idle]
    PROVE  /\ asking' \in [Requests -> {T!Idle} \cup TicketCalls]
           /\ \A q \in Requests : asking'[q] = IF q = r THEN T!Idle ELSE asking[q]
           /\ asking[r] \in TicketCalls /\ asking[r].key \in ApiKeys
           /\ \A k \in ApiKeys : k # asking[r].key \/ ~asking[r].writes => (T!UnderWay(k)' <=> T!UnderWay(k))
<1>1. asking[r] \in TicketCalls /\ asking[r].key \in ApiKeys
    BY CallActive DEF TicketCalls
<1>2. /\ asking' \in [Requests -> {T!Idle} \cup TicketCalls]
      /\ \A q \in Requests : asking'[q] = IF q = r THEN T!Idle ELSE asking[q]
    BY DEF TicketTypes
<1> QED  BY <1>1, <1>2 DEF T!UnderWay

LEMMA TicketFails ==
    ASSUME TicketInv, NEW r \in Requests, T!Fail(r)
    PROVE  TicketInv'
<1>1. /\ asking[r] # T!Idle /\ asking' = [asking EXCEPT ![r] = T!Idle]
      /\ unsaid' = IF asking[r].writes THEN unsaid \cup {asking[r].key} ELSE unsaid
      /\ UNCHANGED <<now, live, used, wrote, recent, counted, items, strayed>>
    BY DEF T!Fail
<1>2. TicketTypes /\ LimitKept /\ TwinsApart /\ UsesNoted
    BY DEF TicketInv
<1>3. /\ asking' \in [Requests -> {T!Idle} \cup TicketCalls]
      /\ \A q \in Requests : asking'[q] = IF q = r THEN T!Idle ELSE asking[q]
      /\ asking[r].key \in ApiKeys
      /\ \A k \in ApiKeys : k # asking[r].key \/ ~asking[r].writes => (T!UnderWay(k)' <=> T!UnderWay(k))
    BY <1>1, <1>2, CallEnds
<1>4. TicketTypes'
    BY <1>1, <1>2, <1>3 DEF TicketTypes
<1>5. LimitKept'
    BY <1>1, <1>2, LimitUntouched
<1>6. TwinsApart'
    BY <1>1, <1>2, <1>3, IdleTicket DEF TwinsApart
<1>7. UsesNoted'
    BY <1>1, <1>2, <1>3 DEF UsesNoted
<1> QED  BY <1>4, <1>5, <1>6, <1>7 DEF TicketInv

LEMMA OpenAlike == \A s, t : T!Alike(s, t) <=> s = t
BY DEF T!Alike

LEMMA TicketSearches ==
    ASSUME TicketInv, NEW r \in Requests, T!Search(r)
    PROVE  TicketInv'
<1> DEFINE c == [asking[r] EXCEPT !.op = IF T!Duplicates(asking[r].title) = {} THEN "new" ELSE "known"]
<1>1. /\ asking[r].op = "counted" /\ asking' = [asking EXCEPT ![r] = c]
      /\ strayed' = IF T!Duplicates(asking[r].title) = {} /\ \E q \in Requests \ {r} : asking[q].op = "new"
                    THEN strayed \cup {"overlap"} ELSE strayed
      /\ UNCHANGED <<now, live, used, wrote, recent, counted, items, unsaid>>
    BY DEF T!Search
<1>2. TicketTypes /\ LimitKept /\ TwinsApart /\ UsesNoted
    BY DEF TicketInv
<1>3. asking[r] \in TicketCalls /\ asking[r] # T!Idle
    BY <1>1, <1>2, CallKinds
<1>4. /\ c \in TicketCalls /\ c.key = asking[r].key /\ c.began = asking[r].began
      /\ c.writes = asking[r].writes /\ c.title = asking[r].title
      /\ c.op = IF T!Duplicates(asking[r].title) = {} THEN "new" ELSE "known"
    BY <1>3 DEF TicketCalls
<1> HIDE DEF c
<1>5. /\ asking' \in [Requests -> {T!Idle} \cup TicketCalls] /\ asking'[r] = c
      /\ \A q \in Requests : q # r => asking'[q] = asking[q]
    BY <1>1, <1>2, <1>4, OneCall
<1>6. TicketTypes'
    BY <1>1, <1>2, <1>5 DEF TicketTypes
<1>7. LimitKept'
    BY <1>1, <1>2, LimitUntouched
<1>8. TwinsApart'
    <2> SUFFICES ASSUME strayed' = {}
                 PROVE  /\ \A v, w \in items : T!Open(v) /\ T!Open(w) /\ v.title = w.title => v = w
                        /\ \A p, q \in Requests : asking'[p].op = "new" /\ asking'[q].op = "new" => p = q
                        /\ \A q \in Requests : asking'[q].op = "new" =>
                              \A w \in items : T!Open(w) => w.title # asking'[q].title
        BY <1>1 DEF TwinsApart, T!Open
    <2>1. strayed = {} /\ (T!Duplicates(asking[r].title) = {} => \A q \in Requests \ {r} : asking[q].op # "new")
        BY <1>1
    <2>2. T!Duplicates(asking[r].title) = {} => \A w \in items : T!Open(w) => w.title # asking[r].title
        BY OpenAlike DEF T!Duplicates
    <2> QED  BY <1>2, <1>4, <1>5, <2>1, <2>2 DEF TwinsApart
<1>9. UsesNoted'
    <2>1. \A q \in Requests : asking'[q] # T!Idle =>
              asking[q] # T!Idle /\ asking'[q].began = asking[q].began /\ asking'[q].key = asking[q].key
        BY <1>3, <1>4, <1>5
    <2>2. \A l \in ApiKeys : T!UnderWay(l) => T!UnderWay(l)'
        BY <1>3, <1>4, <1>5, IdleTicket DEF T!UnderWay
    <2> QED  BY <1>1, <1>2, <2>1, <2>2 DEF UsesNoted
<1> QED  BY <1>6, <1>7, <1>8, <1>9 DEF TicketInv

\* A row more, with a number that fits.
LEMMA RowComes ==
    ASSUME TicketTypes, NEW t \in Titles, T!LastId < MaxItems,
           items' = items \cup {[id |-> T!LastId + 1, title |-> t, status |-> "reported"]}
    PROVE  /\ items' \subseteq Rows /\ IsFiniteSet(items')
           /\ \E n \in Rows : n.title = t /\ items' = items \cup {n}
<1> DEFINE n == [id |-> T!LastId + 1, title |-> t, status |-> "reported"]
<1>1. T!LastId = Cardinality(items)
    BY DEF T!LastId, T!Cardinality, Cardinality, T!IsFiniteSet, IsFiniteSet
<1>2. T!LastId \in Nat
    BY <1>1, FS_CardinalityType DEF TicketTypes
<1>3. n \in Rows /\ n.title = t
    BY <1>2, WorkspaceConstants DEF Rows, T!Statuses
<1> HIDE DEF n
<1>4. IsFiniteSet(items \cup {n})
    BY FS_AddElement DEF TicketTypes
<1> QED  BY <1>3, <1>4 DEF n, TicketTypes

LEMMA ItemComes ==
    ASSUME TicketInv, NEW t \in Titles, T!CreateItem(t)
    PROVE  TicketInv'
<1>1. /\ T!LastId < MaxItems
      /\ items' = items \cup {[id |-> T!LastId + 1, title |-> t, status |-> "reported"]}
      /\ strayed' = strayed \cup {"direct"}
      /\ UNCHANGED <<now, live, used, wrote, recent, counted, asking, unsaid>>
    BY DEF T!CreateItem
<1>2. TicketTypes /\ LimitKept /\ UsesNoted
    BY DEF TicketInv
<1>3. items' \subseteq Rows /\ IsFiniteSet(items')
    BY <1>1, <1>2, RowComes
<1>4. TicketTypes'
    BY <1>1, <1>2, <1>3 DEF TicketTypes
<1>5. LimitKept'
    BY <1>1, <1>2, LimitUntouched
<1>6. TwinsApart'
    BY <1>1 DEF TwinsApart
<1>7. UsesNoted'
    BY <1>1, <1>2 DEF UsesNoted, T!UnderWay
<1> QED  BY <1>4, <1>5, <1>6, <1>7 DEF TicketInv

LEMMA ItemChanges ==
    ASSUME TicketInv, NEW w \in items, NEW s \in T!Statuses, T!ChangeItem(w, s)
    PROVE  TicketInv'
<1> DEFINE n == [w EXCEPT !.status = s]
<1>1. /\ items' = (items \ {w}) \cup {n}
      /\ strayed' = IF T!Open(w) THEN strayed ELSE strayed \cup {"reopened"}
      /\ UNCHANGED <<now, live, used, wrote, recent, counted, asking, unsaid>>
    BY DEF T!ChangeItem
<1>2. TicketTypes /\ LimitKept /\ TwinsApart /\ UsesNoted /\ w \in Rows
    BY DEF TicketInv, TicketTypes
<1>3. n \in Rows /\ n.title = w.title
    BY <1>2 DEF Rows
<1> HIDE DEF n
<1>4. items' \subseteq Rows /\ IsFiniteSet(items')
    <2>1. IsFiniteSet(items \ {w})
        BY <1>2, FS_Subset DEF TicketTypes
    <2> QED  BY <1>1, <1>2, <1>3, <2>1, FS_AddElement DEF TicketTypes
<1>5. TicketTypes'
    BY <1>1, <1>2, <1>4 DEF TicketTypes
<1>6. LimitKept'
    BY <1>1, <1>2, LimitUntouched
<1>7. TwinsApart'
    <2> SUFFICES ASSUME strayed' = {}
                 PROVE  /\ \A u, v \in items' : T!Open(u) /\ T!Open(v) /\ u.title = v.title => u = v
                        /\ \A q, r \in Requests : asking[q].op = "new" /\ asking[r].op = "new" => q = r
                        /\ \A r \in Requests : asking[r].op = "new" =>
                              \A v \in items' : T!Open(v) => v.title # asking[r].title
        BY <1>1 DEF TwinsApart, T!Open
    <2>1. strayed = {} /\ T!Open(w)
        BY <1>1
    <2> QED  BY <1>1, <1>2, <1>3, <2>1 DEF TwinsApart
<1>8. UsesNoted'
    BY <1>1, <1>2 DEF UsesNoted, T!UnderWay
<1> QED  BY <1>5, <1>6, <1>7, <1>8 DEF TicketInv

LEMMA TicketAnswered ==
    ASSUME TicketInv, NEW r \in Requests, T!Answer(r)
    PROVE  TicketInv'
<1>1. /\ asking[r].op \in {"new", "known"} /\ asking' = [asking EXCEPT ![r] = T!Idle]
      /\ \/ /\ asking[r].op = "new" /\ T!LastId < MaxItems
            /\ items' = items \cup {[id |-> T!LastId + 1, title |-> asking[r].title, status |-> "reported"]}
         \/ asking[r].op = "known" /\ UNCHANGED items
      /\ T!Used(r)
      /\ UNCHANGED <<now, live, wrote, recent, counted, strayed>>
    BY DEF T!Answer
<1>2. /\ TicketTypes /\ LimitKept /\ TwinsApart /\ UsesNoted
      /\ used \in [ApiKeys -> 0 .. MaxTime] /\ unsaid \subseteq ApiKeys
    BY DEF TicketInv, TicketTypes
<1>3. asking[r] \in TicketCalls /\ asking[r] # T!Idle
    BY <1>1, <1>2, CallKinds
<1>4. asking[r].key \in ApiKeys /\ asking[r].title \in Titles /\ asking[r].began \in 0 .. MaxTime
    BY <1>3 DEF TicketCalls
<1>5. /\ asking' \in [Requests -> {T!Idle} \cup TicketCalls]
      /\ \A q \in Requests : asking'[q] = IF q = r THEN T!Idle ELSE asking[q]
      /\ \A k \in ApiKeys : k # asking[r].key \/ ~asking[r].writes => (T!UnderWay(k)' <=> T!UnderWay(k))
    BY <1>1, <1>2, <1>3, CallEnds
<1>6. items' \subseteq Rows /\ IsFiniteSet(items')
    BY <1>1, <1>2, <1>4, RowComes DEF TicketTypes
<1>7. /\ used' \in [ApiKeys -> 0 .. MaxTime] /\ unsaid' \subseteq ApiKeys
      /\ \A k \in ApiKeys : k # asking[r].key \/ ~asking[r].writes =>
            used'[k] = used[k] /\ (k \in unsaid' <=> k \in unsaid)
      /\ asking[r].writes =>
            /\ used'[asking[r].key] = asking[r].began
            /\ asking[r].key \notin unsaid' => asking[r].began = wrote[asking[r].key]
    BY <1>1, <1>2, <1>4 DEF T!Used
<1>8. TicketTypes'
    BY <1>1, <1>2, <1>5, <1>6, <1>7 DEF TicketTypes
<1>9. LimitKept'
    BY <1>1, <1>2, LimitUntouched
<1>10. TwinsApart'
    <2> SUFFICES ASSUME strayed = {}
                 PROVE  /\ \A u, v \in items' : T!Open(u) /\ T!Open(v) /\ u.title = v.title => u = v
                        /\ \A p, q \in Requests : asking'[p].op = "new" /\ asking'[q].op = "new" => p = q
                        /\ \A q \in Requests : asking'[q].op = "new" =>
                              \A v \in items' : T!Open(v) => v.title # asking'[q].title
        BY <1>1 DEF TwinsApart, T!Open
    <2>1. CASE asking[r].op = "known"
        BY <1>1, <1>2, <1>5, <2>1, IdleTicket DEF TwinsApart
    <2>2. CASE asking[r].op = "new"
        <3>1. PICK n \in Rows : n.title = asking[r].title /\ items' = items \cup {n}
            BY <1>1, <1>2, <1>4, <2>2, RowComes
        <3>2. \A q \in Requests : asking'[q].op # "new"
            BY <1>2, <1>5, <2>2, IdleTicket DEF TwinsApart
        <3> QED  BY <1>2, <2>2, <3>1, <3>2 DEF TwinsApart
    <2> QED  BY <1>1, <2>1, <2>2
<1>11. UsesNoted'
    <2>1. \A q \in Requests : asking'[q] # T!Idle => asking'[q].began <= wrote'[asking'[q].key] + Window
        BY <1>1, <1>2, <1>5 DEF UsesNoted
    <2>2. ASSUME NEW k \in ApiKeys \ unsaid', ~T!UnderWay(k)' PROVE used'[k] = wrote'[k]
        <3>1. CASE k # asking[r].key \/ ~asking[r].writes
            BY <1>1, <1>2, <1>5, <1>7, <2>2, <3>1 DEF UsesNoted
        <3>2. CASE k = asking[r].key /\ asking[r].writes
            BY <1>1, <1>7, <2>2, <3>2
        <3> QED  BY <3>1, <3>2
    <2> QED  BY <2>1, <2>2 DEF UsesNoted
<1> QED  BY <1>8, <1>9, <1>10, <1>11 DEF TicketInv

LEMMA TimeGoesOn ==
    ASSUME TicketInv, T!Tick
    PROVE  TicketInv'
<1>1. /\ now < MaxTime /\ now' = now + 1
      /\ UNCHANGED <<live, used, wrote, recent, counted, items, asking, unsaid, strayed>>
    BY DEF T!Tick
<1>2. /\ TicketTypes /\ LimitKept /\ TwinsApart /\ UsesNoted /\ now \in 0 .. MaxTime
      /\ counted \in [ApiKeys -> SUBSET Times]
    BY DEF TicketInv, TicketTypes
<1>3. now' \in 0 .. MaxTime
    BY <1>1, <1>2, WorkspaceConstants
<1>4. TicketTypes'
    BY <1>1, <1>2, <1>3 DEF TicketTypes
<1>5. LimitKept'
    <2>1. \A k \in ApiKeys : \A c \in counted[k] : c.at \in 0 .. MaxTime
        BY <1>2 DEF Times
    <2>2. \A k \in ApiKeys : \A c \in counted[k] :
              c.at <= now' /\ (c.at > now' - Window => c.at > now - Window)
        BY <1>1, <1>2, <2>1, WorkspaceConstants DEF LimitKept
    <2> QED  BY <1>1, <1>2, <2>2 DEF LimitKept, Windowed
<1>6. TwinsApart'
    BY <1>1, <1>2 DEF TwinsApart, T!Open
<1>7. UsesNoted'
    BY <1>1, <1>2 DEF UsesNoted, T!UnderWay
<1> QED  BY <1>4, <1>5, <1>6, <1>7 DEF TicketInv

LEMMA KeyRevoked ==
    ASSUME TicketInv, NEW k \in ApiKeys, T!Revoke(k)
    PROVE  TicketInv'
<1>1. live' = live \ {k} /\ UNCHANGED <<now, used, wrote, recent, counted, items, asking, unsaid, strayed>>
    BY DEF T!Revoke
<1>2. TicketTypes /\ LimitKept /\ TwinsApart /\ UsesNoted
    BY DEF TicketInv
<1>3. TicketTypes'
    BY <1>1, <1>2 DEF TicketTypes
<1>4. LimitKept'
    BY <1>1, <1>2, LimitUntouched
<1>5. TwinsApart' /\ UsesNoted'
    BY <1>1, <1>2 DEF TwinsApart, T!Open, UsesNoted, T!UnderWay
<1> QED  BY <1>3, <1>4, <1>5 DEF TicketInv

LEMMA TicketsStay == TicketInv /\ T!Next => TicketInv'
BY TicketBegins, TicketCounts, TicketFails, TicketSearches, TicketAnswered, ItemComes, ItemChanges,
   TimeGoesOn, KeyRevoked
DEF T!Next

LEMMA TicketsRest == TicketInv /\ UNCHANGED tickets => TicketInv'
<1> SUFFICES ASSUME TicketInv, UNCHANGED tickets PROVE TicketInv'
    OBVIOUS
<1>1. UNCHANGED <<now, live, used, wrote, recent, counted, items, asking, unsaid, strayed>>
    BY DEF tickets
<1>2. TicketTypes'
    BY <1>1 DEF TicketInv, TicketTypes
<1>3. LimitKept'
    BY <1>1, LimitUntouched DEF TicketInv
<1>4. TwinsApart' /\ UsesNoted'
    BY <1>1 DEF TicketInv, TwinsApart, T!Open, UsesNoted, T!UnderWay
<1> QED  BY <1>2, <1>3, <1>4 DEF TicketInv

LEMMA TicketsHold ==
    TicketInv => T!TypeOK /\ T!TwinTicketsAreExplained /\ T!WindowsAreBounded
<1> SUFFICES ASSUME TicketInv PROVE T!TypeOK /\ T!TwinTicketsAreExplained /\ T!WindowsAreBounded
    OBVIOUS
<1>1. \A M : T!Cardinality(M) = Cardinality(M)
    BY DEF T!Cardinality, Cardinality, T!IsFiniteSet, IsFiniteSet
<1>2. T!TypeOK
    BY <1>1 DEF TicketInv, TicketTypes, LimitKept, T!TypeOK, Rows
<1>3. T!TwinTicketsAreExplained
    BY OpenAlike DEF TicketInv, TwinsApart, T!TwinTicketsAreExplained
<1>4. T!WindowsAreBounded
    <2> SUFFICES ASSUME NEW k \in ApiKeys, NEW end \in 0 .. MaxTime
                 PROVE  T!Cardinality({c \in counted[k] : c.at > end - Window /\ c.at <= end}) <= Limit
        BY DEF T!WindowsAreBounded
    <2> QED  BY <1>1, WorkspaceConstants DEF TicketInv, LimitKept, Windowed
<1> QED  BY <1>2, <1>3, <1>4

\* An answer whose use nobody else writes or has lost finds it written.
LEMMA UseIsWritten ==
    ASSUME TicketInv, TicketInv', NEW r \in Requests, NEW k \in ApiKeys, asking[r] # T!Idle, T!Answer(r),
           k = asking[r].key, k \notin unsaid', ~T!UnderWay(k)'
    PROVE  used'[k] >= asking[r].began - Window
<1>1. asking[r].began <= wrote[k] + Window
    BY DEF TicketInv, UsesNoted
<1>2. wrote' = wrote
    BY DEF T!Answer
<1>3. used'[k] = wrote'[k]
    BY DEF TicketInv, UsesNoted
<1>4. wrote[k] \in 0 .. MaxTime /\ asking[r].began \in 0 .. MaxTime
    BY CallActive DEF TicketInv, TicketTypes, TicketCalls
<1> QED  BY <1>1, <1>2, <1>3, <1>4, WorkspaceConstants

-----------------------------------------------------------------------------
(* Texts about the team.  The age of the text is the age the row says, as   *)
(* long as there is a row.                                                  *)

TextRows == [of: SUBSET (1 .. MaxWork), count: Nat, age: Team!Ages, seen: Team!Ages]
Writing == [pc: {"start", "fetch", "fetched", "model"}, got: SUBSET (1 .. MaxWork)]
Answered == [pc: {"answered"}, stale: BOOLEAN, of: SUBSET (1 .. MaxWork), age: Team!Ages,
             got: SUBSET (1 .. MaxWork)]

TeamTypes ==
    /\ work \subseteq 1 .. MaxWork /\ written \in Team!Ages /\ lock \in BOOLEAN
    /\ row \in {NoRow} \cup TextRows
    /\ task \in {Team!Idle} \cup Writing
    /\ request \in [Requests -> {Team!Idle} \cup Writing \cup Answered]

RowSaysItsAge == row # NoRow => row.age = written /\ row.count = Cardinality(row.of)

Fresh(a) == a.age < Warm \/ Cardinality(a.got) = Cardinality(a.of)

TeamInv ==
    /\ TeamTypes /\ RowSaysItsAge
    /\ lock <=> task # Team!Idle
    /\ \A r \in Requests : request[r].pc = "answered" /\ ~request[r].stale => Fresh(request[r])

LEMMA TeamCounts == \A M : Team!Cardinality(M) = Cardinality(M)
BY DEF Team!Cardinality, Cardinality, Team!IsFiniteSet, IsFiniteSet

LEMMA TeamAges ==
    /\ 0 \in Team!Ages /\ 0 < Warm
    /\ \A n \in Team!Ages : n \in Nat /\ Team!Older(n) \in Team!Ages
BY WorkspaceConstants DEF Team!Ages, Team!Older

LEMMA CommitsCount == \A M \in SUBSET (1 .. MaxWork) : IsFiniteSet(M) /\ Cardinality(M) \in Nat
<1>1. IsFiniteSet(1 .. MaxWork)
    BY FS_Interval, WorkspaceConstants
<1> QED  BY <1>1, FS_Subset, FS_CardinalityType

\* What a worker is.
LEMMA WorkerKinds ==
    /\ Team!Idle.pc = "idle" /\ Team!Idle \notin Writing /\ Team!Idle \notin Answered
    /\ \A w \in Writing : w # Team!Idle /\ w.pc \in {"start", "fetch", "fetched", "model"} /\ w.got \subseteq 1 .. MaxWork
    /\ \A w \in Answered : w.pc = "answered" /\ w.of \subseteq 1 .. MaxWork /\ w.age \in Team!Ages
BY DEF Team!Idle, Writing, Answered

LEMMA TextIsRow ==
    ASSUME NEW got \in SUBSET (1 .. MaxWork)
    PROVE  /\ Team!Text(got) \in TextRows
           /\ Team!Text(got).age = 0 /\ Team!Text(got).of = got
           /\ Team!Text(got).count = Cardinality(got)
BY TeamCounts, TeamAges, CommitsCount DEF Team!Text, TextRows

LEMMA SaidIs ==
    ASSUME NEW stale \in BOOLEAN, NEW of \in SUBSET (1 .. MaxWork), NEW age \in Team!Ages
    PROVE  /\ Team!Said(stale, of, age) \in Answered
           /\ Team!Said(stale, of, age).stale = stale /\ Team!Said(stale, of, age).of = of
           /\ Team!Said(stale, of, age).age = age
BY DEF Team!Said, Answered

LEMMA FetchedIs ==
    ASSUME TeamTypes, NEW w \in Writing, NEW failed
    PROVE  Team!Fetched(w, failed) \in Writing
BY DEF TeamTypes, Team!Fetched, Writing

LEMMA GoesOnTo ==
    ASSUME NEW w \in Writing, NEW pc \in {"start", "fetch", "fetched", "model"}
    PROVE  [w EXCEPT !.pc = pc] \in Writing
BY DEF Writing

LEMMA TeamBegins == Team!Init => TeamInv
<1> SUFFICES ASSUME Team!Init PROVE TeamInv
    OBVIOUS
<1>1. TeamTypes
    BY TeamAges DEF Team!Init, TeamTypes
<1>2. /\ RowSaysItsAge /\ (lock <=> task # Team!Idle)
      /\ \A r \in Requests : request[r].pc = "answered" /\ ~request[r].stale => Fresh(request[r])
    BY WorkerKinds DEF Team!Init, RowSaysItsAge
<1> QED  BY <1>1, <1>2 DEF TeamInv

\* A step of one request that stores nothing or a text.
LEMMA RequestMoves ==
    ASSUME TeamInv, NEW r \in Requests, NEW w \in {Team!Idle} \cup Writing \cup Answered,
           request' = [request EXCEPT ![r] = w],
           w.pc = "answered" /\ ~w.stale => Fresh(w),
           work' = work, written' \in Team!Ages,
           row' \in {NoRow} \cup TextRows, RowSaysItsAge',
           task' \in {Team!Idle} \cup Writing, lock' \in BOOLEAN, lock' <=> task' # Team!Idle
    PROVE  TeamInv'
<1>1. /\ request' \in [Requests -> {Team!Idle} \cup Writing \cup Answered]
      /\ \A q \in Requests : request'[q] = IF q = r THEN w ELSE request[q]
    BY DEF TeamInv, TeamTypes
<1>2. TeamTypes'
    BY <1>1 DEF TeamInv, TeamTypes, Team!Ages
<1>3. \A q \in Requests : request'[q].pc = "answered" /\ ~request'[q].stale => Fresh(request'[q])
    BY <1>1 DEF TeamInv
<1> QED  BY <1>2, <1>3 DEF TeamInv, Fresh

LEMMA OthersMove ==
    ASSUME TeamInv, request' = request,
           work' \subseteq 1 .. MaxWork, written' \in Team!Ages,
           row' \in {NoRow} \cup TextRows, RowSaysItsAge',
           task' \in {Team!Idle} \cup Writing, lock' \in BOOLEAN, lock' <=> task' # Team!Idle
    PROVE  TeamInv'
<1>1. TeamTypes'
    BY DEF TeamInv, TeamTypes, Team!Ages
<1> QED  BY <1>1 DEF TeamInv, Fresh

LEMMA Stored ==
    ASSUME NEW got \in SUBSET (1 .. MaxWork), Team!Store(got)
    PROVE  row' \in TextRows /\ written' \in Team!Ages /\ RowSaysItsAge'
BY TextIsRow, TeamAges DEF Team!Store, RowSaysItsAge

LEMMA LookedAt ==
    ASSUME TeamInv, row # NoRow, row' = Team!Looked, written' = written
    PROVE  row' \in TextRows /\ RowSaysItsAge'
BY TeamAges DEF TeamInv, TeamTypes, TextRows, Team!Looked, RowSaysItsAge

LEMMA TeamAsked ==
    ASSUME TeamInv, NEW r \in Requests, Team!Ask(r)
    PROVE  TeamInv'
<1>1. UNCHANGED <<work, row, written>>
    BY DEF Team!Ask
<1>2. /\ TeamTypes /\ RowSaysItsAge /\ RowSaysItsAge' /\ (lock <=> task # Team!Idle)
      /\ written \in Team!Ages /\ row \in {NoRow} \cup TextRows
      /\ task \in {Team!Idle} \cup Writing /\ lock \in BOOLEAN
    BY <1>1 DEF TeamInv, TeamTypes, RowSaysItsAge
<1>3. row # NoRow => row.of \in SUBSET (1 .. MaxWork) /\ row.age = written
    BY <1>2 DEF TextRows, RowSaysItsAge
<1>4. CASE /\ row # NoRow /\ Team!Age < Warm
           /\ request' = [request EXCEPT ![r] = Team!Said(FALSE, row.of, written)]
           /\ UNCHANGED <<lock, task>>
    <2>1. Fresh(Team!Said(FALSE, row.of, written))
        <3>1. Team!Said(FALSE, row.of, written).age = written
            BY DEF Team!Said
        <3>2. written < Warm
            BY <1>3, <1>4 DEF Team!Age
        <3> QED  BY <3>1, <3>2 DEF Fresh
    <2> QED  BY <1>1, <1>2, <1>3, <1>4, <2>1, SaidIs, RequestMoves
<1>5. CASE /\ row # NoRow
           /\ request' = [request EXCEPT ![r] = Team!Said(TRUE, row.of, written)]
           /\ lock' = TRUE
           /\ task' = IF lock THEN task ELSE [pc |-> "start", got |-> {}]
    <2>1. [pc |-> "start", got |-> {}] \in Writing
        BY DEF Writing
    <2>2. task' \in {Team!Idle} \cup Writing /\ lock' \in BOOLEAN /\ (lock' <=> task' # Team!Idle)
        BY <1>2, <1>5, <2>1, WorkerKinds
    <2> QED  BY <1>1, <1>2, <1>3, <1>5, <2>2, SaidIs, RequestMoves
<1>6. CASE /\ request' = [request EXCEPT ![r] = [pc |-> "fetch", got |-> {}]]
           /\ UNCHANGED <<lock, task>>
    <2>1. [pc |-> "fetch", got |-> {}] \in Writing
        BY DEF Writing
    <2> QED  BY <1>1, <1>2, <1>6, <2>1, WorkerKinds, RequestMoves
<1> QED  BY <1>4, <1>5, <1>6 DEF Team!Ask

LEMMA TeamRequestSteps ==
    ASSUME TeamInv, NEW r \in Requests,
           \/ Team!Empty(r) \/ Team!Skip(r) \/ Team!AskModel(r) \/ Team!Written(r) \/ Team!Unwritten(r)
           \/ Team!End(r) \/ \E failed \in SUBSET Team!TeamProducts : Team!Fetch(r, failed)
    PROVE  TeamInv'
<1>1. /\ TeamTypes /\ RowSaysItsAge /\ (lock <=> task # Team!Idle)
      /\ written \in Team!Ages /\ row \in {NoRow} \cup TextRows
      /\ task \in {Team!Idle} \cup Writing /\ lock \in BOOLEAN
      /\ request[r] \in {Team!Idle} \cup Writing \cup Answered
    BY DEF TeamInv, TeamTypes
<1>2. request[r].pc \in {"fetch", "fetched", "model"} =>
          request[r] \in Writing /\ request[r].got \in SUBSET (1 .. MaxWork)
    BY <1>1, WorkerKinds
<1>3. UNCHANGED <<row, written>> => RowSaysItsAge'
    BY <1>1 DEF RowSaysItsAge
<1>4. /\ Team!Said(FALSE, {}, 0) \in Answered /\ Fresh(Team!Said(FALSE, {}, 0))
      /\ \A got \in SUBSET (1 .. MaxWork) : Team!Said(FALSE, got, 0) \in Answered /\ Fresh(Team!Said(FALSE, got, 0))
    <2>1. \A got \in SUBSET (1 .. MaxWork) : Team!Said(FALSE, got, 0) \in Answered /\ Fresh(Team!Said(FALSE, got, 0))
        <3> TAKE got \in SUBSET (1 .. MaxWork)
        <3>1. 0 \in Team!Ages /\ 0 < Warm
            BY TeamAges
        <3>2. Team!Said(FALSE, got, 0) \in Answered /\ Team!Said(FALSE, got, 0).age = 0
            BY <3>1, SaidIs
        <3> QED  BY <3>1, <3>2 DEF Fresh
    <2> QED  BY <2>1
<1>5. CASE Team!Empty(r)
    <2>1. Team!Store({}) /\ request' = [request EXCEPT ![r] = Team!Said(FALSE, {}, 0)]
          /\ UNCHANGED <<work, lock, task>>
        BY <1>5 DEF Team!Empty
    <2>2. row' \in TextRows /\ written' \in Team!Ages /\ RowSaysItsAge'
        BY <2>1, Stored
    <2> QED  BY <1>1, <1>4, <2>1, <2>2, RequestMoves
<1>6. CASE Team!Skip(r)
    <2> DEFINE a == [Team!Said(FALSE, row.of, written) EXCEPT !.got = request[r].got]
    <2>1. /\ request[r].pc = "fetched" /\ row # NoRow /\ row.count = Team!Cardinality(request[r].got)
          /\ row' = Team!Looked /\ request' = [request EXCEPT ![r] = a]
          /\ UNCHANGED <<work, written, lock, task>>
        BY <1>6 DEF Team!Skip, Team!Unchanged
    <2>2. row.of \in SUBSET (1 .. MaxWork) /\ row.count = Cardinality(row.of)
        BY <1>1, <2>1 DEF TextRows, RowSaysItsAge
    <2>3. a \in Answered /\ a.of = row.of /\ a.got = request[r].got
        BY <1>1, <1>2, <2>1, <2>2 DEF Team!Said, Answered
    <2>4. Fresh(a)
        BY <2>1, <2>2, <2>3, TeamCounts DEF Fresh
    <2>5. row' \in TextRows /\ RowSaysItsAge'
        BY <2>1, LookedAt
    <2> HIDE DEF a
    <2> QED  BY <1>1, <2>1, <2>3, <2>4, <2>5, RequestMoves
<1>7. CASE Team!AskModel(r)
    <2>1. /\ request[r].pc = "fetched" /\ request' = [request EXCEPT ![r] = [request[r] EXCEPT !.pc = "model"]]
          /\ UNCHANGED <<work, row, written, lock, task>>
        BY <1>7 DEF Team!AskModel
    <2>2. [request[r] EXCEPT !.pc = "model"] \in Writing
        BY <1>2, <2>1, GoesOnTo
    <2> QED  BY <1>1, <1>3, <2>1, <2>2, WorkerKinds, RequestMoves
<1>8. CASE Team!Written(r)
    <2>1. /\ request[r].pc = "model" /\ Team!Store(request[r].got)
          /\ request' = [request EXCEPT ![r] = Team!Said(FALSE, request[r].got, 0)]
          /\ UNCHANGED <<work, lock, task>>
        BY <1>8 DEF Team!Written
    <2>2. row' \in TextRows /\ written' \in Team!Ages /\ RowSaysItsAge'
        BY <1>2, <2>1, Stored
    <2> QED  BY <1>1, <1>2, <1>4, <2>1, <2>2, RequestMoves
<1>9. CASE Team!Unwritten(r)
    <2>1. /\ request' = [request EXCEPT ![r] = Team!Said(FALSE, {}, 0)]
          /\ UNCHANGED <<work, row, written, lock, task>>
        BY <1>9 DEF Team!Unwritten
    <2> QED  BY <1>1, <1>3, <1>4, <2>1, RequestMoves
<1>10. CASE Team!End(r)
    <2>1. /\ request' = [request EXCEPT ![r] = Team!Idle]
          /\ UNCHANGED <<work, row, written, lock, task>>
        BY <1>10 DEF Team!End
    <2> QED  BY <1>1, <1>3, <2>1, WorkerKinds, RequestMoves
<1>11. ASSUME NEW failed, Team!Fetch(r, failed) PROVE TeamInv'
    <2>1. /\ request[r].pc = "fetch" /\ request' = [request EXCEPT ![r] = Team!Fetched(request[r], failed)]
          /\ UNCHANGED <<work, row, written, lock, task>>
        BY <1>11 DEF Team!Fetch
    <2>2. Team!Fetched(request[r], failed) \in Writing
        BY <1>1, <1>2, <2>1, FetchedIs
    <2> QED  BY <1>1, <1>3, <2>1, <2>2, WorkerKinds, RequestMoves
<1> QED  BY <1>5, <1>6, <1>7, <1>8, <1>9, <1>10, <1>11

LEMMA TeamTaskSteps ==
    ASSUME TeamInv,
           \/ Team!TaskStart \/ Team!TaskAskModel \/ Team!TaskSkip \/ Team!TaskStore \/ Team!TaskFails
           \/ \E failed \in SUBSET Team!TeamProducts : Team!TaskFetch(failed)
    PROVE  TeamInv'
<1>1. /\ TeamTypes /\ RowSaysItsAge /\ (lock <=> task # Team!Idle)
      /\ work \subseteq 1 .. MaxWork /\ written \in Team!Ages /\ row \in {NoRow} \cup TextRows
      /\ task \in {Team!Idle} \cup Writing /\ lock \in BOOLEAN
    BY DEF TeamInv, TeamTypes
<1>2. UNCHANGED <<row, written>> => RowSaysItsAge'
    BY <1>1 DEF RowSaysItsAge
<1>3. task.pc # "idle" => task \in Writing /\ task # Team!Idle /\ lock
    BY <1>1, WorkerKinds
<1>4. Team!Ended => lock' \in BOOLEAN /\ task' \in {Team!Idle} \cup Writing /\ (lock' <=> task' # Team!Idle)
    BY DEF Team!Ended
<1>5. CASE Team!TaskStart
    <2>1. task.pc = "start" /\ task' = [task EXCEPT !.pc = "fetch"] /\ UNCHANGED <<work, row, written, lock, request>>
        BY <1>5 DEF Team!TaskStart
    <2>2. task' \in Writing
        BY <1>3, <2>1, GoesOnTo
    <2> QED  BY <1>1, <1>2, <1>3, <2>1, <2>2, WorkerKinds, OthersMove
<1>6. CASE Team!TaskAskModel
    <2>1. task.pc = "fetched" /\ task' = [task EXCEPT !.pc = "model"] /\ UNCHANGED <<work, row, written, lock, request>>
        BY <1>6 DEF Team!TaskAskModel
    <2>2. task' \in Writing
        BY <1>3, <2>1, GoesOnTo
    <2> QED  BY <1>1, <1>2, <1>3, <2>1, <2>2, WorkerKinds, OthersMove
<1>7. CASE Team!TaskSkip
    <2>1. row # NoRow /\ row' = Team!Looked /\ Team!Ended /\ UNCHANGED <<work, written, request>>
        BY <1>7 DEF Team!TaskSkip, Team!Unchanged
    <2>2. row' \in TextRows /\ RowSaysItsAge'
        BY <2>1, LookedAt
    <2> QED  BY <1>1, <1>4, <2>1, <2>2, OthersMove
<1>8. CASE Team!TaskStore
    <2>1. task.pc \in {"model", "fetched"} /\ Team!Store(task.got) /\ Team!Ended /\ UNCHANGED <<work, request>>
        BY <1>8 DEF Team!TaskStore
    <2>2. task.got \in SUBSET (1 .. MaxWork)
        BY <1>3, <2>1, WorkerKinds
    <2>3. row' \in TextRows /\ written' \in Team!Ages /\ RowSaysItsAge'
        BY <2>1, <2>2, Stored
    <2> QED  BY <1>1, <1>4, <2>1, <2>3, OthersMove
<1>9. CASE Team!TaskFails
    <2>1. Team!Ended /\ UNCHANGED <<work, row, written, request>>
        BY <1>9 DEF Team!TaskFails
    <2> QED  BY <1>1, <1>2, <1>4, <2>1, OthersMove
<1>10. ASSUME NEW failed, Team!TaskFetch(failed) PROVE TeamInv'
    <2>1. task.pc = "fetch" /\ task' = Team!Fetched(task, failed) /\ UNCHANGED <<work, row, written, lock, request>>
        BY <1>10 DEF Team!TaskFetch
    <2>2. task' \in Writing
        BY <1>1, <1>3, <2>1, FetchedIs
    <2> QED  BY <1>1, <1>2, <1>3, <2>1, <2>2, WorkerKinds, OthersMove
<1> QED  BY <1>5, <1>6, <1>7, <1>8, <1>9, <1>10

LEMMA TeamElse ==
    ASSUME TeamInv, (\E c \in 1 .. MaxWork : Team!Work(c)) \/ Team!Hours \/ Team!Restart
    PROVE  TeamInv'
<1>1. /\ TeamTypes /\ RowSaysItsAge /\ (lock <=> task # Team!Idle)
      /\ work \subseteq 1 .. MaxWork /\ written \in Team!Ages /\ row \in {NoRow} \cup TextRows
      /\ task \in {Team!Idle} \cup Writing /\ lock \in BOOLEAN
    BY DEF TeamInv, TeamTypes
<1>2. UNCHANGED <<row, written>> => RowSaysItsAge'
    BY <1>1 DEF RowSaysItsAge
<1>3. ASSUME NEW c \in 1 .. MaxWork, Team!Work(c) PROVE TeamInv'
    <2>1. work' \subseteq 1 .. MaxWork /\ UNCHANGED <<row, written, lock, task, request>>
        BY <1>1, <1>3 DEF Team!Work
    <2> QED  BY <1>1, <1>2, <2>1, OthersMove
<1>4. CASE Team!Hours
    <2>1. /\ row # NoRow /\ row' = [row EXCEPT !.age = Team!Older(row.age), !.seen = Team!Older(row.seen)]
          /\ written' = Team!Older(written) /\ UNCHANGED <<work, lock, task, request>>
        BY <1>4 DEF Team!Hours
    <2>2. row \in TextRows /\ row.age \in Team!Ages /\ row.seen \in Team!Ages /\ row.age = written
        BY <1>1, <2>1 DEF TextRows, RowSaysItsAge
    <2>3. written' \in Team!Ages /\ Team!Older(row.age) \in Team!Ages /\ Team!Older(row.seen) \in Team!Ages
        BY <1>1, <2>1, <2>2, TeamAges
    <2>4. row' \in TextRows /\ row'.age = written' /\ row'.of = row.of /\ row'.count = row.count
        BY <2>1, <2>2, <2>3 DEF TextRows
    <2>5. RowSaysItsAge'
        BY <1>1, <2>1, <2>4 DEF RowSaysItsAge
    <2> QED  BY <1>1, <2>1, <2>3, <2>4, <2>5, OthersMove
<1>5. CASE Team!Restart
    <2>1. /\ lock' = FALSE /\ task' = Team!Idle /\ request' = [r \in Requests |-> Team!Idle]
          /\ UNCHANGED <<work, row, written>>
        BY <1>5 DEF Team!Restart
    <2>2. TeamTypes'
        BY <1>1, <2>1 DEF TeamTypes, Team!Ages
    <2> QED  BY <1>2, <2>1, <2>2, WorkerKinds DEF TeamInv
<1> QED  BY <1>3, <1>4, <1>5

LEMMA TeamStays == TeamInv /\ Team!Next => TeamInv'
BY TeamAsked, TeamRequestSteps, TeamTaskSteps, TeamElse DEF Team!Next

LEMMA TeamRests == TeamInv /\ UNCHANGED teamSummaries => TeamInv'
<1> SUFFICES ASSUME TeamInv, UNCHANGED teamSummaries PROVE TeamInv'
    OBVIOUS
<1>1. UNCHANGED <<work, row, written, lock, task, request>>
    BY DEF teamSummaries
<1> QED  BY <1>1 DEF TeamInv, TeamTypes, RowSaysItsAge, Fresh, Team!Ages

LEMMA TeamHolds == TeamInv => Team!TypeOK /\ Team!LockHasTask /\ Team!FreshOrSameCount
<1> SUFFICES ASSUME TeamInv PROVE Team!TypeOK /\ Team!LockHasTask /\ Team!FreshOrSameCount
    OBVIOUS
<1>1. /\ TeamTypes /\ RowSaysItsAge
      /\ row # NoRow => row.of \subseteq 1 .. MaxWork /\ row.age \in Team!Ages /\ row.seen \in Team!Ages
    BY DEF TeamInv, TeamTypes, TextRows
<1>2. \A w \in {task} \cup {request[r] : r \in Requests} : w \in {Team!Idle} \cup Writing \cup Answered
    BY <1>1 DEF TeamTypes
<1>3. \A w \in {task} \cup {request[r] : r \in Requests} :
          /\ w.pc \in {"idle", "start", "fetch", "fetched", "model", "answered"}
          /\ w.pc \in {"fetched", "model"} => w.got \subseteq 1 .. MaxWork
          /\ w.pc = "answered" => w.of \subseteq 1 .. MaxWork /\ w.age \in Team!Ages
    BY <1>2, WorkerKinds
<1>4. Team!TypeOK
    BY <1>1, <1>3, TeamCounts DEF TeamTypes, RowSaysItsAge, Team!TypeOK
<1>5. Team!LockHasTask
    BY DEF TeamInv, Team!LockHasTask
<1>6. Team!FreshOrSameCount
    BY TeamCounts DEF TeamInv, Fresh, Team!FreshOrSameCount
<1> QED  BY <1>4, <1>5, <1>6

-----------------------------------------------------------------------------
(* Rows in a list.  In a finite set that R puts in a line, as many rows as  *)
(* one likes are those before which there are fewer.                        *)

Lined(V, R) ==
    /\ \A s \in V : <<s, s>> \notin R
    /\ \A s, t \in V : s = t \/ <<s, t>> \in R \/ <<t, s>> \in R
    /\ \A s, t, u \in V : <<s, t>> \in R /\ <<t, u>> \in R => <<s, u>> \in R

Ahead(V, R, t) == {u \in V : <<u, t>> \in R}
First(V, R, n) == {t \in V : Cardinality(Ahead(V, R, t)) < n}

LEMMA SmallestSet ==
    ASSUME NEW V, IsFiniteSet(V), NEW B, B \subseteq SUBSET V, B # {}
    PROVE  \E M \in B : \A N \in B : N \subseteq M => N = M
<1>1. IsWellFoundedOn(StrictSubsetOrdering(V), FiniteSubsetsOf(V)) /\ FiniteSubsetsOf(V) = SUBSET V
    BY FS_StrictSubsetOrderingWellFounded, FS_FiniteSubsetsOfFinite
<1>2. PICK M \in B : \A N \in B : <<N, M>> \notin StrictSubsetOrdering(V)
    BY <1>1, WFMin
<1>3. \A N \in B : N \subseteq M => N = M
    BY <1>2 DEF StrictSubsetOrdering
<1> QED  BY <1>3

LEMMA AheadIsFinite ==
    ASSUME NEW V, IsFiniteSet(V), NEW R, NEW t
    PROVE  IsFiniteSet(Ahead(V, R, t)) /\ Cardinality(Ahead(V, R, t)) \in Nat
BY FS_Subset, FS_CardinalityType DEF Ahead

\* Of two rows, fewer are ahead of the first.
LEMMA FewerAhead ==
    ASSUME NEW V, IsFiniteSet(V), NEW R, Lined(V, R), NEW s \in V, NEW t \in V, <<s, t>> \in R
    PROVE  /\ Ahead(V, R, s) \subseteq Ahead(V, R, t) /\ Ahead(V, R, s) # Ahead(V, R, t)
           /\ Cardinality(Ahead(V, R, s)) < Cardinality(Ahead(V, R, t))
<1>1. Ahead(V, R, s) \subseteq Ahead(V, R, t) /\ s \in Ahead(V, R, t) /\ s \notin Ahead(V, R, s)
    BY DEF Lined, Ahead
<1>2. IsFiniteSet(Ahead(V, R, s)) /\ IsFiniteSet(Ahead(V, R, t))
    BY AheadIsFinite
<1>3. Cardinality(Ahead(V, R, s)) \in Nat /\ Cardinality(Ahead(V, R, t)) \in Nat
    BY AheadIsFinite
<1>4. Cardinality(Ahead(V, R, s)) <= Cardinality(Ahead(V, R, t))
    BY <1>1, <1>2, FS_Subset
<1>5. Cardinality(Ahead(V, R, s)) # Cardinality(Ahead(V, R, t))
    BY <1>1, <1>2, FS_Subset
<1> QED  BY <1>1, <1>3, <1>4, <1>5

\* After n rows comes one with n ahead of it, and only one.
LEMMA OneWithSoMany ==
    ASSUME NEW V, IsFiniteSet(V), NEW R, Lined(V, R), NEW n \in Nat,
           Cardinality(First(V, R, n)) = n, n < Cardinality(V)
    PROVE  \E t \in V : t \notin First(V, R, n) /\ First(V, R, n + 1) = First(V, R, n) \cup {t}
<1> DEFINE F == First(V, R, n)
           B == {Ahead(V, R, t) : t \in V \ F}
<1>1. F \subseteq V /\ F # V /\ Cardinality(F) = n
    BY DEF First
<1>2. B \subseteq SUBSET V /\ B # {}
    BY <1>1 DEF Ahead
<1>3. PICK M \in B : \A N \in B : N \subseteq M => N = M
    <2> HIDE DEF B
    <2> QED  BY <1>2, SmallestSet
<1>4. PICK t \in V \ F : M = Ahead(V, R, t)
    BY <1>3
<1>5. \A u \in V : Cardinality(Ahead(V, R, u)) \in Nat
    BY AheadIsFinite
<1>6. ASSUME NEW u \in V, <<u, t>> \in R PROVE u \in F
    BY <1>3, <1>4, <1>6, FewerAhead
<1>7. ASSUME NEW u \in F PROVE <<u, t>> \in R
    <2>1. u \in V /\ u # t /\ Cardinality(Ahead(V, R, u)) < n /\ ~(Cardinality(Ahead(V, R, t)) < n)
        BY <1>4 DEF First
    <2>2. CASE <<t, u>> \in R
        <3>1. Cardinality(Ahead(V, R, t)) < Cardinality(Ahead(V, R, u))
            BY <2>1, <2>2, FewerAhead
        <3> QED  BY <2>1, <3>1, <1>5
    <2> QED  BY <2>1, <2>2, <1>4 DEF Lined
<1>8. Ahead(V, R, t) = F
    BY <1>1, <1>6, <1>7 DEF Ahead
<1>9. Cardinality(Ahead(V, R, t)) = n
    BY <1>1, <1>8
<1>10. ASSUME NEW u \in V PROVE Cardinality(Ahead(V, R, u)) < n + 1 <=> u \in F \cup {t}
    <2>1. CASE u = t
        BY <1>9, <2>1
    <2>2. CASE u # t /\ <<t, u>> \in R
        <3>1. Cardinality(Ahead(V, R, t)) < Cardinality(Ahead(V, R, u))
            BY <2>2, <1>4, FewerAhead
        <3> QED  BY <3>1, <1>9, <1>5, <2>2 DEF First
    <2>3. CASE u # t /\ <<u, t>> \in R
        <3>1. u \in F
            BY <1>6, <2>3
        <3> QED  BY <3>1, <1>5 DEF First
    <2> QED  BY <2>1, <2>2, <2>3, <1>4 DEF Lined
<1>11. First(V, R, n + 1) = F \cup {t}
    BY <1>1, <1>4, <1>10 DEF First
<1> QED  BY <1>4, <1>11

LEMMA InductionOnNat ==
    ASSUME NEW G, 0 \in G, \A n \in Nat : n \in G => n + 1 \in G
    PROVE  Nat \subseteq G
<1> SUFFICES ASSUME Nat \ G # {} PROVE FALSE
    OBVIOUS
<1> DEFINE R == {p \in Nat \X Nat : p[1] < p[2]}
<1>1. IsWellFoundedOn(R, Nat)
    BY NatLessThanWellFounded DEF OpToRel
<1>2. \A m, n \in Nat : m < n => <<m, n>> \in R
    OBVIOUS
<1> HIDE DEF R
<1>3. PICK m \in Nat \ G : \A n \in Nat \ G : <<n, m>> \notin R
    BY <1>1, WFMin
<1>4. m # 0 /\ m - 1 \in Nat /\ m - 1 < m /\ (m - 1) + 1 = m
    BY <1>3
<1> QED  BY <1>2, <1>3, <1>4

\* The first n are n, as long as there are so many, and all if there are not.
LEMMA FirstAreSoMany ==
    ASSUME NEW V, IsFiniteSet(V), NEW R, Lined(V, R), NEW n \in Nat
    PROVE  /\ IsFiniteSet(First(V, R, n)) /\ Cardinality(First(V, R, n)) \in Nat
           /\ n <= Cardinality(V) => Cardinality(First(V, R, n)) = n
           /\ n >= Cardinality(V) => First(V, R, n) = V
<1> DEFINE G == {k \in Nat : k <= Cardinality(V) => Cardinality(First(V, R, k)) = k}
<1>1. Cardinality(V) \in Nat /\ \A k \in Nat : First(V, R, k) \subseteq V /\ IsFiniteSet(First(V, R, k))
    BY FS_CardinalityType, FS_Subset DEF First
<1>2. 0 \in G
    <2>1. First(V, R, 0) = {}
        BY AheadIsFinite DEF First
    <2> QED  BY <2>1, FS_EmptySet
<1>3. ASSUME NEW k \in Nat, k \in G PROVE k + 1 \in G
    <2> SUFFICES ASSUME k + 1 <= Cardinality(V) PROVE Cardinality(First(V, R, k + 1)) = k + 1
        BY DEF G
    <2>1. Cardinality(First(V, R, k)) = k /\ k < Cardinality(V)
        BY <1>1, <1>3
    <2>2. PICK t \in V : t \notin First(V, R, k) /\ First(V, R, k + 1) = First(V, R, k) \cup {t}
        BY <2>1, OneWithSoMany
    <2> QED  BY <1>1, <2>1, <2>2, FS_AddElement
<1>4. Nat \subseteq G
    <2> HIDE DEF G
    <2> QED  BY <1>2, <1>3, InductionOnNat
<1>5. n <= Cardinality(V) => Cardinality(First(V, R, n)) = n
    BY <1>4
<1>6. ASSUME n >= Cardinality(V) PROVE First(V, R, n) = V
    <2>1. Cardinality(First(V, R, Cardinality(V))) = Cardinality(V)
        BY <1>1, <1>4
    <2>2. First(V, R, Cardinality(V)) = V
        BY <1>1, <2>1, FS_Subset
    <2> QED  BY <2>2, <1>1, <1>6, AheadIsFinite DEF First
<1> QED  BY <1>1, <1>5, <1>6, FS_CardinalityType

-----------------------------------------------------------------------------
(* The interface for assistants.  While nothing left the list a walk reads, *)
(* it has seen what was there all the time among the rows it has passed.    *)

Walks == [pc: {"next", "rows", "done"}, key: McpKeys, kind: Kinds, types: SUBSET Types, from: Nat,
          seen: SUBSET (1 .. MaxThings), there: SUBSET (1 .. MaxThings), left: BOOLEAN]

ThingTypes(all, time) ==
    /\ all \subseteq Mcp!Things /\ IsFiniteSet(all) /\ time \in 0 .. LastStep
    /\ \A t, u \in all : t # u => t.id # u.id /\ t.at # u.at
    /\ \A t \in all : t.id <= Cardinality(all) /\ t.at <= time

On(w, all) == {t \in all : t.of = "p" /\ t.kind = w.kind /\ t.type \in w.types /\ ~t.gone}
Newer(rows, t) == {u \in rows : u.at > t.at}
IdsOf(rows) == {t.id : t \in rows}

Passed(w, rows, t) == w.pc = "done" \/ Cardinality(Newer(rows, t)) < w.from

WalkFits(w, rows) ==
    /\ w.there \subseteq IdsOf(rows)
    /\ ~w.left => \A t \in rows : t.id \in w.there /\ Passed(w, rows, t) => t.id \in w.seen

WalkInv ==
    /\ keys \in [McpKeys -> {"none", "live", "revoked"}]
    /\ ThingTypes(things, clock)
    /\ walk \in {Mcp!NoWalk} \cup Walks
    /\ walk # Mcp!NoWalk => WalkFits(walk, On(walk, things))

LEMMA McpCounts == \A M : Mcp!Cardinality(M) = Cardinality(M)
BY DEF Mcp!Cardinality, Cardinality, Mcp!IsFiniteSet, IsFiniteSet

LEMMA NoWalkIs == Mcp!NoWalk.pc = "none" /\ Mcp!NoWalk \notin Walks /\ \A w \in Walks : w.pc # "none"
BY DEF Mcp!NoWalk, Walks

LEMMA ListIs ==
    /\ \A w \in Walks : Mcp!Listed(w) = On(w, things)
    /\ \A w \in Walks : \A all : {t \in all : t.of = [k \in McpKeys |-> "p"][w.key] /\ t.kind = w.kind
                                               /\ t.type \in w.types /\ ~t.gone} = On(w, all)
    /\ \A all : Mcp!Ids(all) = IdsOf(all)
BY DEF Mcp!Listed, Mcp!Listing, On, Walks, Mcp!Ids, IdsOf

LEMMA ThingFields ==
    \A t \in Mcp!Things : t.id \in 1 .. MaxThings /\ t.at \in 1 .. LastStep /\ t.gone \in BOOLEAN
                          /\ t.kind \in Kinds /\ t.type \in Types /\ t.of = "p"
BY DEF Mcp!Things, Mcp!KeyProducts

\* Where others have rows of the same numbers there are at least as many.
LEMMA AtLeastAsMany ==
    ASSUME NEW X, NEW Y, IsFiniteSet(X), IsFiniteSet(Y), \A a, b \in X : a.id = b.id => a = b,
           \A a \in X : \E b \in Y : b.id = a.id
    PROVE  Cardinality(X) <= Cardinality(Y)
<1> DEFINE f == [a \in X |-> CHOOSE b \in Y : b.id = a.id]
<1>1. \A a \in X : f[a] \in Y /\ f[a].id = a.id
    OBVIOUS
<1>2. f \in Injection(X, Y)
    <2>1. f \in [X -> Y]
        BY <1>1
    <2>2. \A a, b \in X : f[a] = f[b] => a = b
        <3> HIDE DEF f
        <3> QED  BY <1>1
    <2> HIDE DEF f
    <2> QED  BY <2>1, <2>2 DEF Injection, IsInjective
<1> QED  BY <1>2, FS_Injection

LEMMA ListIsFinite ==
    ASSUME NEW w, NEW all, NEW time, ThingTypes(all, time), NEW t
    PROVE  /\ IsFiniteSet(On(w, all)) /\ IsFiniteSet(Newer(On(w, all), t))
           /\ Cardinality(Newer(On(w, all), t)) \in Nat
BY FS_Subset, FS_CardinalityType DEF ThingTypes, On, Newer

\* Rows keep their times: then what a walk has passed it passed before.
LEMMA NotedFits ==
    ASSUME NEW w \in Walks, NEW all, NEW next, NEW time, NEW later, ThingTypes(all, time),
           ThingTypes(next, later), WalkFits(w, On(w, all)), NEW v \in Walks,
           v.pc = w.pc, v.kind = w.kind, v.types = w.types, v.from = w.from, v.seen = w.seen,
           v.there = w.there \cap IdsOf(On(w, next)),
           v.left = (w.left \/ IdsOf(On(w, all)) \ IdsOf(On(w, next)) # {}),
           \A t \in all, u \in next : t.id = u.id => t.at = u.at
    PROVE  WalkFits(v, On(v, next))
<1>1. On(v, next) = On(w, next)
    BY DEF On
<1>2. v.there \subseteq IdsOf(On(v, next))
    BY <1>1
<1>3. ASSUME ~v.left, NEW t \in On(v, next), t.id \in v.there, Passed(v, On(v, next), t)
      PROVE  t.id \in v.seen
    <2>1. ~w.left /\ IdsOf(On(w, all)) \subseteq IdsOf(On(w, next)) /\ t.id \in w.there
        BY <1>3
    <2>2. PICK u \in On(w, all) : u.id = t.id
        BY <2>1 DEF WalkFits, IdsOf
    <2>3. u \in all /\ t \in next /\ u.at = t.at
        BY <1>1, <2>2 DEF On
    <2> DEFINE X == Newer(On(w, all), u)
               Y == Newer(On(w, next), t)
    <2>4. IsFiniteSet(X) /\ IsFiniteSet(Y) /\ Cardinality(X) \in Nat /\ Cardinality(Y) \in Nat
        BY ListIsFinite
    <2>5. \A a, b \in X : a.id = b.id => a = b
        BY DEF Newer, On, ThingTypes
    <2>6. ASSUME NEW a \in X PROVE \E b \in Y : b.id = a.id
        <3>1. a \in On(w, all) /\ a \in all /\ a.at > u.at
            BY DEF Newer, On
        <3>2. PICK b \in On(w, next) : b.id = a.id
            BY <2>1, <3>1 DEF IdsOf
        <3>3. b.at = a.at
            BY <3>1, <3>2 DEF On
        <3> QED  BY <2>3, <3>1, <3>2, <3>3 DEF Newer
    <2>7. Cardinality(X) <= Cardinality(Y)
        <3> HIDE DEF X, Y
        <3> QED  BY <2>4, <2>5, <2>6, AtLeastAsMany
    <2>8. Passed(w, On(w, all), u)
        BY <1>1, <1>3, <2>4, <2>7 DEF Passed, Walks
    <2> QED  BY <2>1, <2>2, <2>8 DEF WalkFits
<1> QED  BY <1>2, <1>3 DEF WalkFits

\* What is noted of a change of rows.
LEMMA SetHolds ==
    ASSUME WalkInv, NEW next, NEW later, ThingTypes(next, later), walk' = Mcp!Noted(next),
           \A t \in things, u \in next : t.id = u.id => t.at = u.at
    PROVE  walk' \in {Mcp!NoWalk} \cup Walks /\ (walk' # Mcp!NoWalk => WalkFits(walk', On(walk', next)))
<1>1. CASE walk = Mcp!NoWalk
    BY <1>1 DEF Mcp!Noted
<1>2. CASE walk # Mcp!NoWalk
    <2>1. walk \in Walks /\ WalkFits(walk, On(walk, things)) /\ ThingTypes(things, clock)
        BY <1>2 DEF WalkInv
    <2>2. walk' = [walk EXCEPT !.there = @ \cap IdsOf(On(walk, next)),
                               !.left = @ \/ IdsOf(On(walk, things)) \ IdsOf(On(walk, next)) # {}]
        BY <1>2, <2>1, ListIs, Zenon DEF Mcp!Noted
    <2>3. /\ walk' \in Walks
          /\ walk'.pc = walk.pc /\ walk'.kind = walk.kind /\ walk'.types = walk.types
          /\ walk'.from = walk.from /\ walk'.seen = walk.seen
          /\ walk'.there = walk.there \cap IdsOf(On(walk, next))
          /\ walk'.left = (walk.left \/ IdsOf(On(walk, things)) \ IdsOf(On(walk, next)) # {})
        BY <2>1, <2>2 DEF Walks
    <2> QED  BY <2>1, <2>3, NotedFits
<1> QED  BY <1>1, <1>2

\* A row is added.
LEMMA RowAdded ==
    ASSUME NEW all, NEW time, ThingTypes(all, time), NEW t \in Mcp!Things, t.at = time + 1,
           time < LastStep, t.id = Cardinality(all) + 1
    PROVE  /\ ThingTypes(all \cup {t}, time + 1)
           /\ \A s \in all, u \in all \cup {t} : s.id = u.id => s.at = u.at
<1>1. /\ all \subseteq Mcp!Things /\ IsFiniteSet(all) /\ time \in Nat /\ Cardinality(all) \in Nat
      /\ \A s \in all : s.id \in Nat /\ s.at \in Nat /\ s.id <= Cardinality(all) /\ s.at <= time
    BY FS_CardinalityType, ThingFields DEF ThingTypes
<1>2. t \notin all
    BY <1>1
<1>3. IsFiniteSet(all \cup {t}) /\ Cardinality(all \cup {t}) = Cardinality(all) + 1
    BY <1>1, <1>2, FS_AddElement
<1>4. time + 1 \in 0 .. LastStep
    BY <1>1, WorkspaceConstants
<1>5. \A s \in all : s.id # t.id /\ s.at # t.at
    BY <1>1
<1>6. \A s, u \in all \cup {t} : s # u => s.id # u.id /\ s.at # u.at
    BY <1>5 DEF ThingTypes
<1>7. \A s \in all \cup {t} : s.id <= Cardinality(all) + 1 /\ s.at <= time + 1
    BY <1>1
<1>8. ThingTypes(all \cup {t}, time + 1)
    BY <1>1, <1>3, <1>4, <1>6, <1>7 DEF ThingTypes
<1> QED  BY <1>5, <1>6, <1>8

\* A row is replaced by one of its number.
LEMMA RowReplaced ==
    ASSUME NEW all, NEW time, ThingTypes(all, time), NEW later \in 0 .. LastStep, time <= later,
           NEW t \in all, NEW u \in Mcp!Things, u.id = t.id, u.at = t.at \/ (u.at = later /\ time < later)
    PROVE  /\ ThingTypes((all \ {t}) \cup {u}, later)
           /\ u.at = t.at => \A s \in all, v \in (all \ {t}) \cup {u} : s.id = v.id => s.at = v.at
<1>1. /\ all \subseteq Mcp!Things /\ IsFiniteSet(all) /\ time \in Nat /\ Cardinality(all) \in Nat
      /\ \A s \in all : s.id \in Nat /\ s.at \in Nat /\ s.id <= Cardinality(all) /\ s.at <= time
    BY FS_CardinalityType, ThingFields DEF ThingTypes
<1>2. \A s \in all \ {t} : s.id # u.id /\ s.at # u.at
    BY <1>1 DEF ThingTypes
<1>3. u \notin all \ {t}
    BY <1>2
<1>4. IsFiniteSet(all \ {t}) /\ Cardinality(all \ {t}) = Cardinality(all) - 1
    BY <1>1, FS_RemoveElement
<1>5. IsFiniteSet((all \ {t}) \cup {u}) /\ Cardinality((all \ {t}) \cup {u}) = Cardinality(all)
    <2> DEFINE rest == all \ {t}
    <2>1. IsFiniteSet(rest) /\ Cardinality(rest) = Cardinality(all) - 1 /\ u \notin rest
        BY <1>3, <1>4
    <2> HIDE DEF rest
    <2>2. IsFiniteSet(rest \cup {u}) /\ Cardinality(rest \cup {u}) = Cardinality(rest) + 1
        BY <2>1, FS_AddElement
    <2>3. Cardinality(rest \cup {u}) = Cardinality(all)
        BY <1>1, <2>1, <2>2
    <2> QED  BY <2>2, <2>3 DEF rest
<1>6. \A s, v \in (all \ {t}) \cup {u} : s # v => s.id # v.id /\ s.at # v.at
    BY <1>2 DEF ThingTypes
<1>7. \A s \in (all \ {t}) \cup {u} : s.id <= Cardinality(all) /\ s.at <= later
    BY <1>1
<1>8. ThingTypes((all \ {t}) \cup {u}, later)
    BY <1>1, <1>5, <1>6, <1>7 DEF ThingTypes
<1>9. ASSUME u.at = t.at, NEW s \in all, NEW v \in (all \ {t}) \cup {u}, s.id = v.id PROVE s.at = v.at
    BY <1>1, <1>9 DEF ThingTypes
<1> QED  BY <1>8, <1>9

LEMMA SetKeeps ==
    ASSUME WalkInv, NEW next, NEW later, ThingTypes(next, later), Mcp!Set(next), clock' = later, keys' = keys,
           \A t \in things, u \in next : t.id = u.id => t.at = u.at
    PROVE  WalkInv'
<1>1. things' = next /\ walk' = Mcp!Noted(next)
    BY DEF Mcp!Set
<1>2. walk' \in {Mcp!NoWalk} \cup Walks /\ (walk' # Mcp!NoWalk => WalkFits(walk', On(walk', next)))
    BY <1>1, SetHolds
<1>3. walk' # Mcp!NoWalk => WalkFits(walk, On(walk, things))'
    BY <1>1, <1>2
<1> QED  BY <1>1, <1>2, <1>3 DEF WalkInv

LEMMA CreateKeeps ==
    ASSUME WalkInv, NEW p \in Mcp!KeyProducts, NEW kind \in Kinds, NEW type \in Types, Mcp!Create(p, kind, type)
    PROVE  WalkInv'
<1> DEFINE t == [id |-> Cardinality(things) + 1, kind |-> kind, of |-> p, type |-> type, at |-> clock + 1,
                 gone |-> FALSE]
<1>1. ThingTypes(things, clock) /\ clock \in Nat /\ clock < LastStep /\ Cardinality(things) \in Nat
    BY FS_CardinalityType DEF WalkInv, ThingTypes, Mcp!Create
<1>2. Cardinality(things) < MaxThings
    BY McpCounts DEF Mcp!Create
<1>3. t \in Mcp!Things /\ t.id = Cardinality(things) + 1 /\ t.at = clock + 1
    BY <1>1, <1>2, WorkspaceConstants DEF Mcp!Things
<1>4. Mcp!Set(things \cup {t}) /\ clock' = clock + 1 /\ keys' = keys
    BY McpCounts DEF Mcp!Create
<1> HIDE DEF t
<1>5. /\ ThingTypes(things, clock) /\ clock < LastStep
      /\ t \in Mcp!Things /\ t.at = clock + 1 /\ t.id = Cardinality(things) + 1
    BY <1>1, <1>3
<1>6. /\ ThingTypes(things \cup {t}, clock + 1)
      /\ \A s \in things, u \in things \cup {t} : s.id = u.id => s.at = u.at
    BY <1>5, RowAdded, SMTT(30)
<1> QED  BY <1>4, <1>6, SetKeeps

LEMMA ChangeKeeps ==
    ASSUME WalkInv, NEW t \in things, NEW type \in Types, Mcp!Change(t, type)
    PROVE  WalkInv'
<1>1. ThingTypes(things, clock) /\ t \in Mcp!Things /\ clock \in Nat /\ clock + 1 \in 0 .. LastStep
    BY WorkspaceConstants DEF WalkInv, ThingTypes, Mcp!Change
<1> DEFINE u == Mcp!Changed(t, type)
<1>2. u \in Mcp!Things /\ u.id = t.id /\ u.at = t.at
    BY <1>1 DEF Mcp!Changed, Mcp!Things
<1>3. Mcp!Set((things \ {t}) \cup {u}) /\ clock' = clock + 1 /\ keys' = keys
    BY DEF Mcp!Change
<1> HIDE DEF u
<1>4. /\ ThingTypes((things \ {t}) \cup {u}, clock + 1)
      /\ \A s \in things, v \in (things \ {t}) \cup {u} : s.id = v.id => s.at = v.at
    BY <1>1, <1>2, RowReplaced
<1> QED  BY <1>3, <1>4, SetKeeps

LEMMA RemoveKeeps ==
    ASSUME WalkInv, NEW t \in things, Mcp!Remove(t)
    PROVE  WalkInv'
<1>1. ThingTypes(things, clock) /\ t \in Mcp!Things /\ clock \in Nat /\ clock \in 0 .. LastStep
    BY DEF WalkInv, ThingTypes
<1> DEFINE u == [t EXCEPT !.gone = TRUE]
<1>2. u \in Mcp!Things /\ u.id = t.id /\ u.at = t.at
    BY <1>1 DEF Mcp!Things
<1>3. Mcp!Set((things \ {t}) \cup {u}) /\ clock' = clock /\ keys' = keys
    BY DEF Mcp!Remove
<1> HIDE DEF u
<1>4. /\ ThingTypes((things \ {t}) \cup {u}, clock)
      /\ \A s \in things, v \in (things \ {t}) \cup {u} : s.id = v.id => s.at = v.at
    BY <1>1, <1>2, RowReplaced
<1> QED  BY <1>3, <1>4, SetKeeps

\* A document that moves to the front of the walk's list is noted; another is
\* not on it, and does not come onto it.
LEMMA MoveKeeps ==
    ASSUME WalkInv, NEW t \in things, Mcp!Move(t)
    PROVE  WalkInv'
<1>1. ThingTypes(things, clock) /\ t \in Mcp!Things /\ clock \in Nat /\ clock < LastStep
    BY DEF WalkInv, ThingTypes, Mcp!Move
<1> DEFINE u == [t EXCEPT !.at = clock + 1]
           next == (things \ {t}) \cup {u}
<1>2. /\ u \in Mcp!Things /\ u.id = t.id /\ u.at = clock + 1
      /\ u.kind = t.kind /\ u.of = t.of /\ u.type = t.type /\ u.gone = t.gone
    BY <1>1, WorkspaceConstants DEF Mcp!Things
<1>3. things' = next /\ clock' = clock + 1 /\ keys' = keys
    BY DEF Mcp!Move
<1> HIDE DEF u
<1>4. ThingTypes(next, clock + 1)
    <2>1. clock + 1 \in 0 .. LastStep /\ clock < clock + 1
        BY <1>1, WorkspaceConstants
    <2> QED  BY <1>1, <1>2, <2>1, RowReplaced
<1>5. ASSUME walk # Mcp!NoWalk PROVE walk' \in Walks /\ WalkFits(walk', On(walk', next))
    <2>1. walk \in Walks /\ WalkFits(walk, On(walk, things))
        BY <1>5 DEF WalkInv
    <2>2. CASE t \in On(walk, things)
        <3>1. walk' = [walk EXCEPT !.left = TRUE]
            BY <1>5, <2>1, <2>2, ListIs DEF Mcp!Move
        <3>2. walk' \in Walks /\ walk'.left /\ walk'.there = walk.there /\ On(walk', next) = On(walk, next)
            BY <2>1, <3>1 DEF Walks, On
        <3>3. IdsOf(On(walk, things)) \subseteq IdsOf(On(walk, next))
            <4> SUFFICES ASSUME NEW s \in On(walk, things) PROVE \E v \in On(walk, next) : v.id = s.id
                BY DEF IdsOf
            <4>1. u \in On(walk, next)
                BY <1>2, <2>2 DEF On
            <4>2. CASE s # t
                BY <4>2 DEF On
            <4> QED  BY <1>2, <4>1, <4>2
        <3> QED  BY <2>1, <3>2, <3>3 DEF WalkFits
    <2>3. CASE t \notin On(walk, things)
        <3>1. walk' = walk
            BY <2>1, <2>3, ListIs DEF Mcp!Move
        <3>2. u \notin On(walk, next)
            BY <1>2, <2>3 DEF On
        <3>3. On(walk, next) = On(walk, things)
            BY <2>3, <3>2 DEF On
        <3> QED  BY <2>1, <3>1, <3>3
    <2> QED  BY <2>2, <2>3
<1>6. walk = Mcp!NoWalk => walk' = walk
    BY DEF Mcp!Move
<1>7. walk' \in {Mcp!NoWalk} \cup Walks
    BY <1>5, <1>6
<1>8. walk' # Mcp!NoWalk => WalkFits(walk, On(walk, things))'
    BY <1>3, <1>5, <1>6
<1> QED  BY <1>3, <1>4, <1>7, <1>8 DEF WalkInv

\* A page that is not full is the last: no row comes after it.
LEMMA PageIsFull ==
    ASSUME NEW rows, IsFiniteSet(rows), \A t \in rows : t.at \in Nat,
           \A t, u \in rows : t # u => t.at # u.at, NEW from \in Nat,
           NEW t \in rows, Cardinality(Newer(rows, t)) >= from + PageSize
    PROVE  Cardinality(Mcp!Slice(rows, from)) = PageSize
<1> DEFINE R == {x \in rows \X rows : x[1].at > x[2].at}
           upto(n) == First(rows, R, n)
<1>1. Lined(rows, R)
    BY DEF Lined
<1>2. \A u \in rows : Ahead(rows, R, u) = Newer(rows, u)
    BY DEF Ahead, Newer
<1>3. /\ \A u \in rows : Cardinality(Newer(rows, u)) \in Nat
      /\ Cardinality(Newer(rows, t)) <= Cardinality(rows) /\ Cardinality(rows) \in Nat
    BY FS_Subset, FS_CardinalityType DEF Newer
<1> HIDE DEF R
<1>4. PageSize \in Nat
    BY WorkspaceConstants
<1>5. /\ Cardinality(upto(from + PageSize)) = from + PageSize /\ IsFiniteSet(upto(from + PageSize))
      /\ Cardinality(upto(from)) = from
    BY <1>1, <1>3, <1>4, FirstAreSoMany
<1>6. upto(from) \subseteq upto(from + PageSize)
    BY <1>2, <1>3, <1>4 DEF First
<1>7. Mcp!Slice(rows, from) = upto(from + PageSize) \ upto(from)
    <2>1. Mcp!Slice(rows, from) = {u \in rows : /\ Cardinality(Newer(rows, u)) >= from
                                               /\ Cardinality(Newer(rows, u)) < from + PageSize}
        BY McpCounts DEF Mcp!Slice, Newer
    <2>2. \A n : upto(n) = {u \in rows : Cardinality(Newer(rows, u)) < n}
        BY <1>2 DEF First
    <2>3. \A u \in rows : Cardinality(Newer(rows, u)) >= from <=> ~(Cardinality(Newer(rows, u)) < from)
        BY <1>3
    <2> QED  BY <2>1, <2>2, <2>3
<1>8. Cardinality(upto(from + PageSize) \ upto(from)) = Cardinality(upto(from + PageSize)) - Cardinality(upto(from))
    <2> DEFINE U == upto(from + PageSize)
               D == upto(from)
    <2>1. IsFiniteSet(U) /\ U \cap D = D
        BY <1>5, <1>6
    <2> HIDE DEF U, D
    <2>2. Cardinality(U \ D) = Cardinality(U) - Cardinality(U \cap D)
        BY <2>1, FS_Difference
    <2> QED  BY <2>1, <2>2 DEF U, D
<1> QED  BY <1>4, <1>5, <1>7, <1>8

LEMMA ReadKeeps ==
    ASSUME WalkInv, Mcp!ReadPage
    PROVE  WalkInv'
<1>1. walk.pc = "rows" /\ walk # Mcp!NoWalk
    BY NoWalkIs DEF Mcp!ReadPage
<1>2. walk \in Walks /\ WalkFits(walk, On(walk, things)) /\ ThingTypes(things, clock)
    BY <1>1 DEF WalkInv
<1> DEFINE rows == On(walk, things)
           page == Mcp!Slice(rows, walk.from)
<1>3. /\ walk' = [walk EXCEPT !.seen = @ \cup IdsOf(page), !.from = @ + PageSize,
                              !.pc = IF Cardinality(page) < PageSize THEN "done" ELSE "next"]
      /\ UNCHANGED <<keys, things, clock>>
    BY <1>2, ListIs, McpCounts, Zenon DEF Mcp!ReadPage
<1>4. IdsOf(page) \subseteq 1 .. MaxThings
    BY <1>2, ThingFields DEF IdsOf, Mcp!Slice, On, ThingTypes
<1> HIDE DEF page
<1>5. /\ walk' \in Walks /\ walk'.seen = walk.seen \cup IdsOf(page) /\ walk'.from = walk.from + PageSize
      /\ walk'.pc = "done" => Cardinality(page) < PageSize
      /\ walk'.there = walk.there /\ walk'.left = walk.left
      /\ walk'.kind = walk.kind /\ walk'.types = walk.types
    <2> DEFINE pc == IF Cardinality(page) < PageSize THEN "done" ELSE "next"
               seen == walk.seen \cup IdsOf(page)
    <2>1. pc \in {"done", "next"} /\ (pc = "done" => Cardinality(page) < PageSize)
        OBVIOUS
    <2>2. seen \subseteq 1 .. MaxThings
        BY <1>2, <1>4 DEF Walks
    <2>3. walk.from \in Nat /\ walk.from + PageSize \in Nat
        BY <1>2, WorkspaceConstants DEF Walks
    <2>4. walk' = [walk EXCEPT !.seen = seen, !.from = walk.from + PageSize, !.pc = pc]
        BY <1>2, <1>3 DEF Walks
    <2> HIDE DEF pc, seen
    <2>5. /\ walk' \in Walks /\ walk'.seen = seen /\ walk'.from = walk.from + PageSize /\ walk'.pc = pc
          /\ walk'.there = walk.there /\ walk'.left = walk.left
          /\ walk'.kind = walk.kind /\ walk'.types = walk.types
        BY <1>2, <2>1, <2>2, <2>3, <2>4 DEF Walks
    <2> QED  BY <2>1, <2>5 DEF seen
<1>6. On(walk', things') = rows
    BY <1>3, <1>5 DEF On
<1>7. ASSUME ~walk.left, NEW t \in rows, t.id \in walk.there, Passed(walk', rows, t)
      PROVE  t.id \in walk'.seen
    <2>1. Cardinality(Newer(rows, t)) \in Nat /\ walk.from \in Nat /\ PageSize \in Nat /\ IsFiniteSet(rows)
        BY <1>2, ListIsFinite, WorkspaceConstants DEF Walks
    <2>2. CASE Cardinality(Newer(rows, t)) < walk.from
        BY <1>2, <1>5, <1>7, <2>2 DEF WalkFits, Passed
    <2>3. CASE Cardinality(Newer(rows, t)) >= walk.from /\ Cardinality(Newer(rows, t)) < walk.from + PageSize
        <3>1. t \in page
            BY <2>3, McpCounts DEF page, Mcp!Slice, Newer
        <3> QED  BY <1>5, <3>1 DEF IdsOf
    <2>4. CASE Cardinality(Newer(rows, t)) >= walk.from + PageSize
        <3>1. /\ \A u \in rows : u.at \in Nat
              /\ \A u, v \in rows : u # v => u.at # v.at
            BY <1>2, ThingFields DEF ThingTypes, On
        <3>2. Cardinality(page) = PageSize
            <4> HIDE DEF rows
            <4> QED  BY <2>1, <2>4, <3>1, PageIsFull DEF page
        <3>3. walk'.pc = "done"
            BY <1>5, <1>7, <2>1, <2>4 DEF Passed
        <3> QED  BY <1>5, <2>1, <3>2, <3>3
    <2> QED  BY <2>1, <2>2, <2>3, <2>4
<1>8. WalkFits(walk, On(walk, things))'
    BY <1>2, <1>5, <1>6, <1>7 DEF WalkFits
<1>9. walk' \in {Mcp!NoWalk} \cup Walks
    BY <1>5
<1> QED  BY <1>3, <1>8, <1>9 DEF WalkInv

LEMMA WalkMoves ==
    ASSUME WalkInv, Mcp!NextPage \/ Mcp!Finish
    PROVE  WalkInv'
<1>1. UNCHANGED <<keys, things, clock>> /\ walk.pc \in {"next", "done"}
    BY DEF Mcp!NextPage, Mcp!Finish
<1>2. walk \in Walks /\ WalkFits(walk, On(walk, things)) /\ walk # Mcp!NoWalk
    BY <1>1, NoWalkIs DEF WalkInv
<1>3. CASE walk' = Mcp!NoWalk
    BY <1>1, <1>3 DEF WalkInv
<1>4. CASE walk.pc = "next" /\ walk' = [walk EXCEPT !.pc = "rows"]
    <2>1. /\ walk' \in Walks /\ walk'.pc = "rows" /\ walk'.from = walk.from /\ walk'.seen = walk.seen
          /\ walk'.there = walk.there /\ walk'.left = walk.left
          /\ walk'.kind = walk.kind /\ walk'.types = walk.types
        BY <1>2, <1>4 DEF Walks
    <2>2. On(walk', things') = On(walk, things)
        BY <1>1, <2>1 DEF On
    <2>3. WalkFits(walk', On(walk', things'))
        BY <1>2, <1>4, <2>1, <2>2 DEF WalkFits, Passed
    <2>4. WalkFits(walk, On(walk, things))' /\ walk' \in {Mcp!NoWalk} \cup Walks
        BY <2>1, <2>3
    <2> QED  BY <1>1, <2>4 DEF WalkInv
<1> QED  BY <1>3, <1>4 DEF Mcp!NextPage, Mcp!Finish

LEMMA BeginKeeps ==
    ASSUME WalkInv, NEW k \in McpKeys, NEW kind \in Kinds, NEW types \in SUBSET Types, Mcp!Begin(k, kind, types)
    PROVE  WalkInv'
<1> DEFINE there == Mcp!Ids(Mcp!Listing(k, kind, types))
<1>1. /\ UNCHANGED <<keys, things, clock>> /\ ThingTypes(things, clock)
      /\ walk' = [pc |-> "rows", key |-> k, kind |-> kind, types |-> types, from |-> 0, seen |-> {},
                  there |-> there, left |-> FALSE]
    BY DEF Mcp!Begin, WalkInv
<1>2. there = IdsOf({t \in things : t.of = "p" /\ t.kind = kind /\ t.type \in types /\ ~t.gone})
    BY DEF Mcp!Ids, Mcp!Listing, IdsOf
<1>3. there \subseteq 1 .. MaxThings
    BY <1>1, <1>2, ThingFields DEF ThingTypes, IdsOf
<1> HIDE DEF there
<1>4. /\ walk' \in Walks /\ walk'.pc = "rows" /\ walk'.from = 0 /\ walk'.seen = {} /\ walk'.there = there
      /\ walk'.left = FALSE /\ walk'.kind = kind /\ walk'.types = types
    BY <1>1, <1>3 DEF Walks
<1>5. walk'.there = IdsOf(On(walk', things'))
    BY <1>1, <1>2, <1>4 DEF On
<1>6. \A t : Cardinality(Newer(On(walk', things'), t)) \in Nat
    BY <1>1, ListIsFinite
<1>7. \A t : ~Passed(walk', On(walk', things'), t)
    BY <1>4, <1>6 DEF Passed
<1>8. WalkFits(walk, On(walk, things))'
    BY <1>5, <1>7 DEF WalkFits
<1>9. walk' \in {Mcp!NoWalk} \cup Walks
    BY <1>4
<1> QED  BY <1>1, <1>8, <1>9 DEF WalkInv

LEMMA KeyKeeps ==
    ASSUME WalkInv, NEW k \in McpKeys, Mcp!MakeKey(k) \/ Mcp!Revoke(k)
    PROVE  WalkInv'
BY DEF WalkInv, Mcp!MakeKey, Mcp!Revoke, WalkFits, Passed, ThingTypes, On

LEMMA WalksStay == WalkInv /\ Mcp!Next => WalkInv'
<1> SUFFICES ASSUME WalkInv, Mcp!Next PROVE WalkInv'
    OBVIOUS
<1>1. \A k \in McpKeys : [q \in McpKeys |-> "p"][k] \in Mcp!KeyProducts
    BY DEF Mcp!KeyProducts
<1>2. ASSUME NEW k \in McpKeys, NEW kind \in Kinds, NEW type \in Types, Mcp!KeyCreates(k, kind, type)
      PROVE  WalkInv'
    BY <1>1, <1>2, CreateKeeps DEF Mcp!KeyCreates
<1>3. ASSUME NEW k \in McpKeys, NEW t \in things, NEW type \in Types, Mcp!KeyChanges(k, t, type)
      PROVE  WalkInv'
    BY <1>3, ChangeKeeps DEF Mcp!KeyChanges
<1> QED  BY <1>2, <1>3, KeyKeeps, BeginKeeps, CreateKeeps, ChangeKeeps, MoveKeeps, RemoveKeeps, WalkMoves, ReadKeeps
         DEF Mcp!Next

LEMMA WalksBegin == Mcp!Init => WalkInv
<1> SUFFICES ASSUME Mcp!Init PROVE WalkInv
    OBVIOUS
<1>1. things = {} /\ clock = 0 /\ walk = Mcp!NoWalk /\ keys \in [McpKeys -> {"none", "live", "revoked"}]
    BY DEF Mcp!Init
<1>2. ThingTypes(things, clock)
    BY <1>1, FS_EmptySet, WorkspaceConstants DEF ThingTypes
<1> QED  BY <1>1, <1>2 DEF WalkInv

LEMMA WalksRest == WalkInv /\ UNCHANGED mcpInterface => WalkInv'
BY DEF WalkInv, mcpInterface, WalkFits, Passed, ThingTypes, On

LEMMA WalksHold == WalkInv => Mcp!TypeOK /\ Mcp!WalksMissNothing
<1> SUFFICES ASSUME WalkInv PROVE Mcp!TypeOK /\ Mcp!WalksMissNothing
    OBVIOUS
<1>1. ThingTypes(things, clock) /\ walk \in {Mcp!NoWalk} \cup Walks
    BY DEF WalkInv
<1>2. Mcp!TypeOK
    BY <1>1 DEF WalkInv, ThingTypes, Walks, Mcp!TypeOK
<1>3. ASSUME walk # Mcp!NoWalk, walk.pc = "done", ~walk.left, NEW i \in walk.there PROVE i \in walk.seen
    <2>1. WalkFits(walk, On(walk, things))
        BY <1>3 DEF WalkInv
    <2>2. PICK t \in On(walk, things) : t.id = i
        BY <1>3, <2>1 DEF WalkFits, IdsOf
    <2> QED  BY <1>3, <2>1, <2>2 DEF WalkFits, Passed
<1> QED  BY <1>2, <1>3 DEF Mcp!WalksMissNothing

-----------------------------------------------------------------------------
(* The partner's feeds.  Entries are made at different times, so they are   *)
(* in a line, and the newest are as many as the limit or all there are.     *)

FeedEntries == [of: PartnerProducts, date: 1 .. 2, made: 1 .. LastDay, public: BOOLEAN]

Asked == {"entries", "total", "team", "stats", "products", "progress", "shipped"}
Feeds == [pc: {"read", "answered"}, org: {"o"}, kind: DOMAIN Partner!Statements, since: {0, 2},
          steps: Seq(Asked), entries: SUBSET FeedEntries, total: Nat, names: SUBSET PartnerProducts,
          times: SUBSET Nat, calm: BOOLEAN]

PostsFit(all, time) ==
    /\ all \subseteq FeedEntries /\ IsFiniteSet(all) /\ time \in 0 .. LastDay
    /\ \A e \in all : e.made <= time
    /\ \A e, f \in all : e # f => e.made # f.made

Public(f, all) == {e \in all : e.public /\ e.date >= f.since}

TotalFits(total, shown) ==
    total >= Cardinality(shown) /\ (total > Cardinality(shown) => Cardinality(shown) = FeedSize)

FeedFits(f, all) ==
    /\ Cardinality(f.entries) <= FeedSize
    /\ f.pc = "answered" => f.steps = <<>>
    /\ f.kind = "changelog" =>
          /\ f.steps \in {<<"entries", "total">>, <<"total">>, <<>>}
          /\ f.calm /\ f.steps = <<"total">> => f.entries = Partner!Newest(Public(f, all))
          /\ f.calm /\ f.steps = <<>> => TotalFits(f.total, f.entries)

StoresFit ==
    /\ stored \in [Partner!Owners -> 0 .. LastDay]
    /\ \A p \in PartnerProducts \ products : \A s \in Partner!OfProduct : stored[<<s, p>>] = 0

FeedInv ==
    /\ partners \subseteq {"o"} /\ products \subseteq PartnerProducts
    /\ PostsFit(published, day) /\ \A e \in published : e.of \in products
    /\ StoresFit
    /\ feed \in {Partner!NoFeed} \cup Feeds
    /\ feed # Partner!NoFeed => FeedFits(feed, published)

LEMMA FeedCounts == \A M : Partner!Cardinality(M) = Cardinality(M)
BY DEF Partner!Cardinality, Cardinality, Partner!IsFiniteSet, IsFiniteSet

LEMMA NoFeedIs == Partner!NoFeed.pc = "none" /\ Partner!NoFeed \notin Feeds /\ \A f \in Feeds : f.pc # "none"
BY DEF Partner!NoFeed, Feeds

LEMMA PublicIs ==
    ASSUME published \subseteq FeedEntries
    PROVE
    /\ \A f \in Feeds : Partner!Published(f.org, f.since) = Public(f, published)
    /\ \A f \in Feeds : Partner!Counted(f.org, f.since) = Cardinality(Public(f, published))
<1>1. ASSUME NEW f \in Feeds PROVE Partner!Published(f.org, f.since) = Public(f, published)
    <2>1. f.org = "o"
        BY DEF Feeds
    <2> QED  BY <2>1 DEF Partner!Published, Public, FeedEntries
<1> QED  BY <1>1, FeedCounts DEF Partner!Counted

LEMMA NewestFit ==
    ASSUME NEW all, NEW time, PostsFit(all, time), NEW f
    PROVE  LET some == Public(f, all) IN
           /\ Partner!Newest(some) \subseteq FeedEntries
           /\ Cardinality(Partner!Newest(some)) <= FeedSize
           /\ Cardinality(some) \in Nat /\ TotalFits(Cardinality(some), Partner!Newest(some))
<1> DEFINE some == Public(f, all)
           R == {x \in some \X some : Partner!Before(x[1], x[2])}
<1>1. /\ IsFiniteSet(some) /\ some \subseteq FeedEntries /\ Cardinality(some) \in Nat
      /\ \A e \in some : e.made \in Nat /\ e.date \in Nat
      /\ \A d, e \in some : d # e => d.made # e.made
    BY FS_Subset, FS_CardinalityType DEF Public, PostsFit, FeedEntries
<1> HIDE DEF some
<1>2. Lined(some, R)
    BY <1>1 DEF Lined, Partner!Before
<1>3. \A e \in some : Ahead(some, R, e) = {d \in some : Partner!Before(d, e)}
    BY DEF Ahead
<1> HIDE DEF R
<1>4. Partner!Newest(some) = First(some, R, FeedSize)
    BY <1>3, FeedCounts DEF Partner!Newest, First
<1>5. FeedSize \in Nat
    BY WorkspaceConstants
<1>6. /\ Cardinality(First(some, R, FeedSize)) \in Nat
      /\ FeedSize <= Cardinality(some) => Cardinality(First(some, R, FeedSize)) = FeedSize
      /\ FeedSize >= Cardinality(some) => First(some, R, FeedSize) = some
    BY <1>1, <1>2, <1>5, FirstAreSoMany
<1>7. First(some, R, FeedSize) \subseteq some
    BY DEF First
<1> QED  BY <1>1, <1>4, <1>5, <1>6, <1>7 DEF TotalFits, some

LEMMA Tuples ==
    ASSUME NEW V, NEW a \in V, NEW b \in V, NEW c \in V
    PROVE  /\ <<a, b>> \in Seq(V) /\ <<a, b>> # <<>>
           /\ <<a, b, c>> \in Seq(V) /\ <<a, b, c>> # <<>>
OBVIOUS

LEMMA StatementSteps ==
    /\ \A kind \in DOMAIN Partner!Statements :
          Partner!Statements[kind] \in Seq(Asked) /\ Partner!Statements[kind] # <<>>
    /\ Partner!Statements["changelog"] = <<"entries", "total">>
<1> DEFINE kinds == {"changelog", "narrative", "contributors", "products", "shipped", "pulse"}
<1>1. DOMAIN Partner!Statements = kinds
    BY DEF Partner!Statements
<1>2. /\ Partner!Statements["changelog"] = <<"entries", "total">>
      /\ Partner!Statements["narrative"] = <<"team", "products", "progress">>
      /\ Partner!Statements["contributors"] = <<"team", "products", "progress">>
      /\ Partner!Statements["products"] = <<"products", "progress">>
      /\ Partner!Statements["shipped"] = <<"products", "shipped">>
      /\ Partner!Statements["pulse"] = <<"stats", "products">>
    BY DEF Partner!Statements
<1>3. \A a, b, c \in Asked : /\ <<a, b>> \in Seq(Asked) /\ <<a, b>> # <<>>
                              /\ <<a, b, c>> \in Seq(Asked) /\ <<a, b, c>> # <<>>
    BY Tuples
<1>4. /\ "entries" \in Asked /\ "total" \in Asked /\ "team" \in Asked /\ "products" \in Asked
      /\ "progress" \in Asked /\ "shipped" \in Asked /\ "stats" \in Asked
    BY DEF Asked
<1>5. ASSUME NEW kind \in kinds
      PROVE  Partner!Statements[kind] \in Seq(Asked) /\ Partner!Statements[kind] # <<>>
    <2>1. CASE kind \in {"changelog", "shipped", "pulse"}
        BY <1>2, <1>3, <1>4, <2>1
    <2>2. CASE kind \in {"narrative", "contributors"}
        BY <1>2, <1>3, <1>4, <2>2
    <2>3. CASE kind = "products"
        BY <1>2, <1>3, <1>4, <2>3
    <2> QED  BY <2>1, <2>2, <2>3
<1> QED  BY <1>1, <1>2, <1>5

LEMMA ChangelogSteps ==
    /\ <<"entries", "total">> # <<>> /\ Head(<<"entries", "total">>) = "entries"
    /\ Tail(<<"entries", "total">>) = <<"total">>
    /\ <<"total">> # <<>> /\ Head(<<"total">>) = "total" /\ Tail(<<"total">>) = <<>>
    /\ <<"entries", "total">> # <<"total">>
OBVIOUS

LEMMA FeedKeeps ==
    ASSUME FeedInv, UNCHANGED <<partners, products, published, stored, day>>,
           feed' \in {Partner!NoFeed} \cup Feeds, feed' # Partner!NoFeed => FeedFits(feed', published)
    PROVE  FeedInv'
<1>1. feed' # Partner!NoFeed => FeedFits(feed, published)'
    OBVIOUS
<1>2. StoresFit'
    BY DEF FeedInv, StoresFit
<1> QED  BY <1>1, <1>2 DEF FeedInv

LEMMA ReadIs ==
    ASSUME FeedInv, NEW s, Partner!Read(s)
    PROVE  /\ feed \in Feeds /\ FeedFits(feed, published) /\ feed.pc = "read"
           /\ feed.steps # <<>> /\ Head(feed.steps) = s /\ Tail(feed.steps) \in Seq(Asked)
<1>1. feed \in Feeds /\ FeedFits(feed, published) /\ feed.pc = "read"
    BY NoFeedIs DEF FeedInv, Partner!Read
<1>2. feed.steps \in Seq(Asked) /\ feed.steps # <<>> /\ Head(feed.steps) = s
    BY <1>1 DEF Partner!Read, Feeds
<1> QED  BY <1>1, <1>2

LEMMA EntriesRead == FeedInv /\ Partner!ReadEntries => FeedInv'
<1> SUFFICES ASSUME FeedInv, Partner!ReadEntries PROVE FeedInv'
    OBVIOUS
<1>1. /\ feed \in Feeds /\ FeedFits(feed, published) /\ feed.pc = "read"
      /\ feed.steps # <<>> /\ Head(feed.steps) = "entries" /\ Tail(feed.steps) \in Seq(Asked)
    BY ReadIs DEF Partner!ReadEntries
<1>2. PostsFit(published, day) /\ published \subseteq FeedEntries
    BY DEF FeedInv, PostsFit
<1> DEFINE shown == Partner!Newest(Public(feed, published))
           left == Tail(feed.steps)
<1>3. shown \subseteq FeedEntries /\ Cardinality(shown) <= FeedSize
    BY <1>2, NewestFit
<1>4. /\ feed' = [[feed EXCEPT !.steps = left] EXCEPT !.entries = shown, !.calm = TRUE]
      /\ UNCHANGED <<partners, products, published, stored, day>>
    BY <1>1, <1>2, PublicIs DEF Partner!ReadEntries, Partner!Rest
<1>5. feed.kind = "changelog" => left = <<"total">>
    BY <1>1, ChangelogSteps DEF FeedFits
<1>6. left \in Seq(Asked)
    BY <1>1
<1> HIDE DEF shown, left
<1>7. /\ feed' \in Feeds /\ feed'.steps = left /\ feed'.entries = shown /\ feed'.pc = "read"
      /\ feed'.kind = feed.kind /\ feed'.since = feed.since
    BY <1>1, <1>3, <1>4, <1>6 DEF Feeds
<1>8. Public(feed', published) = Public(feed, published)
    BY <1>7 DEF Public
<1>9. FeedFits(feed', published)
    BY <1>3, <1>5, <1>7, <1>8, ChangelogSteps DEF FeedFits, shown
<1> QED  BY <1>4, <1>7, <1>9, FeedKeeps

LEMMA TotalRead == FeedInv /\ Partner!ReadTotal => FeedInv'
<1> SUFFICES ASSUME FeedInv, Partner!ReadTotal PROVE FeedInv'
    OBVIOUS
<1>1. /\ feed \in Feeds /\ FeedFits(feed, published) /\ feed.pc = "read"
      /\ feed.steps # <<>> /\ Head(feed.steps) = "total" /\ Tail(feed.steps) \in Seq(Asked)
    BY ReadIs DEF Partner!ReadTotal
<1>2. PostsFit(published, day) /\ published \subseteq FeedEntries
    BY DEF FeedInv, PostsFit
<1> DEFINE total == Cardinality(Public(feed, published))
           left == Tail(feed.steps)
<1>3. total \in Nat /\ TotalFits(total, Partner!Newest(Public(feed, published)))
    BY <1>2, NewestFit
<1>4. /\ feed' = [[feed EXCEPT !.steps = left] EXCEPT !.total = total]
      /\ UNCHANGED <<partners, products, published, stored, day>>
    BY <1>1, <1>2, PublicIs DEF Partner!ReadTotal, Partner!Rest
<1>5. feed.kind = "changelog" => feed.steps = <<"total">> /\ left = <<>>
    BY <1>1, ChangelogSteps DEF FeedFits
<1>6. left \in Seq(Asked)
    BY <1>1
<1> HIDE DEF total, left
<1>7. /\ feed' \in Feeds /\ feed'.steps = left /\ feed'.entries = feed.entries /\ feed'.pc = "read"
      /\ feed'.kind = feed.kind /\ feed'.since = feed.since /\ feed'.total = total /\ feed'.calm = feed.calm
    BY <1>1, <1>3, <1>4, <1>6 DEF Feeds
<1>8. feed.kind = "changelog" /\ feed.calm => TotalFits(total, feed.entries)
    BY <1>1, <1>3, <1>5 DEF FeedFits
<1>9. FeedFits(feed', published)
    BY <1>1, <1>5, <1>7, <1>8, ChangelogSteps DEF FeedFits
<1> QED  BY <1>4, <1>7, <1>9, FeedKeeps

\* The statements of other feeds.
LEMMA OthersRead ==
    ASSUME FeedInv, Partner!ReadNames \/ \E s \in Partner!OfOrg \cup Partner!OfProduct : Partner!ReadStored(s)
    PROVE  FeedInv'
<1>1. PICK s \in {"team", "stats", "progress", "shipped", "products"} :
          /\ Partner!Read(s) /\ UNCHANGED <<partners, products, published, stored, day>>
          /\ \/ feed' = [[feed EXCEPT !.steps = Tail(@)] EXCEPT !.names = Partner!Own(feed.org)]
             \/ /\ s \in Partner!OfOrg \cup Partner!OfProduct
                /\ feed' = [[feed EXCEPT !.steps = Tail(@)] EXCEPT !.times = @ \cup
                       IF s \in Partner!OfOrg THEN Partner!Row(s, feed.org)
                       ELSE UNION {Partner!Row(s, p) : p \in feed.names}]
    BY DEF Partner!ReadNames, Partner!ReadStored, Partner!Rest, Partner!OfOrg, Partner!OfProduct
<1>2. /\ feed \in Feeds /\ FeedFits(feed, published) /\ feed.pc = "read"
      /\ feed.steps # <<>> /\ Head(feed.steps) = s /\ Tail(feed.steps) \in Seq(Asked)
    BY <1>1, ReadIs
<1>3. feed.kind # "changelog"
    BY <1>1, <1>2, ChangelogSteps DEF FeedFits
<1>4. Partner!Own(feed.org) \subseteq PartnerProducts
    BY DEF Partner!Own, FeedInv
<1>5. \A x \in Partner!Owners : stored[x] \in Nat
    BY DEF FeedInv, StoresFit
<1>6. CASE feed' = [[feed EXCEPT !.steps = Tail(@)] EXCEPT !.names = Partner!Own(feed.org)]
    <2>1. /\ feed' \in Feeds /\ feed'.entries = feed.entries /\ feed'.pc = "read" /\ feed'.kind = feed.kind
        BY <1>2, <1>4, <1>6 DEF Feeds
    <2>2. FeedFits(feed', published)
        BY <1>2, <1>3, <2>1 DEF FeedFits
    <2> QED  BY <1>1, <2>1, <2>2, FeedKeeps
<1>7. CASE /\ s \in Partner!OfOrg \cup Partner!OfProduct
           /\ feed' = [[feed EXCEPT !.steps = Tail(@)] EXCEPT !.times = @ \cup
                  IF s \in Partner!OfOrg THEN Partner!Row(s, feed.org)
                  ELSE UNION {Partner!Row(s, p) : p \in feed.names}]
    <2> DEFINE found == IF s \in Partner!OfOrg THEN Partner!Row(s, feed.org)
                        ELSE UNION {Partner!Row(s, p) : p \in feed.names}
    <2>1. feed.org = "o" /\ feed.names \subseteq PartnerProducts
        BY <1>2 DEF Feeds
    <2>2. s \in Partner!OfOrg => Partner!Row(s, feed.org) \subseteq Nat
        BY <1>5, <2>1 DEF Partner!Row, Partner!Owners
    <2>3. ASSUME s \notin Partner!OfOrg, NEW p \in feed.names PROVE Partner!Row(s, p) \subseteq Nat
        BY <1>5, <1>7, <2>1, <2>3 DEF Partner!Row, Partner!Owners
    <2>4. found \subseteq Nat
        BY <2>2, <2>3
    <2> HIDE DEF found
    <2>5. feed' = [[feed EXCEPT !.steps = Tail(@)] EXCEPT !.times = @ \cup found]
        BY <1>7 DEF found
    <2>6. /\ feed' \in Feeds /\ feed'.entries = feed.entries /\ feed'.pc = "read" /\ feed'.kind = feed.kind
        BY <1>2, <2>4, <2>5 DEF Feeds
    <2>7. FeedFits(feed', published)
        BY <1>2, <1>3, <2>6 DEF FeedFits
    <2> QED  BY <1>1, <2>6, <2>7, FeedKeeps
<1> QED  BY <1>1, <1>6, <1>7

LEMMA FeedAsked ==
    ASSUME FeedInv, NEW kind \in DOMAIN Partner!Statements, NEW since \in {0, 2}, Partner!Ask("o", kind, since)
    PROVE  FeedInv'
<1> DEFINE steps == Partner!Statements[kind]
<1>1. /\ feed' = [pc |-> "read", org |-> "o", kind |-> kind, since |-> since, steps |-> steps,
                  entries |-> {}, total |-> 0, names |-> {}, times |-> {}, calm |-> TRUE]
      /\ UNCHANGED <<partners, products, published, stored, day>>
    BY DEF Partner!Ask
<1>2. steps \in Seq(Asked) /\ (kind = "changelog" => steps = <<"entries", "total">>)
    BY StatementSteps
<1> HIDE DEF steps
<1>3. feed' \in Feeds /\ feed'.steps = steps /\ feed'.kind = kind /\ feed'.entries = {} /\ feed'.pc = "read"
    BY <1>1, <1>2 DEF Feeds
<1>4. FeedFits(feed', published)
    BY <1>2, <1>3, ChangelogSteps, FS_EmptySet, WorkspaceConstants DEF FeedFits
<1> QED  BY <1>1, <1>3, <1>4, FeedKeeps

LEMMA FeedAnswered == FeedInv /\ (Partner!Answer \/ Partner!End) => FeedInv'
<1> SUFFICES ASSUME FeedInv, Partner!Answer \/ Partner!End PROVE FeedInv'
    OBVIOUS
<1>1. CASE Partner!End
    BY <1>1, FeedKeeps DEF Partner!End
<1>2. CASE Partner!Answer
    <2>1. feed \in Feeds /\ FeedFits(feed, published) /\ feed.pc = "read"
        BY <1>2, NoFeedIs DEF FeedInv, Partner!Answer
    <2>2. /\ feed' = [feed EXCEPT !.pc = "answered", !.steps = <<>>]
          /\ UNCHANGED <<partners, products, published, stored, day>>
        BY <1>2 DEF Partner!Answer
    <2>3. feed.kind = "changelog" => feed.steps = <<>>
        BY <1>2, <2>1, ChangelogSteps
           DEF FeedFits, Partner!Answer, Partner!Over, Partner!OfProduct
    <2> DEFINE none == <<>>
    <2>4. feed' = [feed EXCEPT !.pc = "answered", !.steps = none] /\ none \in Seq(Asked)
        BY <2>2
    <2> HIDE DEF none
    <2>5. /\ feed' \in Feeds /\ feed'.steps = none /\ feed'.entries = feed.entries /\ feed'.total = feed.total
          /\ feed'.kind = feed.kind /\ feed'.calm = feed.calm
        BY <2>1, <2>4 DEF Feeds
    <2>6. FeedFits(feed', published)
        BY <2>1, <2>3, <2>5, ChangelogSteps DEF FeedFits, none
    <2> QED  BY <2>2, <2>5, <2>6, FeedKeeps
<1> QED  BY <1>1, <1>2

\* What others change before the total is read makes the feed one that was
\* disturbed.
LEMMA FeedDisturbed ==
    ASSUME FeedInv, feed' = Partner!Disturbed, NEW next
    PROVE  feed' \in {Partner!NoFeed} \cup Feeds /\ (feed' # Partner!NoFeed => FeedFits(feed', next))
<1>1. CASE feed = Partner!NoFeed
    BY <1>1 DEF Partner!Disturbed
<1>2. CASE feed # Partner!NoFeed
    <2>1. feed \in Feeds /\ FeedFits(feed, published)
        BY <1>2 DEF FeedInv
    <2> DEFINE calm == feed.calm /\ feed.steps = <<>>
    <2>2. feed' = [feed EXCEPT !.calm = calm] /\ calm \in BOOLEAN
        BY <1>2, <2>1 DEF Partner!Disturbed, Feeds
    <2> HIDE DEF calm
    <2>3. /\ feed' \in Feeds /\ feed'.steps = feed.steps /\ feed'.entries = feed.entries
          /\ feed'.total = feed.total /\ feed'.kind = feed.kind /\ feed'.calm = calm /\ feed'.pc = feed.pc
        BY <2>1, <2>2 DEF Feeds
    <2>4. FeedFits(feed', next)
        BY <2>1, <2>3, ChangelogSteps DEF FeedFits, calm
    <2> QED  BY <2>3, <2>4
<1> QED  BY <1>1, <1>2

LEMMA EntryWritten ==
    ASSUME FeedInv, NEW p \in PartnerProducts, NEW date \in 1 .. 2, NEW public \in BOOLEAN,
           Partner!WriteEntry(p, date, public)
    PROVE  FeedInv'
<1> DEFINE e == [of |-> p, date |-> date, made |-> day + 1, public |-> public]
<1>1. PostsFit(published, day) /\ day \in Nat /\ day < LastDay /\ p \in products
    BY DEF FeedInv, PostsFit, Partner!WriteEntry
<1>2. /\ published' = published \cup {e} /\ day' = day + 1 /\ feed' = Partner!Disturbed
      /\ UNCHANGED <<partners, products, stored>>
    BY DEF Partner!WriteEntry
<1>3. e \in FeedEntries /\ e.made = day + 1 /\ e.of = p
    BY <1>1, WorkspaceConstants DEF FeedEntries
<1> HIDE DEF e
<1>4. \A f \in published : f.made \in Nat /\ f.made < day + 1
    BY <1>1 DEF PostsFit, FeedEntries
<1>5. IsFiniteSet(published \cup {e})
    BY <1>1, FS_AddElement DEF PostsFit
<1>6. day + 1 \in 0 .. LastDay
    BY <1>1, WorkspaceConstants
<1>7. PostsFit(published', day')
    BY <1>1, <1>2, <1>3, <1>4, <1>5, <1>6 DEF PostsFit
<1>8. \A f \in published' : f.of \in products'
    BY <1>1, <1>2, <1>3 DEF FeedInv
<1>9. StoresFit'
    BY <1>2 DEF FeedInv, StoresFit
<1>10. feed' \in {Partner!NoFeed} \cup Feeds /\ (feed' # Partner!NoFeed => FeedFits(feed, published)')
    BY <1>2, FeedDisturbed
<1>11. PostsFit(published, day)'
    BY <1>7
<1> QED  BY <1>2, <1>8, <1>9, <1>10, <1>11 DEF FeedInv

LEMMA EntryTurned ==
    ASSUME FeedInv, NEW e \in published, Partner!Publish(e)
    PROVE  FeedInv'
<1> DEFINE f == [e EXCEPT !.public = ~@]
<1>1. PostsFit(published, day) /\ e \in FeedEntries
    BY DEF FeedInv, PostsFit
<1>2. /\ published' = (published \ {e}) \cup {f} /\ feed' = Partner!Disturbed
      /\ UNCHANGED <<partners, products, stored, day>>
    BY DEF Partner!Publish
<1>3. f \in FeedEntries /\ f.made = e.made /\ f.of = e.of
    BY <1>1 DEF FeedEntries
<1> HIDE DEF f
<1>4. IsFiniteSet(published \ {e})
    BY <1>1, FS_Subset DEF PostsFit
<1>5. IsFiniteSet((published \ {e}) \cup {f})
    BY <1>4, FS_AddElement
<1>6. \A g \in published \ {e} : g.made # f.made
    BY <1>1, <1>3 DEF PostsFit
<1>7. PostsFit(published, day)'
    BY <1>1, <1>2, <1>3, <1>5, <1>6 DEF PostsFit
<1>8. \A g \in published' : g.of \in products'
    BY <1>2, <1>3 DEF FeedInv
<1>9. StoresFit'
    BY <1>2 DEF FeedInv, StoresFit
<1>10. feed' \in {Partner!NoFeed} \cup Feeds /\ (feed' # Partner!NoFeed => FeedFits(feed, published)')
    BY <1>2, FeedDisturbed
<1> QED  BY <1>2, <1>7, <1>8, <1>9, <1>10 DEF FeedInv

LEMMA ProductDeleted ==
    ASSUME FeedInv, NEW p \in PartnerProducts, Partner!Delete(p)
    PROVE  FeedInv'
<1>1. PostsFit(published, day)
    BY DEF FeedInv
<1>2. /\ products' = products \ {p} /\ published' = {e \in published : e.of # p} /\ feed' = Partner!Disturbed
      /\ stored' = [x \in Partner!Owners |-> IF x \in Partner!OfProduct \X {p} THEN 0 ELSE stored[x]]
      /\ UNCHANGED <<partners, day>>
    BY DEF Partner!Delete
<1>3. published' \subseteq published /\ IsFiniteSet(published')
    BY <1>1, <1>2, FS_Subset DEF PostsFit
<1>4. PostsFit(published, day)'
    BY <1>1, <1>2, <1>3 DEF PostsFit
<1>5. \A e \in published' : e.of \in products'
    BY <1>2 DEF FeedInv
<1>6. stored' \in [Partner!Owners -> 0 .. LastDay]
    BY <1>2, WorkspaceConstants DEF FeedInv, StoresFit
<1>7. ASSUME NEW q \in PartnerProducts \ products', NEW s \in Partner!OfProduct PROVE stored'[<<s, q>>] = 0
    <2>1. <<s, q>> \in Partner!Owners
        BY DEF Partner!Owners
    <2> QED  BY <1>2, <2>1 DEF FeedInv, StoresFit
<1>8. StoresFit'
    BY <1>6, <1>7 DEF StoresFit
<1>9. feed' \in {Partner!NoFeed} \cup Feeds /\ (feed' # Partner!NoFeed => FeedFits(feed, published)')
    BY <1>2, FeedDisturbed
<1> QED  BY <1>2, <1>4, <1>5, <1>8, <1>9 DEF FeedInv

LEMMA RowGenerated ==
    ASSUME FeedInv, NEW x \in Partner!Owners, Partner!Generate(x[1], x[2])
    PROVE  FeedInv'
<1>1. /\ day \in Nat /\ day + 1 \in 0 .. LastDay /\ day' = day + 1
      /\ x[1] \in Partner!OfProduct => x[2] \in products
      /\ stored' = [stored EXCEPT ![x] = day + 1]
      /\ UNCHANGED <<partners, products, published, feed>>
    <2>1. x = <<x[1], x[2]>>
        BY DEF Partner!Owners
    <2>2. /\ day < LastDay /\ day' = day + 1
          /\ x[1] \in Partner!OfProduct => x[2] \in products
          /\ stored' = [stored EXCEPT ![<<x[1], x[2]>>] = day + 1]
          /\ UNCHANGED <<partners, products, published, feed>>
        BY DEF Partner!Generate
    <2>3. day \in Nat /\ day + 1 \in 0 .. LastDay
        BY <2>2, WorkspaceConstants DEF FeedInv, PostsFit
    <2> QED  BY <2>1, <2>2, <2>3
<1>2. stored' \in [Partner!Owners -> 0 .. LastDay]
    BY <1>1 DEF FeedInv, StoresFit
<1>3. ASSUME NEW q \in PartnerProducts \ products, NEW s \in Partner!OfProduct PROVE stored'[<<s, q>>] = 0
    <2>1. <<s, q>> \in Partner!Owners /\ <<s, q>> # x
        BY <1>1, <1>3 DEF Partner!Owners
    <2> QED  BY <1>1, <2>1 DEF FeedInv, StoresFit
<1>4. StoresFit'
    BY <1>1, <1>2, <1>3 DEF StoresFit
<1>5. PostsFit(published, day)'
    BY <1>1 DEF FeedInv, PostsFit, FeedEntries
<1>6. feed' # Partner!NoFeed => FeedFits(feed, published)'
    BY <1>1 DEF FeedInv
<1> QED  BY <1>1, <1>4, <1>5, <1>6 DEF FeedInv

LEMMA PartnerRevoked == \A o : FeedInv /\ Partner!Revoke(o) => FeedInv'
BY DEF FeedInv, StoresFit, PostsFit, FeedFits, TotalFits, Partner!Newest, Partner!Before, Public, Partner!Revoke

LEMMA FeedsStay == FeedInv /\ Partner!Next => FeedInv'
BY EntriesRead, TotalRead, OthersRead, FeedAsked, FeedAnswered, EntryWritten, EntryTurned, ProductDeleted,
   RowGenerated, PartnerRevoked DEF Partner!Next

LEMMA FeedsBegin == Partner!Init => FeedInv
<1> SUFFICES ASSUME Partner!Init PROVE FeedInv
    OBVIOUS
<1>1. PostsFit(published, day)
    BY FS_EmptySet, WorkspaceConstants DEF Partner!Init, PostsFit
<1>2. StoresFit
    BY WorkspaceConstants DEF Partner!Init, StoresFit
<1> QED  BY <1>1, <1>2 DEF Partner!Init, FeedInv

LEMMA FeedsRest == FeedInv /\ UNCHANGED partnerFeed => FeedInv'
BY DEF partnerFeed, FeedInv, StoresFit, PostsFit, FeedFits, TotalFits, Partner!Newest, Partner!Before, Public

LEMMA FeedsHold == FeedInv => Partner!TypeOK /\ Partner!CalmTotalsFit
<1> SUFFICES ASSUME FeedInv PROVE Partner!TypeOK /\ Partner!CalmTotalsFit
    OBVIOUS
<1>1. feed # Partner!NoFeed => feed \in Feeds /\ FeedFits(feed, published)
    BY DEF FeedInv
<1>2. \A e \in published : e.of \in products /\ e.made \in 1 .. LastDay
    BY DEF FeedInv, PostsFit, FeedEntries
<1>3. Partner!TypeOK
    BY <1>1, <1>2, FeedCounts DEF FeedInv, StoresFit, Feeds, FeedFits, Partner!TypeOK
<1>4. Partner!CalmTotalsFit
    BY <1>1, FeedCounts DEF FeedFits, TotalFits, Partner!CalmTotalsFit
<1> QED  BY <1>3, <1>4

-----------------------------------------------------------------------------
(* The whole: an initial state picks one part, the others rest.             *)

\* The sections hold together: numbers and types of rows, the slugs of a
\* product are all different unless requests overlapped (create_section,
\* list_sections), documents lie in sections that exist and belong together,
\* and the first product that is listed gets every default.
THEOREM SectionsHeld == Spec => []SectionsHoldTogether
<1>1. Init => SectionInv
    BY SectionsBegin DEF Init
<1>2. SectionInv /\ [Next]_Vars => SectionInv'
    BY SectionsStay, SectionsRest DEF Next, Vars
<1>3. SectionInv => SectionsHoldTogether
    BY SectionsHold DEF SectionsHoldTogether
<1> QED  BY <1>1, <1>2, <1>3, PTL DEF Spec, Vars

\* The variables hold together: a user has one entry under a key unless
\* requests of theirs overlapped or one renamed (create_app_info,
\* bulk_create_app_info), and a value nobody turned into a secret or back is
\* encrypted exactly if it is one (AppInfoOperations.update).
THEOREM VariablesHeld == Spec => []VariablesHoldTogether
<1>1. Init => VariableInv
    BY VariablesBegin DEF Init
<1>2. VariableInv /\ [Next]_Vars => VariableInv'
    BY VariablesStay, VariablesRest DEF Next, Vars
<1>3. VariableInv => VariablesHoldTogether
    BY VariablesHold DEF VariablesHoldTogether
<1> QED  BY <1>1, <1>2, <1>3, PTL DEF Spec, Vars

\* Nobody gets more generations a day than the limit, in this instance with
\* its workers, errors, lost answers and passing time, as long as one request
\* at a time is served (create_custom_document counts before it accepts).
THEOREM LimitHeld ==
    (\A g, h \in Handlers : g = h) => (Spec => []WithinLimit)
<1> SUFFICES ASSUME \A g, h \in Handlers : g = h PROVE Spec => []WithinLimit
    OBVIOUS
<1>1. Init => LimitInv
    BY LimitBegins DEF Init
<1>2. LimitInv /\ [Next]_Vars => LimitInv'
    BY LimitStays, LimitRests DEF Next, Vars
<1>3. LimitInv => WithinLimit
    BY LimitHolds DEF WithinLimit
<1> QED  BY <1>1, <1>2, <1>3, PTL DEF Spec, Vars

\* The tickets hold together: types; two open tickets are alike only after an
\* overlap, a direct item or a reopening; no window holds more than the limit;
\* the stored time of a key's use lags a window behind at most.
THEOREM TicketsHeld == Spec => TicketsHoldTogether
<1> DEFINE Held == T!TypeOK /\ T!TwinTicketsAreExplained /\ T!WindowsAreBounded
           Used == \A r \in Requests : \A k \in ApiKeys :
                       (asking[r] # T!Idle /\ T!Answer(r) /\ k = asking[r].key /\ k \notin unsaid'
                        /\ ~T!UnderWay(k)')
                       => used'[k] >= asking[r].began - Window
<1>1. Init => TicketInv
    BY TicketsBegin DEF Init
<1>2. TicketInv /\ [Next]_Vars => TicketInv'
    BY TicketsStay, TicketsRest DEF Next, Vars
<1>3. TicketInv' => [Held']_tickets
    <2>1. TicketInv' => Held'
        BY TicketsHold, PTL
    <2> QED  BY <2>1
<1>4. TicketInv /\ TicketInv' => [Used]_(T!vars)
    BY UseIsWritten
<1> QED  BY <1>1, <1>2, <1>3, <1>4, PTL DEF Spec, Vars, TicketsHoldTogether, T!LastUseIsRecent

\* The texts about the team hold together: the lock is held exactly while a task
\* is there to release it (_background_regenerate), and a text that is served as not
\* stale is young or about as many commits as were found just now
\* (get_team_summaries, _generate_team_summaries).
THEOREM TeamHeld == Spec => []TeamTextsAreFresh
<1>1. Init => TeamInv
    BY TeamBegins DEF Init
<1>2. TeamInv /\ [Next]_Vars => TeamInv'
    BY TeamStays, TeamRests DEF Next, Vars, reading
<1>3. TeamInv => TeamTextsAreFresh
    BY TeamHolds DEF TeamTextsAreFresh
<1> QED  BY <1>1, <1>2, <1>3, PTL DEF Spec, Vars

\* The interfaces miss nothing: an assistant that reads page after page of a
\* product's documents or items sees all that was there throughout, unless a row
\* left the list or moved to its front (list_documents, list_work_items); and
\* the partner's changelog, undisturbed between its two statements, counts what
\* it lists, or lists as many as it may (partner_changelog).
THEOREM InterfacesHeld == Spec => []InterfacesMissNothing
<1>1. Init => WalkInv /\ FeedInv
    BY WalksBegin, FeedsBegin DEF Init
<1>2. WalkInv /\ [Next]_Vars => WalkInv'
    BY WalksStay, WalksRest DEF Next, Vars, reading
<1>3. FeedInv /\ [Next]_Vars => FeedInv'
    BY FeedsStay, FeedsRest DEF Next, Vars, reading
<1>4. WalkInv /\ FeedInv => InterfacesMissNothing
    BY WalksHold, FeedsHold DEF InterfacesMissNothing
<1> QED  BY <1>1, <1>2, <1>3, <1>4, PTL DEF Spec, Vars
=============================================================================
