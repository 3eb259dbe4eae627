-------------------------- MODULE MCProgress_proofs --------------------------
(***************************************************************************)
(* Proofs about the background jobs, the dashboard, the pages of activity  *)
(* and the agent's chat, for any numbers of processes, jobs, preferences,  *)
(* repositories, runs, users and organizations.                            *)
(***************************************************************************)
EXTENDS MCProgress, SequenceTheorems, FiniteSetTheorems, WellFoundedInduction, TLAPS

-----------------------------------------------------------------------------
(* Digests: each batch loaded may still send a preference one mail.        *)

Batches ==
    [on: {TRUE}, todo: SUBSET Prefs, at: D!Hours, now: Prefs \union {D!Nobody}]

DigestTypes ==
    /\ hour \in D!Hours
    /\ pref \in [Prefs -> [freq: D!Frequencies \union {"none"}, hour: 0 .. Day - 1]]
    /\ lock \in [Jobs -> Instances \union {D!Nobody}]
    /\ fired \in [Instances -> SUBSET Jobs]
    /\ batch \in [D!Runs -> {D!Off} \union Batches]
    /\ started \in [Jobs -> [D!Hours -> Nat]]
    /\ mails \in [Prefs -> [Jobs -> [D!Hours -> Nat]]]

\* A scheduled batch runs under its instance's lock: two of a job never do.
Locked == \A b \in D!Active : b[3] = "cron" => lock[D!Job(b)] = b[1]

\* A preference is taken off the list before its mail is sent.
Listed == \A b \in D!Active : batch[b].now \notin batch[b].todo

\* The batches that may still send preference p a mail of this job and hour.
Pending(p, j, h) ==
    {b \in D!Active : /\ D!Job(b) = j /\ batch[b].at = h
                      /\ p \in batch[b].todo \/ p = batch[b].now}
Owed(p, j, h) ==
    /\ IsFiniteSet(Pending(p, j, h))
    /\ mails[p][j][h] + Cardinality(Pending(p, j, h)) <= started[j][h]
AllOwed == \A p \in Prefs, j \in Jobs, h \in D!Hours : Owed(p, j, h)

DigestInv == DigestTypes /\ Locked /\ Listed /\ AllOwed

LEMMA RunParts ==
    ASSUME NEW b \in D!Runs
    PROVE  b[1] \in Instances /\ b[2] \in Jobs /\ b[3] \in D!Kinds /\ b = <<b[1], b[2], b[3]>>
BY DEF D!Runs

LEMMA BatchParts ==
    ASSUME DigestTypes, NEW b \in D!Runs
    PROVE  /\ b \in D!Active <=> batch[b] # D!Off
           /\ b \in D!Active => batch[b] \in Batches
           /\ b \notin D!Active => batch[b] = D!Off
BY DEF DigestTypes, D!Active

LEMMA BatchIsOn == \A x \in Batches : x # D!Off
<1>1. \A x \in Batches : x.on = TRUE
    BY DEF Batches
<1>2. D!Off.on = FALSE
    BY DEF D!Off
<1> QED  BY <1>1, <1>2

LEMMA Loading ==
    ASSUME DigestTypes, NEW b \in D!Runs, D!Load(b)
    PROVE  /\ batch' \in [D!Runs -> {D!Off} \union Batches]
           /\ batch'[b] = [on |-> TRUE, todo |-> D!Eligible(D!Job(b)), at |-> hour, now |-> D!Nobody]
           /\ batch'[b] \in Batches /\ batch'[b] # D!Off
           /\ \A x \in D!Runs : x # b => batch'[x] = batch[x]
           /\ started' \in [Jobs -> [D!Hours -> Nat]]
           /\ \A j \in Jobs, h \in D!Hours :
                started'[j][h] = IF j = D!Job(b) /\ h = hour THEN started[j][h] + 1 ELSE started[j][h]
<1> DEFINE new == [on |-> TRUE, todo |-> D!Eligible(D!Job(b)), at |-> hour, now |-> D!Nobody]
<1>1. new \in Batches /\ new # D!Off
    BY DEF DigestTypes, Batches, D!Eligible, D!Off
<1>2. batch' = [batch EXCEPT ![b] = new] /\ started' = [started EXCEPT ![D!Job(b)][hour] = @ + 1]
    BY DEF D!Load
<1> HIDE DEF new
<1>3. /\ batch' \in [D!Runs -> {D!Off} \union Batches] /\ batch'[b] = new
      /\ \A x \in D!Runs : x # b => batch'[x] = batch[x]
    BY <1>1, <1>2 DEF DigestTypes
<1>4. D!Job(b) \in Jobs /\ hour \in D!Hours
    BY RunParts DEF D!Job, DigestTypes
<1>5. started' \in [Jobs -> [D!Hours -> Nat]]
    BY <1>2, <1>4 DEF DigestTypes
<1>6. \A j \in Jobs, h \in D!Hours :
        started'[j][h] = IF j = D!Job(b) /\ h = hour THEN started[j][h] + 1 ELSE started[j][h]
    BY <1>2, <1>4 DEF DigestTypes
<1> QED  BY <1>1, <1>3, <1>5, <1>6 DEF new

LEMMA LoadOwes ==
    ASSUME DigestTypes, Listed, AllOwed, NEW b \in D!Runs, D!Load(b), batch[b] = D!Off, UNCHANGED mails
    PROVE  Listed' /\ AllOwed'
<1> USE ProgressConstants DEF D!Nobody
<1>1. D!Active' = D!Active \union {b}
    BY Loading DEF D!Active
<1>2. Listed'
    <2>1. ASSUME NEW x \in D!Active' PROVE batch'[x].now \notin batch'[x].todo
        <3>1. CASE x = b
            <4>1. D!Eligible(D!Job(b)) \subseteq Prefs
                BY DEF D!Eligible
            <4>2. batch'[b] = [on |-> TRUE, todo |-> D!Eligible(D!Job(b)), at |-> hour, now |-> D!Nobody]
                BY Loading
            <4> QED  BY <3>1, <4>1, <4>2
        <3>2. CASE x # b
            BY <1>1, <3>2, Loading DEF Listed, D!Active
        <3> QED  BY <3>1, <3>2
    <2> QED  BY <2>1 DEF Listed
<1>3. ASSUME NEW p \in Prefs, NEW j \in Jobs, NEW h \in D!Hours
      PROVE  Owed(p, j, h)'
    <2> DEFINE P == Pending(p, j, h)
    <2>1. /\ IsFiniteSet(P) /\ Cardinality(P) \in Nat
          /\ mails[p][j][h] + Cardinality(P) <= started[j][h]
          /\ mails[p][j][h] \in Nat /\ started[j][h] \in Nat
        BY <1>3, FS_CardinalityType DEF AllOwed, Owed, DigestTypes
    <2>2. \A x \in D!Runs : x # b => batch'[x] = batch[x]
        BY Loading
    <2>3. b \notin P
        BY DEF Pending, D!Active
    <2>4. CASE j = D!Job(b) /\ h = hour
        <3>1. P' \subseteq P \union {b}
            BY <1>1, <2>2 DEF Pending, D!Active
        <3>2. IsFiniteSet(P \union {b}) /\ Cardinality(P \union {b}) = Cardinality(P) + 1
            BY <2>1, <2>3, FS_AddElement
        <3> HIDE DEF P
        <3>3. IsFiniteSet(P') /\ Cardinality(P') <= Cardinality(P) + 1 /\ Cardinality(P') \in Nat
            BY <3>1, <3>2, FS_Subset, FS_CardinalityType
        <3>4. started'[j][h] = started[j][h] + 1
            BY <2>4, Loading
        <3>5. mails'[p][j][h] + Cardinality(P') <= started'[j][h]
            BY <2>1, <3>3, <3>4
        <3> QED  BY <3>3, <3>5 DEF Owed, P
    <2>5. CASE ~(j = D!Job(b) /\ h = hour)
        <3>1. P' = P
            <4>1. b \notin P'
                <5>1. batch'[b].at = hour
                    <6>1. batch'[b] = [on |-> TRUE, todo |-> D!Eligible(D!Job(b)), at |-> hour,
                                       now |-> D!Nobody]
                        BY Loading
                    <6> QED  BY <6>1
                <5> QED  BY <2>5, <5>1 DEF Pending
            <4>2. \A x \in D!Active : x # b /\ x \in D!Runs /\ batch'[x] = batch[x]
                BY <2>2 DEF D!Active
            <4> QED  BY <1>1, <2>3, <4>1, <4>2 DEF Pending
        <3>2. started'[j][h] = started[j][h]
            BY <2>5, Loading
        <3> QED  BY <2>1, <3>1, <3>2 DEF Owed
    <2> QED  BY <2>4, <2>5
<1> QED  BY <1>2, <1>3 DEF AllOwed

\* A step that takes batches away, or preferences from them.
LEMMA LessIsOwed ==
    ASSUME DigestTypes, AllOwed, UNCHANGED <<mails, started>>,
           \A p \in Prefs, j \in Jobs, h \in D!Hours : Pending(p, j, h)' \subseteq Pending(p, j, h)
    PROVE  AllOwed'
<1>1. ASSUME NEW p \in Prefs, NEW j \in Jobs, NEW h \in D!Hours
      PROVE  Owed(p, j, h)'
    <2> DEFINE P == Pending(p, j, h)
               Q == Pending(p, j, h)'
    <2>1. /\ IsFiniteSet(P) /\ Cardinality(P) \in Nat
          /\ mails[p][j][h] + Cardinality(P) <= started[j][h]
          /\ mails[p][j][h] \in Nat /\ started[j][h] \in Nat
        BY FS_CardinalityType DEF AllOwed, Owed, DigestTypes
    <2>2. Q \subseteq P
        OBVIOUS
    <2> HIDE DEF P, Q
    <2>3. IsFiniteSet(Q) /\ Cardinality(Q) <= Cardinality(P) /\ Cardinality(Q) \in Nat
        BY <2>1, <2>2, FS_Subset, FS_CardinalityType
    <2>4. mails[p][j][h] + Cardinality(Q) <= started[j][h]
        BY <2>1, <2>3
    <2> QED  BY <2>3, <2>4 DEF Owed, Q
<1> QED  BY <1>1 DEF AllOwed

LEMMA Considering ==
    ASSUME DigestTypes, Locked, Listed, AllOwed, NEW b \in D!Runs, D!Consider(b)
    PROVE  /\ batch' \in [D!Runs -> {D!Off} \union Batches]
           /\ Locked' /\ Listed' /\ AllOwed'
<1> USE ProgressConstants DEF D!Nobody
<1>0. PICK p \in batch[b].todo : \E next \in {p, D!Nobody} :
        batch' = [batch EXCEPT ![b] = [batch[b] EXCEPT !.todo = batch[b].todo \ {p}, !.now = next]]
    BY DEF D!Consider
<1>1. PICK next \in {p, D!Nobody} :
        batch' = [batch EXCEPT ![b] = [batch[b] EXCEPT !.todo = batch[b].todo \ {p}, !.now = next]]
    BY <1>0
<1>2. batch[b] \in Batches /\ b \in D!Active /\ batch[b].now = D!Nobody
    BY BatchParts DEF D!Consider
<1>3. p \in Prefs
    BY <1>2 DEF Batches
<1>4. /\ batch'[b] \in Batches /\ batch'[b].todo = batch[b].todo \ {p} /\ batch'[b].now = next
      /\ batch'[b].at = batch[b].at
    <2>1. batch'[b] = [batch[b] EXCEPT !.todo = batch[b].todo \ {p}, !.now = next]
        BY <1>1 DEF DigestTypes
    <2>2. batch[b].todo \ {p} \in SUBSET Prefs /\ next \in Prefs \union {D!Nobody}
        BY <1>2, <1>3 DEF Batches
    <2>3. /\ batch'[b].todo = batch[b].todo \ {p} /\ batch'[b].now = next
          /\ batch'[b].at = batch[b].at
        BY <1>2, <2>1 DEF Batches
    <2> QED  BY <1>2, <2>1, <2>2, <2>3 DEF Batches
<1>5. batch' \in [D!Runs -> {D!Off} \union Batches]
    <2> DEFINE new == [batch[b] EXCEPT !.todo = batch[b].todo \ {p}, !.now = next]
    <2>1. batch' = [batch EXCEPT ![b] = new] /\ new = batch'[b]
        BY <1>1 DEF DigestTypes
    <2> HIDE DEF new
    <2> QED  BY <1>4, <2>1 DEF DigestTypes
<1>6. \A x \in D!Runs : x # b => batch'[x] = batch[x]
    BY <1>1 DEF DigestTypes
<1>7. batch'[b] # D!Off
    BY <1>4, BatchIsOn
<1>8. D!Active' = D!Active
    BY <1>2, <1>6, <1>7 DEF D!Active
<1>9. UNCHANGED <<lock, mails, started>>
    BY DEF D!Consider
<1>10. Locked'
    BY <1>8, <1>9 DEF Locked
<1>11. Listed'
    BY <1>2, <1>3, <1>4, <1>6, <1>8 DEF Listed, Batches, D!Active
<1>12. ASSUME NEW q \in Prefs, NEW j \in Jobs, NEW h \in D!Hours, NEW x \in Pending(q, j, h)'
       PROVE  x \in Pending(q, j, h)
    <2>1. x \in D!Active /\ D!Job(x) = j /\ batch'[x].at = h
            /\ (q \in batch'[x].todo \/ q = batch'[x].now)
        BY <1>8 DEF Pending
    <2>2. CASE x = b
        BY <1>1, <1>3, <1>4, <2>1, <2>2 DEF Pending
    <2>3. CASE x # b
        BY <1>6, <2>1, <2>3 DEF Pending, D!Active
    <2> QED  BY <2>2, <2>3
<1>13. \A q \in Prefs, j \in Jobs, h \in D!Hours : Pending(q, j, h)' \subseteq Pending(q, j, h)
    BY <1>12
<1> QED  BY <1>5, <1>9, <1>10, <1>11, <1>13, LessIsOwed

LEMMA Sending ==
    ASSUME DigestTypes, Locked, Listed, AllOwed, NEW b \in D!Runs, D!Send(b)
    PROVE  /\ batch' \in [D!Runs -> {D!Off} \union Batches]
           /\ mails' \in [Prefs -> [Jobs -> [D!Hours -> Nat]]]
           /\ Locked' /\ Listed' /\ AllOwed'
<1> USE ProgressConstants DEF D!Nobody
<1> DEFINE sent == batch[b].now
           job == D!Job(b)
           at == batch[b].at
<1>1. PICK delivered \in BOOLEAN :
        /\ mails' = IF delivered THEN [mails EXCEPT ![sent][job][at] = @ + 1] ELSE mails
        /\ batch' = [batch EXCEPT ![b].now = D!Nobody]
    BY DEF D!Send, D!Answered
<1>2. batch[b] \in Batches /\ b \in D!Active /\ batch[b].now # D!Nobody
    BY BatchParts DEF D!Send
<1>3. sent \in Prefs /\ job \in Jobs /\ at \in D!Hours /\ sent \notin batch[b].todo
    BY <1>2, RunParts DEF Batches, D!Job, Listed
<1>4. batch'[b] = [batch[b] EXCEPT !.now = D!Nobody]
    BY <1>1 DEF DigestTypes
<1>5. /\ batch'[b] \in Batches /\ batch'[b].todo = batch[b].todo /\ batch'[b].now = D!Nobody
      /\ batch'[b].at = batch[b].at
    BY <1>2, <1>4 DEF Batches
<1>6. batch' \in [D!Runs -> {D!Off} \union Batches]
    <2>1. batch' = [batch EXCEPT ![b] = batch'[b]]
        BY <1>1, <1>4
    <2> QED  BY <1>5, <2>1 DEF DigestTypes
<1>7. \A x \in D!Runs : x # b => batch'[x] = batch[x]
    BY <1>1 DEF DigestTypes
<1>8. D!Active' = D!Active
    BY <1>2, <1>5, <1>7, BatchIsOn DEF D!Active
<1>9. UNCHANGED <<lock, started>>
    BY DEF D!Send
<1>10. Locked'
    BY <1>8, <1>9 DEF Locked
<1>11. Listed'
    <2>1. batch'[b].now \notin batch'[b].todo
        BY <1>2, <1>5 DEF Batches
    <2> QED  BY <1>7, <1>8, <2>1 DEF Listed, D!Active
<1>12. mails' \in [Prefs -> [Jobs -> [D!Hours -> Nat]]]
    BY <1>1, <1>3 DEF DigestTypes
<1>13. ASSUME NEW p \in Prefs, NEW j \in Jobs, NEW h \in D!Hours
       PROVE  Owed(p, j, h)'
    <2> DEFINE P == Pending(p, j, h)
               Q == Pending(p, j, h)'
    <2>1. /\ IsFiniteSet(P) /\ Cardinality(P) \in Nat
          /\ mails[p][j][h] + Cardinality(P) <= started[j][h]
          /\ mails[p][j][h] \in Nat /\ started[j][h] \in Nat
        BY FS_CardinalityType DEF AllOwed, Owed, DigestTypes
    <2>2. CASE p = sent /\ j = job /\ h = at
        <3>1. b \in P
            BY <1>2, <2>2 DEF Pending
        <3>2. Q \subseteq P \ {b}
            <4>1. b \notin Q
                BY <1>3, <1>5, <2>2 DEF Pending
            <4>2. \A x \in Q : x \in P
                BY <1>7, <1>8, <4>1 DEF Pending, D!Active
            <4> QED  BY <4>1, <4>2
        <3>3. mails'[p][j][h] <= mails[p][j][h] + 1 /\ mails'[p][j][h] \in Nat
            BY <1>1, <1>3, <2>1, <2>2 DEF DigestTypes
        <3> HIDE DEF P, Q
        <3>4. IsFiniteSet(P \ {b}) /\ Cardinality(P \ {b}) = Cardinality(P) - 1
            BY <2>1, <3>1, FS_RemoveElement
        <3>5. IsFiniteSet(Q) /\ Cardinality(Q) <= Cardinality(P) - 1 /\ Cardinality(Q) \in Nat
            BY <3>2, <3>4, FS_Subset, FS_CardinalityType
        <3>6. mails'[p][j][h] + Cardinality(Q) <= started'[j][h]
            BY <1>9, <2>1, <3>3, <3>5
        <3> QED  BY <3>5, <3>6 DEF Owed, Q
    <2>3. CASE ~(p = sent /\ j = job /\ h = at)
        <3>1. \A x \in Q : x \in P
            <4> SUFFICES ASSUME NEW x \in Q PROVE x \in P
                OBVIOUS
            <4>1. CASE x = b
                BY <1>3, <1>5, <1>8, <4>1 DEF Pending
            <4>2. CASE x # b
                BY <1>7, <1>8, <4>2 DEF Pending, D!Active
            <4> QED  BY <4>1, <4>2
        <3>2. mails'[p][j][h] = mails[p][j][h]
            BY <1>1, <1>3, <2>3 DEF DigestTypes
        <3> HIDE DEF P, Q
        <3>3. IsFiniteSet(Q) /\ Cardinality(Q) <= Cardinality(P) /\ Cardinality(Q) \in Nat
            BY <2>1, <3>1, FS_Subset, FS_CardinalityType
        <3>4. mails'[p][j][h] + Cardinality(Q) <= started'[j][h]
            BY <1>9, <2>1, <3>2, <3>3
        <3> QED  BY <3>3, <3>4 DEF Owed, Q
    <2> QED  BY <2>2, <2>3
<1> QED  BY <1>6, <1>10, <1>11, <1>12, <1>13 DEF AllOwed

\* Batches that end, with their locks.
LEMMA Ending ==
    ASSUME DigestTypes, Locked, Listed, AllOwed, UNCHANGED <<mails, started>>,
           batch' \in [D!Runs -> {D!Off} \union Batches],
           \A b \in D!Active' : /\ b \in D!Active /\ batch'[b] = batch[b]
                                /\ b[3] = "cron" => lock'[D!Job(b)] = lock[D!Job(b)]
    PROVE  Locked' /\ Listed' /\ AllOwed'
<1>1. Locked' /\ Listed'
    BY DEF Locked, Listed
<1>2. \A p \in Prefs, j \in Jobs, h \in D!Hours : Pending(p, j, h)' \subseteq Pending(p, j, h)
    BY DEF Pending
<1> QED  BY <1>1, <1>2, LessIsOwed

LEMMA DigestsStay == DigestInv /\ D!Next => DigestInv'
<1> USE ProgressConstants
<1> SUFFICES ASSUME DigestInv, D!Next PROVE DigestInv'
    OBVIOUS
<1>0. DigestTypes /\ Locked /\ Listed /\ AllOwed
    BY DEF DigestInv
<1>1. ASSUME NEW i \in Instances, NEW j \in Jobs, D!Fire(i, j) PROVE DigestInv'
    <2>1. <<i, j, "cron">> \in D!Runs /\ D!Job(<<i, j, "cron">>) = j
        BY DEF D!Runs, D!Kinds, D!Job
    <2>2. fired' \in [Instances -> SUBSET Jobs] /\ UNCHANGED <<hour, pref, mails>>
        BY <1>0, <1>1 DEF D!Fire, DigestTypes
    <2>3. CASE /\ lock[j] = D!Nobody /\ batch[<<i, j, "cron">>] = D!Off
               /\ lock' = [lock EXCEPT ![j] = i] /\ D!Load(<<i, j, "cron">>)
        <3>1. DigestTypes'
            BY <1>0, <2>1, <2>2, <2>3, Loading DEF DigestTypes
        <3>2. Listed' /\ AllOwed'
            BY <1>0, <2>1, <2>2, <2>3, LoadOwes
        <3>3. ASSUME NEW b \in D!Active', b[3] = "cron" PROVE lock'[D!Job(b)] = b[1]
            <4>1. b \in D!Runs /\ b[1] \in Instances /\ D!Job(b) \in Jobs /\ b = <<b[1], D!Job(b), b[3]>>
                BY RunParts DEF D!Active, D!Job
            <4>2. CASE D!Job(b) = j
                <5>1. CASE b = <<i, j, "cron">>
                    BY <1>0, <2>1, <2>3, <5>1 DEF DigestTypes
                <5>2. CASE b # <<i, j, "cron">>
                    <6>1. b \in D!Active
                        BY <1>0, <2>1, <2>3, <4>1, <5>2, Loading DEF D!Active
                    <6> QED  BY <1>0, <2>3, <3>3, <4>1, <4>2, <6>1 DEF Locked, D!Nobody
                <5> QED  BY <5>1, <5>2
            <4>3. CASE D!Job(b) # j
                <5>1. b \in D!Active
                    BY <1>0, <2>1, <2>3, <4>1, <4>3, Loading DEF D!Active
                <5>2. lock'[D!Job(b)] = lock[D!Job(b)]
                    BY <1>0, <2>3, <4>1, <4>3 DEF DigestTypes
                <5> QED  BY <1>0, <3>3, <5>1, <5>2 DEF Locked
            <4> QED  BY <4>2, <4>3
        <3> QED  BY <3>1, <3>2, <3>3 DEF DigestInv, Locked
    <2>4. CASE UNCHANGED <<lock, batch, started>>
        <3>1. Locked' /\ Listed' /\ AllOwed'
            BY <1>0, <2>2, <2>4 DEF Locked, Listed, AllOwed, Owed, Pending, D!Active
        <3> QED  BY <1>0, <2>2, <2>4, <3>1 DEF DigestInv, DigestTypes
    <2> QED  BY <1>1, <2>3, <2>4 DEF D!Fire
<1>2. ASSUME NEW i \in Instances, NEW j \in Jobs, D!Trigger(i, j) PROVE DigestInv'
    <2>1. <<i, j, "manual">> \in D!Runs /\ <<i, j, "manual">>[3] = "manual"
        BY DEF D!Runs, D!Kinds
    <2>2. /\ UNCHANGED <<hour, pref, lock, fired, mails>> /\ D!Load(<<i, j, "manual">>)
          /\ batch[<<i, j, "manual">>] = D!Off
        BY <1>2 DEF D!Trigger
    <2>3. DigestTypes'
        BY <1>0, <2>1, <2>2, Loading DEF DigestTypes
    <2>4. Listed' /\ AllOwed'
        BY <1>0, <2>1, <2>2, LoadOwes
    <2>5. ASSUME NEW b \in D!Active', b[3] = "cron" PROVE lock'[D!Job(b)] = b[1]
        <3>1. b # <<i, j, "manual">> /\ b \in D!Runs
            BY <2>1, <2>5 DEF D!Active
        <3>2. b \in D!Active
            BY <1>0, <2>1, <2>2, <3>1, Loading DEF D!Active
        <3> QED  BY <1>0, <2>2, <2>5, <3>2 DEF Locked
    <2> QED  BY <2>3, <2>4, <2>5 DEF DigestInv, Locked
<1>3. ASSUME NEW b \in D!Runs, D!Consider(b) PROVE DigestInv'
    <2>1. UNCHANGED <<hour, pref, lock, fired, started, mails>>
        BY <1>3 DEF D!Consider
    <2> QED  BY <1>0, <1>3, <2>1, Considering DEF DigestInv, DigestTypes
<1>4. ASSUME NEW b \in D!Runs, D!Send(b) PROVE DigestInv'
    <2>1. UNCHANGED <<hour, pref, lock, fired, started>>
        BY <1>4 DEF D!Send
    <2> QED  BY <1>0, <1>4, <2>1, Sending DEF DigestInv, DigestTypes
<1>5. ASSUME NEW b \in D!Runs, D!Finish(b) PROVE DigestInv'
    <2>1. /\ UNCHANGED <<hour, pref, fired, started, mails>> /\ batch' = [batch EXCEPT ![b] = D!Off]
          /\ lock' = IF b[3] = "cron" THEN [lock EXCEPT ![D!Job(b)] = D!Nobody] ELSE lock
          /\ batch[b] # D!Off
        BY <1>5 DEF D!Finish, D!Release
    <2>2. /\ batch' \in [D!Runs -> {D!Off} \union Batches]
          /\ lock' \in [Jobs -> Instances \union {D!Nobody}]
        BY <1>0, <2>1 DEF DigestTypes
    <2>3. ASSUME NEW x \in D!Active'
          PROVE  /\ x \in D!Active /\ batch'[x] = batch[x]
                 /\ x[3] = "cron" => lock'[D!Job(x)] = lock[D!Job(x)]
        <3>1. x \in D!Runs /\ x # b /\ batch'[x] = batch[x] /\ x \in D!Active
            BY <1>0, <2>1 DEF D!Active, DigestTypes
        <3>2. ASSUME x[3] = "cron" PROVE lock'[D!Job(x)] = lock[D!Job(x)]
            <4>1. /\ x[1] \in Instances /\ D!Job(x) \in Jobs /\ x = <<x[1], D!Job(x), x[3]>>
                  /\ D!Job(b) \in Jobs /\ b = <<b[1], D!Job(b), b[3]>>
                BY <3>1, RunParts DEF D!Job
            <4>2. b \in D!Active
                BY <2>1 DEF D!Active
            <4>3. b[3] = "cron" => D!Job(x) # D!Job(b)
                BY <1>0, <3>1, <3>2, <4>1, <4>2 DEF Locked
            <4> QED  BY <1>0, <2>1, <4>1, <4>3 DEF DigestTypes
        <3> QED  BY <3>1, <3>2
    <2>4. Locked' /\ Listed' /\ AllOwed'
        BY <1>0, <2>1, <2>2, <2>3, Ending
    <2> QED  BY <1>0, <2>1, <2>2, <2>4 DEF DigestInv, DigestTypes
<1>6. ASSUME NEW i \in Instances, D!Crash(i) PROVE DigestInv'
    <2>1. /\ UNCHANGED <<hour, pref, started, mails>>
          /\ batch' = [b \in D!Runs |-> IF b[1] = i THEN D!Off ELSE batch[b]]
          /\ lock' = [j \in Jobs |-> IF lock[j] = i THEN D!Nobody ELSE lock[j]]
          /\ fired' = [fired EXCEPT ![i] = Jobs]
        BY <1>6 DEF D!Crash
    <2>2. /\ batch' \in [D!Runs -> {D!Off} \union Batches]
          /\ lock' \in [Jobs -> Instances \union {D!Nobody}]
          /\ fired' \in [Instances -> SUBSET Jobs]
        BY <1>0, <2>1 DEF DigestTypes
    <2>3. ASSUME NEW x \in D!Active'
          PROVE  /\ x \in D!Active /\ batch'[x] = batch[x]
                 /\ x[3] = "cron" => lock'[D!Job(x)] = lock[D!Job(x)]
        <3>1. x \in D!Runs /\ x[1] # i /\ batch'[x] = batch[x] /\ x \in D!Active
            BY <2>1 DEF D!Active
        <3>2. D!Job(x) \in Jobs
            BY <3>1, RunParts DEF D!Job
        <3> QED  BY <1>0, <2>1, <3>1, <3>2 DEF Locked
    <2>4. Locked' /\ Listed' /\ AllOwed'
        BY <1>0, <2>1, <2>2, <2>3, Ending
    <2> QED  BY <1>0, <2>1, <2>2, <2>4 DEF DigestInv, DigestTypes
<1>7. CASE D!HourPasses \/ \E p \in Prefs : D!UpdatePreference(p)
    <2>1. UNCHANGED <<lock, batch, started, mails>>
        BY <1>7 DEF D!HourPasses, D!UpdatePreference
    <2>2. Locked' /\ Listed' /\ AllOwed'
        BY <1>0, <2>1 DEF Locked, Listed, AllOwed, Owed, Pending, D!Active
    <2>3. CASE D!HourPasses
        <3>1. hour' \in D!Hours /\ fired' \in [Instances -> SUBSET Jobs] /\ UNCHANGED pref
            BY <1>0, <2>3 DEF D!HourPasses, DigestTypes, D!Hours
        <3> QED  BY <1>0, <2>1, <2>2, <3>1 DEF DigestInv, DigestTypes
    <2>4. ASSUME NEW p \in Prefs, D!UpdatePreference(p) PROVE DigestInv'
        <3>1. /\ UNCHANGED <<hour, fired>>
              /\ pref' \in [Prefs -> [freq: D!Frequencies \union {"none"}, hour: 0 .. Day - 1]]
            BY <1>0, <2>4 DEF D!UpdatePreference, DigestTypes
        <3> QED  BY <1>0, <2>1, <2>2, <3>1 DEF DigestInv, DigestTypes
    <2> QED  BY <1>7, <2>3, <2>4
<1> QED  BY <1>1, <1>2, <1>3, <1>4, <1>5, <1>6, <1>7 DEF D!Next, D!Work

LEMMA DigestsBegin == D!Init => DigestInv
<1> USE ProgressConstants
<1> SUFFICES ASSUME D!Init PROVE DigestInv
    OBVIOUS
<1>1. 0 \in D!Hours /\ 0 \in 0 .. Day - 1
    BY DEF D!Hours
<1>2. DigestTypes
    BY <1>1 DEF D!Init, DigestTypes
<1>3. D!Active = {}
    BY DEF D!Init, D!Active
<1>4. Locked /\ Listed
    BY <1>3 DEF Locked, Listed
<1>5. ASSUME NEW p \in Prefs, NEW j \in Jobs, NEW h \in D!Hours PROVE Owed(p, j, h)
    <2>1. Pending(p, j, h) = {}
        BY <1>3 DEF Pending
    <2>2. mails[p][j][h] = 0 /\ started[j][h] = 0
        BY DEF D!Init
    <2> QED  BY <2>1, <2>2, FS_EmptySet DEF Owed
<1> QED  BY <1>2, <1>4, <1>5 DEF DigestInv, AllOwed

LEMMA DigestsHold == DigestInv => D!TypeOK /\ D!MailsBoundedByBatches
<1> SUFFICES ASSUME DigestInv PROVE D!TypeOK /\ D!MailsBoundedByBatches
    OBVIOUS
<1>1. \A b \in D!Active : b \in D!Runs /\ batch[b] \in Batches
    BY BatchParts DEF DigestInv, D!Active
<1>2. \A b \in D!Active : /\ batch[b].todo \subseteq Prefs /\ batch[b].at \in D!Hours
                          /\ batch[b].now \in Prefs \union {D!Nobody}
    BY <1>1 DEF Batches
<1>3. D!TypeOK
    BY <1>2 DEF DigestInv, DigestTypes, Locked, D!TypeOK
<1>4. ASSUME NEW p \in Prefs, NEW j \in Jobs, NEW h \in D!Hours
      PROVE  mails[p][j][h] <= started[j][h]
    <2>1. /\ Cardinality(Pending(p, j, h)) \in Nat
          /\ mails[p][j][h] + Cardinality(Pending(p, j, h)) <= started[j][h]
        BY FS_CardinalityType DEF DigestInv, AllOwed, Owed
    <2>2. mails[p][j][h] \in Nat /\ started[j][h] \in Nat
        BY DEF DigestInv, DigestTypes
    <2> QED  BY <2>1, <2>2
<1> QED  BY <1>3, <1>4 DEF D!MailsBoundedByBatches

-----------------------------------------------------------------------------
(* Summaries: a run knows the commits of the period up to its date.        *)

Checks == [op: {"auto"}, phase: {"fetch"}, latest: S!Time]
Writes == [op: {"auto"}, phase: {"write"}, latest: S!Time, got: [Repos -> S!Time]]
Narrations == [op: {"narrate"}, got: [Repos -> S!Time]]

SummaryTypes ==
    /\ now \in S!Time /\ newest \in [Repos -> S!Time]
    /\ \A x \in Repos : newest[x] <= now
    /\ summary \in S!Row /\ summary.last <= now
    /\ run \in [SummaryRuns -> {S!Idle} \union Checks \union Writes \union Narrations]

\* The date a run has found is a date of the past; what it has read since is all
\* there is up to that date, whatever is pushed afterwards.
UpToIts(q) ==
    q.op = "auto" =>
      /\ q.latest <= now
      /\ q.phase = "write" => \A x \in Repos : newest[x] <= q.latest => q.got[x] = newest[x]
RunsKnow == \A r \in SummaryRuns : UpToIts(run[r])

SummaryInv == SummaryTypes /\ RunsKnow /\ S!SeenIsCovered

LEMMA RunKinds ==
    ASSUME SummaryTypes, NEW r \in SummaryRuns
    PROVE  /\ run[r].op = "auto" /\ run[r].phase = "fetch" => run[r] \in Checks
           /\ run[r].op = "auto" /\ run[r].phase = "write" => run[r] \in Writes
           /\ run[r].op = "narrate" => run[r] \in Narrations
           /\ run[r].op \in {"none", "auto", "narrate"}
BY DEF SummaryTypes, S!Idle, Checks, Writes, Narrations

\* The other runs wait.
LEMMA RunsWait ==
    ASSUME SummaryTypes, RunsKnow, NEW r \in SummaryRuns, UNCHANGED <<now, newest>>,
           NEW q \in {S!Idle} \union Checks \union Writes \union Narrations,
           run' = [run EXCEPT ![r] = q], UpToIts(q)
    PROVE  RunsKnow' /\ run' \in [SummaryRuns -> {S!Idle} \union Checks \union Writes \union Narrations]
<1>1. run' \in [SummaryRuns -> {S!Idle} \union Checks \union Writes \union Narrations]
    BY DEF SummaryTypes
<1>2. run'[r] = q /\ \A s \in SummaryRuns : s # r => run'[s] = run[s]
    BY DEF SummaryTypes
<1> QED  BY <1>1, <1>2 DEF RunsKnow, UpToIts

LEMMA Reading ==
    ASSUME SummaryTypes, ~Unreliable, NEW ok \in S!Reads
    PROVE  S!Fetched(ok) = newest
BY DEF SummaryTypes, S!Reads, S!Fetched

LEMMA SummariesStay == ~Unreliable /\ SummaryInv /\ S!Next => SummaryInv'
<1> USE ProgressConstants
<1> SUFFICES ASSUME ~Unreliable, SummaryInv, S!Next PROVE SummaryInv'
    OBVIOUS
<1>0. SummaryTypes /\ RunsKnow /\ S!SeenIsCovered
    BY DEF SummaryInv
<1>1. ASSUME UNCHANGED <<now, newest, summary>>, byHand' = byHand,
             NEW r \in SummaryRuns, NEW q \in {S!Idle} \union Checks \union Writes \union Narrations,
             run' = [run EXCEPT ![r] = q], UpToIts(q)
      PROVE  SummaryInv'
    BY <1>0, <1>1, RunsWait DEF SummaryInv, SummaryTypes, S!SeenIsCovered, S!Covers
<1>2. UpToIts(S!Idle) /\ S!Idle \in {S!Idle} \union Checks \union Writes \union Narrations
    BY DEF UpToIts, S!Idle
<1>3. ASSUME NEW r \in SummaryRuns, S!CheckActivity(r) PROVE SummaryInv'
    <2>1. PICK ok \in S!Reads, latest \in S!Time :
             /\ S!IsLatest(latest, S!Fetched(ok))
             /\ run' = [run EXCEPT ![r] = [op |-> "auto", phase |-> "fetch", latest |-> latest]]
        BY <1>3 DEF S!CheckActivity
    <2> DEFINE q == [op |-> "auto", phase |-> "fetch", latest |-> latest]
    <2>2. q \in Checks
        BY DEF Checks
    <2>3. latest <= now
        BY <1>0, <2>1, Reading DEF S!IsLatest, SummaryTypes
    <2>4. UpToIts(q)
        BY <2>3 DEF UpToIts
    <2>5. UNCHANGED <<now, newest, summary>> /\ byHand' = byHand
        BY <1>3 DEF S!CheckActivity
    <2> QED  BY <1>1, <2>1, <2>2, <2>4, <2>5
<1>4. ASSUME NEW r \in SummaryRuns, S!FetchCommits(r) PROVE SummaryInv'
    <2>1. PICK ok \in S!Reads :
             \/ /\ S!InPeriod(S!Fetched(ok))
                /\ run' = [run EXCEPT ![r] =
                             [op |-> "auto", phase |-> "write", latest |-> run[r].latest,
                              got |-> S!Fetched(ok)]]
                /\ UNCHANGED summary
             \/ /\ ~S!InPeriod(S!Fetched(ok))
                /\ summary' = IF summary.there THEN [summary EXCEPT !.last = run[r].latest] ELSE summary
                /\ run' = [run EXCEPT ![r] = S!Idle]
        BY <1>4 DEF S!FetchCommits
    <2>2. S!Fetched(ok) = newest
        BY <1>0, Reading
    <2>3. run[r] \in Checks /\ run[r].latest <= now
        BY <1>0, <1>4, RunKinds DEF S!FetchCommits, RunsKnow, UpToIts
    <2>4. UNCHANGED <<now, newest>> /\ byHand' = byHand
        BY <1>4 DEF S!FetchCommits
    <2>5. CASE run' = [run EXCEPT ![r] = [op |-> "auto", phase |-> "write", latest |-> run[r].latest,
                                          got |-> newest]] /\ UNCHANGED summary
        <3> DEFINE q == [op |-> "auto", phase |-> "write", latest |-> run[r].latest, got |-> newest]
        <3>1. q \in Writes
            BY <1>0, <2>3 DEF Writes, Checks, SummaryTypes
        <3>2. UpToIts(q)
            BY <2>3 DEF UpToIts
        <3> QED  BY <1>1, <2>4, <2>5, <3>1, <3>2
    <2>6. CASE /\ ~S!InPeriod(newest)
               /\ summary' = IF summary.there THEN [summary EXCEPT !.last = run[r].latest] ELSE summary
               /\ run' = [run EXCEPT ![r] = S!Idle]
        <3>1. summary' \in S!Row /\ summary'.last <= now
            BY <1>0, <2>3, <2>6 DEF SummaryTypes, S!Row, Checks
        <3>2. S!SeenIsCovered'
            <4>1. \A x \in Repos : ~(newest[x] > 0 /\ newest[x] + Window > now)
                BY <2>6 DEF S!InPeriod
            <4>2. ASSUME NEW x \in Repos, newest[x] + Window > now, ~byHand, summary.there
                  PROVE  summary'.seen[x] = newest[x]
                <5>1. newest[x] = 0
                    BY <1>0, <4>1, <4>2 DEF SummaryTypes, S!Time
                <5>2. summary.last \in S!Time
                    BY <1>0 DEF SummaryTypes, S!Row
                <5>3. newest[x] <= summary.last
                    BY <5>1, <5>2 DEF S!Time
                <5>4. summary.seen[x] = newest[x]
                    BY <1>0, <4>2, <5>3 DEF S!SeenIsCovered, S!Covers
                <5>5. summary'.seen = summary.seen
                    BY <1>0, <2>6 DEF SummaryTypes, S!Row
                <5> QED  BY <5>4, <5>5
            <4>3. summary'.there = summary.there
                BY <1>0, <2>6 DEF SummaryTypes, S!Row
            <4> QED  BY <2>4, <4>2, <4>3 DEF S!SeenIsCovered, S!Covers
        <3> QED  BY <1>0, <1>2, <2>4, <2>6, <3>1, <3>2, RunsWait DEF SummaryInv, SummaryTypes
    <2> QED  BY <2>1, <2>2, <2>5, <2>6
<1>5. ASSUME NEW r \in SummaryRuns, S!WriteSummary(r) PROVE SummaryInv'
    <2>1. /\ run[r].op = "auto" /\ run[r].phase = "write" /\ UNCHANGED <<now, newest>> /\ byHand' = byHand
          /\ summary' \in {summary, [there |-> TRUE, seen |-> run[r].got, last |-> run[r].latest]}
          /\ run' = [run EXCEPT ![r] = S!Idle]
        BY <1>5 DEF S!WriteSummary, S!Generated
    <2>2. /\ run[r] \in Writes /\ run[r].latest <= now
          /\ \A x \in Repos : newest[x] <= run[r].latest => run[r].got[x] = newest[x]
        BY <1>0, <2>1, RunKinds DEF RunsKnow, UpToIts
    <2> DEFINE row == [there |-> TRUE, seen |-> run[r].got, last |-> run[r].latest]
    <2>3. summary' \in S!Row /\ summary'.last <= now
        <3>1. run[r].got \in [Repos -> S!Time] /\ run[r].latest \in S!Time
            BY <2>2 DEF Writes
        <3>2. row \in S!Row /\ row.last <= now
            BY <2>2, <3>1 DEF S!Row
        <3>3. summary \in S!Row /\ summary.last <= now
            BY <1>0 DEF SummaryTypes
        <3> QED  BY <2>1, <3>2, <3>3
    <2>4. S!SeenIsCovered'
        BY <1>0, <2>1, <2>2 DEF S!SeenIsCovered, S!Covers
    <2> QED  BY <1>0, <1>2, <2>1, <2>3, <2>4, RunsWait DEF SummaryInv, SummaryTypes
<1>6. ASSUME NEW r \in SummaryRuns, S!BeginAiSummary(r) PROVE SummaryInv'
    <2>1. PICK ok \in SUBSET Repos :
             run' = [run EXCEPT ![r] = [op |-> "narrate", got |-> S!Fetched(ok)]]
        BY <1>6 DEF S!BeginAiSummary
    <2> DEFINE q == [op |-> "narrate", got |-> S!Fetched(ok)]
    <2>2. S!Fetched(ok) \in [Repos -> S!Time]
        BY <1>0 DEF S!Fetched, SummaryTypes, S!Time
    <2>3. q \in Narrations /\ UpToIts(q)
        BY <2>2 DEF Narrations, UpToIts
    <2>4. UNCHANGED <<now, newest, summary>> /\ byHand' = byHand
        BY <1>6 DEF S!BeginAiSummary
    <2> QED  BY <1>1, <2>1, <2>3, <2>4
<1>7. ASSUME NEW r \in SummaryRuns, S!GenerateAiSummary(r) PROVE SummaryInv'
    <2>1. /\ run[r].op = "narrate" /\ UNCHANGED <<now, newest>> /\ byHand' = TRUE
          /\ summary' = [there |-> TRUE, seen |-> run[r].got, last |-> now]
          /\ run' = [run EXCEPT ![r] = S!Idle]
        BY <1>7 DEF S!GenerateAiSummary
    <2>2. run[r] \in Narrations
        BY <1>0, <2>1, RunKinds
    <2>3. summary' \in S!Row /\ summary'.last <= now
        BY <1>0, <2>1, <2>2 DEF SummaryTypes, S!Row, Narrations, S!Time
    <2> QED  BY <1>0, <1>2, <2>1, <2>3, RunsWait DEF SummaryInv, SummaryTypes, S!SeenIsCovered
<1>8. ASSUME NEW r \in SummaryRuns, S!GiveUp(r) PROVE SummaryInv'
    <2>1. UNCHANGED <<now, newest, summary>> /\ byHand' = byHand /\ run' = [run EXCEPT ![r] = S!Idle]
        BY <1>8 DEF S!GiveUp
    <2> QED  BY <1>1, <1>2, <2>1
<1>9. ASSUME now < MaxTime, now' = now + 1, UNCHANGED <<summary, run, byHand>>,
             newest' = newest \/ \E x \in Repos : newest' = [newest EXCEPT ![x] = now + 1]
      PROVE  SummaryInv'
    <2>1. now \in Nat /\ now' \in S!Time /\ summary.last \in Nat
        BY <1>0, <1>9 DEF SummaryTypes, S!Time, S!Row
    <2>2. newest' \in [Repos -> S!Time] /\ \A x \in Repos : newest'[x] <= now'
        BY <1>0, <1>9, <2>1 DEF SummaryTypes, S!Time
    <2>3. \A x \in Repos : newest'[x] = newest[x] \/ newest'[x] = now + 1
        BY <1>0, <1>9 DEF SummaryTypes
    <2>4. RunsKnow'
        <3>1. ASSUME NEW r \in SummaryRuns, run[r].op = "auto"
              PROVE  run[r].latest \in Nat /\ run[r].latest <= now
            <4>1. run[r] \in Checks \union Writes
                BY <1>0, <3>1 DEF SummaryTypes, S!Idle, Narrations
            <4> QED  BY <1>0, <3>1, <4>1 DEF Checks, Writes, S!Time, RunsKnow, UpToIts
        <3> QED  BY <1>0, <1>9, <2>1, <2>3, <3>1 DEF RunsKnow, UpToIts
    <2>5. S!SeenIsCovered'
        <3>1. \A x \in Repos : newest'[x] <= summary.last => newest'[x] = newest[x]
            BY <1>0, <2>1, <2>3 DEF SummaryTypes
        <3>2. \A x \in Repos : newest[x] + Window > now + 1 => newest[x] + Window > now
            BY <1>0, <2>1 DEF SummaryTypes, S!Time
        <3> QED  BY <1>0, <1>9, <3>1, <3>2 DEF S!SeenIsCovered, S!Covers
    <2>6. SummaryTypes'
        BY <1>0, <1>9, <2>1, <2>2 DEF SummaryTypes
    <2> QED  BY <2>4, <2>5, <2>6 DEF SummaryInv
<1>10. ASSUME NEW x \in Repos, S!Push(x) PROVE SummaryInv'
    BY <1>9, <1>10 DEF S!Push
<1>11. CASE S!TimePasses
    BY <1>9, <1>11 DEF S!TimePasses
<1> QED  BY <1>3, <1>4, <1>5, <1>6, <1>7, <1>8, <1>10, <1>11 DEF S!Next, S!Auto, S!ByHand

LEMMA SummariesBegin == S!Init => SummaryInv
<1> USE ProgressConstants
<1> SUFFICES ASSUME S!Init PROVE SummaryInv
    OBVIOUS
<1>1. 0 \in S!Time
    BY DEF S!Time
<1>2. SummaryTypes
    BY <1>1 DEF S!Init, SummaryTypes, S!Row, S!Absent
<1>3. RunsKnow
    BY DEF S!Init, RunsKnow, UpToIts, S!Idle
<1>4. S!SeenIsCovered
    BY DEF S!Init, S!SeenIsCovered, S!Absent
<1> QED  BY <1>2, <1>3, <1>4 DEF SummaryInv

LEMMA SummariesHold == SummaryInv => S!TypeOK /\ S!SeenIsCovered
<1> SUFFICES ASSUME SummaryInv PROVE S!TypeOK
    BY DEF SummaryInv
<1>1. \A r \in SummaryRuns : run[r].op \in {"none", "auto", "narrate"}
    BY RunKinds DEF SummaryInv
<1> QED  BY <1>1 DEF SummaryInv, SummaryTypes, S!TypeOK

-----------------------------------------------------------------------------
(* The dashboard: a whole reading has all its organization's commits.      *)

Calls == [there: {TRUE}, key: Orgs, read: B!Clock, counted: SUBSET B!Commits, whole: BOOLEAN]

DashboardTypes ==
    /\ clock \in B!Clock /\ commits \in SUBSET B!Commits
    /\ cache \in [Orgs -> {B!Nothing} \union B!Stats]
    /\ call \in [Users -> {B!Nothing} \union Calls]

\* What is counted for an organization is all it had when GitHub was read, which
\* later commits do not change: they are dated later.
Counts(o, q) ==
    /\ q.read <= clock
    /\ q.whole => \A c \in commits : c[1] = o /\ c[2] <= q.read => c \in q.counted

RowsCount == \A o \in Orgs : cache[o] # B!Nothing =>
    Counts(o, cache[o]) /\ cache[o].read <= cache[o].at /\ cache[o].at <= clock
CallsCount == \A u \in Users : call[u] # B!Nothing => Counts(call[u].key, call[u])

DashboardInv == DashboardTypes /\ RowsCount /\ CallsCount /\ B!AnswersAreRecent

LEMMA NothingWrong ==
    ASSUME NEW o \in Orgs, NEW row \in B!Stats, clock \in Nat, clock < row.at + Fresh, Counts(o, row)
    PROVE  B!Wrong(o, row) = {}
<1>1. ~(clock >= row.at + Fresh)
    BY ProgressConstants DEF B!Stats, B!Clock
<1> QED  BY <1>1 DEF B!Wrong, Counts

LEMMA GitHubIsRead ==
    ASSUME DashboardInv, NEW u \in Users, NEW a \in B!Asks, B!Read(u, a),
           UNCHANGED <<clock, commits, cache, answer>>
    PROVE  DashboardInv'
<1> USE DEF DashboardInv
<1>1. PICK readable \in SUBSET Orgs :
         call' = [call EXCEPT ![u] = [there |-> TRUE, key |-> a.key, read |-> clock,
                                      counted |-> B!Aggregate(a.scope, readable),
                                      whole |-> a.scope \subseteq readable]]
    BY DEF B!Read
<1> DEFINE q == [there |-> TRUE, key |-> a.key, read |-> clock,
                 counted |-> B!Aggregate(a.scope, readable), whole |-> a.scope \subseteq readable]
<1>2. a.key \in Orgs /\ a.key \in a.scope
    BY DEF B!Asks
<1>3. B!Aggregate(a.scope, readable) \in SUBSET B!Commits
    BY DEF DashboardTypes, B!Aggregate
<1>4. q \in Calls
    BY <1>2, <1>3 DEF Calls, DashboardTypes
<1>5. Counts(a.key, q)
    <2>1. q.whole => a.key \in a.scope \cap readable
        BY <1>2
    <2> QED  BY <2>1 DEF Counts, B!Aggregate, DashboardTypes, B!Clock
<1>6. call' \in [Users -> {B!Nothing} \union Calls]
    BY <1>1, <1>4 DEF DashboardTypes
<1>7. call'[u] = q /\ \A v \in Users : v # u => call'[v] = call[v]
    BY <1>1 DEF DashboardTypes
<1>8. q.key = a.key
    OBVIOUS
<1>9. CallsCount'
    BY <1>5, <1>7, <1>8 DEF CallsCount, Counts
<1>10. RowsCount' /\ B!AnswersAreRecent'
    BY DEF RowsCount, Counts, B!AnswersAreRecent
<1> QED  BY <1>6, <1>9, <1>10 DEF DashboardTypes

LEMMA DashboardStays == DashboardInv /\ B!Next => DashboardInv'
<1> USE ProgressConstants
<1> SUFFICES ASSUME DashboardInv, B!Next PROVE DashboardInv'
    OBVIOUS
<1>0. /\ DashboardTypes /\ RowsCount /\ CallsCount /\ B!AnswersAreRecent
      /\ clock \in Nat
    BY DEF DashboardInv, DashboardTypes, B!Clock
<1>1. ASSUME NEW u \in Users, B!ServeCached(u) PROVE DashboardInv'
    <2>1. PICK a \in B!Asks : B!IsFresh(cache[a.key]) /\ answer' = B!Wrong(a.key, cache[a.key])
        BY <1>1 DEF B!ServeCached
    <2>2. a.key \in Orgs
        BY DEF B!Asks
    <2>3. /\ cache[a.key] \in B!Stats /\ Counts(a.key, cache[a.key])
          /\ clock < cache[a.key].at + Fresh
        BY <1>0, <2>1, <2>2 DEF B!IsFresh, DashboardTypes, RowsCount
    <2>4. answer' = {}
        BY <1>0, <2>1, <2>2, <2>3, NothingWrong
    <2>5. UNCHANGED <<clock, commits, cache, call>>
        BY <1>1 DEF B!ServeCached
    <2> QED  BY <1>0, <2>4, <2>5 DEF DashboardInv, DashboardTypes, RowsCount, CallsCount, Counts,
                                     B!AnswersAreRecent
<1>2. ASSUME NEW u \in Users, B!GetDashboard(u) PROVE DashboardInv'
    BY <1>2, GitHubIsRead DEF B!GetDashboard
<1>3. ASSUME NEW u \in Users, B!GenerateDashboard(u) PROVE DashboardInv'
    BY <1>3, GitHubIsRead DEF B!GenerateDashboard
<1>4. ASSUME NEW u \in Users, B!Upsert(u) PROVE DashboardInv'
    <2> DEFINE k == call[u].key
               row == [there |-> TRUE, counted |-> call[u].counted, at |-> clock,
                       read |-> call[u].read, whole |-> call[u].whole]
    <2>1. /\ call[u] # B!Nothing /\ UNCHANGED <<clock, commits>>
          /\ cache' = [cache EXCEPT ![k] = row]
          /\ answer' = B!Wrong(k, row)
          /\ call' = [call EXCEPT ![u] = B!Nothing]
        BY <1>4 DEF B!Upsert
    <2>2. call[u] \in Calls /\ Counts(k, call[u])
        BY <1>0, <2>1 DEF DashboardTypes, CallsCount
    <2>3. k \in Orgs /\ row \in B!Stats
        BY <1>0, <2>2 DEF Calls, B!Stats, DashboardTypes
    <2>4. Counts(k, row) /\ row.at = clock /\ row.read <= row.at
        BY <2>2 DEF Counts
    <2>5. answer' = {}
        <3>1. clock < clock + Fresh
            BY <1>0
        <3>2. clock < row.at + Fresh
            BY <3>1
        <3> HIDE DEF k, row
        <3>3. B!Wrong(k, row) = {}
            BY <1>0, <2>3, <2>4, <3>2, NothingWrong
        <3> QED  BY <2>1, <3>3
    <2>6. /\ cache' \in [Orgs -> {B!Nothing} \union B!Stats]
          /\ cache'[k] = row /\ \A o \in Orgs : o # k => cache'[o] = cache[o]
        BY <1>0, <2>1, <2>3 DEF DashboardTypes
    <2>7. /\ call' \in [Users -> {B!Nothing} \union Calls]
          /\ call'[u] = B!Nothing /\ \A v \in Users : v # u => call'[v] = call[v]
        BY <1>0, <2>1 DEF DashboardTypes
    <2>8. RowsCount'
        BY <1>0, <2>1, <2>4, <2>6 DEF RowsCount, Counts
    <2>9. CallsCount'
        BY <1>0, <2>1, <2>7 DEF CallsCount, Counts
    <2> QED  BY <1>0, <2>1, <2>5, <2>6, <2>7, <2>8, <2>9 DEF DashboardInv, DashboardTypes,
                                                             B!AnswersAreRecent
<1>5. ASSUME B!Tick, UNCHANGED <<cache, call, answer>>,
             commits' = commits \/ \E o \in Orgs : commits' = commits \union {<<o, clock + 1>>}
      PROVE  DashboardInv'
    <2>1. clock' = clock + 1 /\ clock' \in B!Clock
        BY <1>0, <1>5 DEF B!Tick, B!Clock
    <2>2. commits' \in SUBSET B!Commits
        BY <1>0, <1>5, <2>1 DEF DashboardTypes, B!Commits
    <2>3. ASSUME NEW c \in commits', c \notin commits PROVE c[2] = clock + 1
        BY <1>5, <2>3
    <2>4. ASSUME NEW o \in Orgs, cache[o] # B!Nothing
          PROVE  Counts(o, cache[o])' /\ cache[o].read <= cache[o].at /\ cache[o].at <= clock'
        <3>1. cache[o] \in B!Stats
            BY <1>0, <2>4 DEF DashboardTypes
        <3>2. cache[o].read \in B!Clock /\ cache[o].at \in B!Clock
            BY <3>1 DEF B!Stats
        <3>3. Counts(o, cache[o]) /\ cache[o].read <= cache[o].at /\ cache[o].at <= clock
            BY <1>0, <2>4 DEF RowsCount
        <3>4. cache' = cache
            BY <1>5
        <3>5. cache[o].at <= clock'
            BY <1>0, <2>1, <3>2, <3>3 DEF B!Clock
        <3> QED  BY <1>0, <2>1, <2>3, <3>2, <3>3, <3>4, <3>5 DEF Counts, B!Clock
    <2>5. ASSUME NEW u \in Users, call[u] # B!Nothing PROVE Counts(call[u].key, call[u])'
        <3>1. call[u] \in Calls
            BY <1>0, <2>5 DEF DashboardTypes
        <3>2. call[u].read \in B!Clock
            BY <3>1 DEF Calls
        <3>3. Counts(call[u].key, call[u])
            BY <1>0, <2>5 DEF CallsCount
        <3>4. call' = call
            BY <1>5
        <3> QED  BY <1>0, <2>1, <2>3, <3>2, <3>3, <3>4 DEF Counts, B!Clock
    <2>6. RowsCount' /\ CallsCount'
        BY <1>5, <2>4, <2>5 DEF RowsCount, CallsCount
    <2> QED  BY <1>0, <1>5, <2>1, <2>2, <2>6 DEF DashboardInv, DashboardTypes, B!AnswersAreRecent
<1>6. ASSUME NEW o \in Orgs, B!Commit(o) PROVE DashboardInv'
    BY <1>5, <1>6 DEF B!Commit
<1>7. CASE B!Wait
    BY <1>5, <1>7 DEF B!Wait
<1> QED  BY <1>1, <1>2, <1>3, <1>4, <1>6, <1>7 DEF B!Next

LEMMA DashboardBegins == B!Init => DashboardInv
BY ProgressConstants DEF B!Init, DashboardInv, DashboardTypes, B!Clock, RowsCount, CallsCount,
                         B!AnswersAreRecent, B!Commits

LEMMA DashboardHolds == DashboardInv => B!TypeOK /\ B!AnswersAreRecent
<1> SUFFICES ASSUME DashboardInv PROVE B!TypeOK
    BY DEF DashboardInv
<1>1. ASSUME NEW u \in Users, call[u] # B!Nothing PROVE call[u].key \in Orgs /\ call[u].read <= clock
    BY <1>1 DEF DashboardInv, DashboardTypes, Calls, CallsCount, Counts
<1>2. ASSUME NEW o \in Orgs, cache[o] # B!Nothing
      PROVE  cache[o] \in B!Stats /\ cache[o].read <= cache[o].at /\ cache[o].at <= clock
    BY <1>2 DEF DashboardInv, DashboardTypes, RowsCount
<1> QED  BY <1>1, <1>2 DEF DashboardInv, DashboardTypes, B!TypeOK

-----------------------------------------------------------------------------
(* The composition: the part that goes on keeps its invariant, the others  *)
(* stand still.                                                            *)

LEMMA DigestsRest == DigestInv /\ UNCHANGED digests => DigestInv'
<1> SUFFICES ASSUME DigestInv, UNCHANGED digests PROVE DigestInv'
    OBVIOUS
<1>1. /\ hour' = hour /\ pref' = pref /\ lock' = lock /\ fired' = fired /\ batch' = batch
      /\ started' = started /\ mails' = mails
    BY DEF digests
<1>2. D!Active' = D!Active
    BY <1>1 DEF D!Active
<1>3. \A p \in Prefs, j \in Jobs, h \in D!Hours : Pending(p, j, h)' = Pending(p, j, h)
    BY <1>1, <1>2 DEF Pending
<1>4. AllOwed'
    BY <1>1, <1>3 DEF DigestInv, AllOwed, Owed
<1> QED  BY <1>1, <1>2, <1>4 DEF DigestInv, DigestTypes, Locked, Listed

LEMMA SummariesRest == SummaryInv /\ UNCHANGED summaries => SummaryInv'
BY DEF summaries, SummaryInv, SummaryTypes, RunsKnow, UpToIts, S!SeenIsCovered, S!Covers

LEMMA DashboardRests == DashboardInv /\ UNCHANGED dashboard => DashboardInv'
BY DEF dashboard, DashboardInv, DashboardTypes, RowsCount, CallsCount, Counts, B!AnswersAreRecent

\* Digests: types, and in an hour a preference gets at most as many mails as
\* batches ran for it, whatever processes share the hour, crash and start again.
THEOREM MailsBounded == Spec => []MailsBoundedByBatches
<1>1. Init => DigestInv
    BY DigestsBegin DEF Init
<1>2. DigestInv /\ [Next]_<<part, digests, summaries, dashboard, activity, agentChat>> => DigestInv'
    BY DigestsStay, DigestsRest DEF Next
<1>3. DigestInv => MailsBoundedByBatches
    BY DigestsHold DEF MailsBoundedByBatches
<1> QED  BY <1>1, <1>2, <1>3, PTL DEF Spec

\* Summaries: types, and the date that keeps the job from looking again is only
\* stored with a text that knows the period's commits up to it, when no
\* repository fails to answer.
THEOREM SeenCovered == ~Unreliable => (Spec => []SeenIsCovered)
<1> SUFFICES ASSUME ~Unreliable PROVE Spec => []SeenIsCovered
    OBVIOUS
<1>1. Init => SummaryInv
    BY SummariesBegin DEF Init
<1>2. SummaryInv /\ [Next]_<<part, digests, summaries, dashboard, activity, agentChat>> => SummaryInv'
    BY SummariesStay, SummariesRest DEF Next
<1>3. SummaryInv => SeenIsCovered
    BY SummariesHold DEF SeenIsCovered
<1> QED  BY <1>1, <1>2, <1>3, PTL DEF Spec

\* Dashboard: types, and an answer comes from a row stored less than Fresh ago
\* that misses no commit its organization had when GitHub was read.
THEOREM AnswersRecent == Spec => []AnswersAreRecent
<1>1. Init => DashboardInv
    BY DashboardBegins DEF Init
<1>2. DashboardInv /\ [Next]_<<part, digests, summaries, dashboard, activity, agentChat>> => DashboardInv'
    BY DashboardStays, DashboardRests DEF Next
<1>3. DashboardInv => AnswersAreRecent
    BY DashboardHolds DEF AnswersAreRecent
<1> QED  BY <1>1, <1>2, <1>3, PTL DEF Spec

-----------------------------------------------------------------------------
(* Chat.  What a turn shows as live was read for its user, and a product's  *)
(* entry without content is no older than the last time nothing was read.   *)

Shows == UNION {[some -> SUBSET ChatRepos] : some \in SUBSET Chat!Sections}
Turns == [pc: {"context", "model", "tool", "over"}, repos: SUBSET ChatRepos, shown: Shows,
          asking: {"none"} \cup Chat!Sections, graphs: BOOLEAN, calls: 0 .. Rounds + 1,
          seen: SUBSET ChatRepos]
LiveEntries == [user: Users, names: SUBSET ChatRepos, of: SUBSET ChatRepos, left: 1 .. LiveTime]

TurnFits(u, t) ==
    /\ t \in Turns /\ Cardinality(t.repos) <= Reach /\ t.seen \subseteq t.repos
    /\ "live" \in DOMAIN t.shown =>
          t.shown["live"] \subseteq t.repos /\ (t.shown["live"] # {} => u \in Readers)

ListFits(list) ==
    /\ list \in Seq(ChatRepos)
    /\ \A i, j \in 1 .. Len(list) : list[i] = list[j] => i = j

LiveFits(entries) ==
    /\ entries \subseteq LiveEntries
    /\ \A e \in entries : e.of \subseteq e.names /\ e.user \in Readers
    /\ \A e, f \in entries : e.user = f.user /\ e.names = f.names => e = f

KeptFits(all, missing) ==
    /\ all \in [Caches -> Chat!Entries] /\ missing \in [Caches -> 0 .. KeptTime]
    /\ \A k \in Caches : all[k].left > 0 /\ all[k].of = {} => missing[k] >= all[k].left

TurnsFit(turns) ==
    /\ turns \in [Users -> Turns \cup {Chat!Idle}]
    /\ \A u \in Users : turns[u] # Chat!Idle => TurnFits(u, turns[u])

ChatInv ==
    /\ ListFits(connected) /\ graph \subseteq ChatRepos
    /\ LiveFits(live) /\ KeptFits(kept, bare) /\ TurnsFit(turn)

\* No code is shown that was not a while ago.
MissingStep ==
    \A u \in Users, k \in Caches :
        Chat!Sees(u, k)' /\ ~Chat!Sees(u, k) /\ turn'[u].shown[k] = {} => bare'[k] > 0

LEMMA ChatCounts == \A M : Chat!Cardinality(M) = Cardinality(M)
BY DEF Chat!Cardinality, Cardinality, Chat!IsFiniteSet, IsFiniteSet

LEMMA IdleTurn == Chat!Idle.pc = "idle" /\ \A t \in Turns : t.pc # "idle" /\ t # Chat!Idle
BY DEF Chat!Idle, Turns

LEMMA SectionsAre ==
    /\ Chat!Sections = Caches \cup {"live"} /\ "live" \notin Caches /\ "none" \notin Chat!Sections
    /\ LiveTime \in Nat \ {0} /\ KeptTime \in Nat \ {0} /\ Reach \in Nat /\ Rounds \in Nat
BY ChatConstants DEF Chat!Sections

\* A turn that does something is under way.
LEMMA TurnIs ==
    ASSUME ChatInv, NEW u \in Users, turn[u].pc # "idle"
    PROVE  turn[u] # Chat!Idle /\ turn[u] \in Turns /\ TurnFits(u, turn[u])
BY IdleTurn DEF ChatInv, TurnsFit

\* One turn goes on, or is over.
LEMMA TurnGoes ==
    ASSUME ChatInv, NEW u \in Users, NEW t, t = Chat!Idle \/ TurnFits(u, t),
           turn' = [turn EXCEPT ![u] = t], UNCHANGED <<connected, graph>>,
           LiveFits(live'), KeptFits(kept', bare'),
           \A k \in Caches : t # Chat!Idle /\ k \in DOMAIN t.shown /\ t.shown[k] = {} =>
              bare'[k] > 0 \/ (turn[u] # Chat!Idle /\ k \in DOMAIN turn[u].shown)
    PROVE  ChatInv' /\ MissingStep
<1>1. /\ turn' \in [Users -> Turns \cup {Chat!Idle}] /\ turn'[u] = t
      /\ \A v \in Users : v # u => turn'[v] = turn[v]
    BY DEF ChatInv, TurnsFit, TurnFits
<1>2. TurnsFit(turn')
    BY <1>1 DEF ChatInv, TurnsFit
<1>3. ChatInv'
    BY <1>2 DEF ChatInv
<1>4. MissingStep
    <2> SUFFICES ASSUME NEW v \in Users, NEW k \in Caches,
                        Chat!Sees(v, k)', ~Chat!Sees(v, k), turn'[v].shown[k] = {}
                 PROVE  bare'[k] > 0
        BY DEF MissingStep
    <2>1. turn'[v] # Chat!Idle /\ k \in DOMAIN turn'[v].shown
          /\ ~(turn[v] # Chat!Idle /\ k \in DOMAIN turn[v].shown)
        BY DEF Chat!Sees
    <2>2. v = u
        BY <1>1, <2>1
    <2> QED  BY <1>1, <2>1, <2>2
<1> QED  BY <1>3, <1>4

\* So it is when only pc, calls and seen change.
LEMMA TurnMoves ==
    ASSUME ChatInv, NEW u \in Users, NEW t, t = Chat!Idle \/ TurnFits(u, t),
           t # Chat!Idle => turn[u] # Chat!Idle /\ DOMAIN t.shown \subseteq DOMAIN turn[u].shown,
           turn' = [turn EXCEPT ![u] = t], UNCHANGED <<connected, graph, live, kept, bare>>
    PROVE  ChatInv' /\ MissingStep
<1>1. LiveFits(live') /\ KeptFits(kept', bare')
    BY DEF ChatInv
<1> QED  BY <1>1, TurnGoes

LEMMA NothingIs == Chat!Nothing \in Shows /\ DOMAIN Chat!Nothing = {}
<1>1. Chat!Nothing \in [{} -> SUBSET ChatRepos] /\ DOMAIN Chat!Nothing = {}
    BY DEF Chat!Nothing
<1>2. {} \in SUBSET Chat!Sections
    OBVIOUS
<1> QED  BY <1>1, <1>2 DEF Shows

LEMMA Showing ==
    ASSUME NEW u, NEW t, TurnFits(u, t), NEW s \in Chat!Sections, NEW of \in SUBSET ChatRepos,
           s = "live" => of \subseteq t.repos /\ (of # {} => u \in Readers)
    PROVE  /\ TurnFits(u, Chat!Show(t, s, of)) /\ Chat!Show(t, s, of) # Chat!Idle
           /\ DOMAIN Chat!Show(t, s, of).shown = DOMAIN t.shown \cup {s}
           /\ Chat!Show(t, s, of).shown[s] = of
<1>1. PICK new : new = [x \in DOMAIN t.shown \cup {s} |-> IF x = s THEN of ELSE t.shown[x]]
    OBVIOUS
<1>2. Chat!Show(t, s, of) = [t EXCEPT !.shown = new, !.asking = "none"]
    BY <1>1 DEF Chat!Show
<1>3. t \in Turns /\ t.shown \in Shows
    BY DEF TurnFits, Turns
<1>4. PICK some \in SUBSET Chat!Sections : t.shown \in [some -> SUBSET ChatRepos]
    BY <1>3 DEF Shows
<1>5. new \in [some \cup {s} -> SUBSET ChatRepos] /\ some \cup {s} \in SUBSET Chat!Sections
    BY <1>1, <1>4
<1>6. new \in Shows
    BY <1>5 DEF Shows
<1>7. PICK n : n = Chat!Show(t, s, of)
    OBVIOUS
<1>8. n \in Turns /\ n.shown = new /\ n.repos = t.repos /\ n.seen = t.seen
    BY <1>2, <1>3, <1>6, <1>7 DEF Turns
<1>9. /\ DOMAIN new = DOMAIN t.shown \cup {s} /\ new[s] = of
      /\ \A x \in DOMAIN t.shown : x # s => new[x] = t.shown[x]
    BY <1>1
<1>10. "live" \in DOMAIN new =>
          new["live"] \subseteq t.repos /\ (new["live"] # {} => u \in Readers)
    BY <1>9 DEF TurnFits
<1>11. TurnFits(u, n)
    BY <1>8, <1>10 DEF TurnFits
<1> QED  BY <1>7, <1>8, <1>9, <1>11, IdleTurn

LEMMA NewestAre ==
    ASSUME ListFits(connected)
    PROVE  Chat!Newest \subseteq ChatRepos /\ Cardinality(Chat!Newest) <= Reach
<1>1. PICK q, n : q = connected /\ n = IF Len(q) < Reach THEN Len(q) ELSE Reach
    OBVIOUS
<1>2. q \in Seq(ChatRepos) /\ n \in Nat /\ n <= Reach /\ 1 .. n \subseteq 1 .. Len(q) /\ Reach \in Nat
    BY <1>1, SectionsAre DEF ListFits
<1>3. PICK f : f = [i \in 1 .. n |-> q[i]]
    OBVIOUS
<1>4. Chat!Newest = {q[i] : i \in 1 .. n}
    BY <1>1 DEF Chat!Newest
<1>5. f \in Surjection(1 .. n, Chat!Newest)
    BY <1>3, <1>4 DEF Surjection
<1>6. IsFiniteSet(1 .. n) /\ Cardinality(1 .. n) = n
    BY <1>2, FS_Interval
<1>7. IsFiniteSet(Chat!Newest) /\ Cardinality(Chat!Newest) <= n
    BY <1>5, <1>6, FS_Surjection
<1>8. Chat!Newest \subseteq ChatRepos
    BY <1>2, <1>4
<1> QED  BY <1>2, <1>7, <1>8, FS_CardinalityType

LEMMA Begins == ASSUME ChatInv, NEW u \in Users, Chat!Begin(u) PROVE ChatInv' /\ MissingStep
<1>1. PICK g \in BOOLEAN : g = (\E r \in Chat!Range(connected) : r \in graph)
    OBVIOUS
<1>2. PICK t : t = [pc |-> "context", repos |-> Chat!Newest, shown |-> Chat!Nothing,
                    asking |-> "none", graphs |-> g, calls |-> 0, seen |-> {}]
    OBVIOUS
<1>3. turn' = [turn EXCEPT ![u] = t]
    BY <1>1, <1>2 DEF Chat!Begin
<1>4. Chat!Newest \subseteq ChatRepos /\ Cardinality(Chat!Newest) <= Reach
    BY NewestAre DEF ChatInv
<1>5. t \in Turns /\ t.repos = Chat!Newest /\ t.seen = {} /\ t.shown = Chat!Nothing
    BY <1>2, <1>4, NothingIs, SectionsAre DEF Turns
<1>6. TurnFits(u, t) /\ DOMAIN t.shown = {}
    BY <1>4, <1>5, NothingIs DEF TurnFits
<1>7. LiveFits(live') /\ KeptFits(kept', bare') /\ UNCHANGED <<connected, graph>>
    BY DEF ChatInv, Chat!Begin
<1> QED  BY <1>3, <1>6, <1>7, TurnGoes

\* The turn goes on from one that differs in where it is, what it has seen and counted.
LEMMA Steps ==
    ASSUME NEW u, NEW t, TurnFits(u, t), NEW n,
           n \in Turns, n.repos = t.repos, n.seen \subseteq n.repos,
           n.shown = t.shown \/ n.shown = Chat!Nothing
    PROVE  TurnFits(u, n) /\ n # Chat!Idle /\ DOMAIN n.shown \subseteq DOMAIN t.shown
BY IdleTurn, NothingIs DEF TurnFits

LEMMA Completes ==
    ASSUME ChatInv, NEW u \in Users, Chat!ContextDone(u) PROVE ChatInv' /\ MissingStep
<1>1. PICK n : n = [turn[u] EXCEPT !.pc = "model", !.shown = Chat!Nothing]
    OBVIOUS
<1>2. turn' = [turn EXCEPT ![u] = n] /\ turn[u].pc = "context"
    BY <1>1 DEF Chat!ContextDone
<1>3. turn[u] # Chat!Idle /\ turn[u] \in Turns /\ TurnFits(u, turn[u])
    BY <1>2, TurnIs
<1>4. /\ n \in Turns /\ n.repos = turn[u].repos /\ n.shown = Chat!Nothing
      /\ n.seen \subseteq n.repos
    BY <1>1, <1>3, NothingIs DEF Turns, TurnFits
<1>5. TurnFits(u, n) /\ n # Chat!Idle /\ DOMAIN n.shown \subseteq DOMAIN turn[u].shown
    BY <1>3, <1>4, Steps
<1>6. UNCHANGED <<connected, graph, live, kept, bare>>
    BY DEF Chat!ContextDone
<1> QED  BY <1>2, <1>3, <1>5, <1>6, TurnMoves

LEMMA CallsTools == ASSUME ChatInv, NEW u \in Users, Chat!UsesTools(u) PROVE ChatInv' /\ MissingStep
<1>1. PICK n : n = [turn[u] EXCEPT !.pc = "tool", !.calls = @ + 1]
    OBVIOUS
<1>2. turn' = [turn EXCEPT ![u] = n] /\ turn[u].pc = "model" /\ turn[u].calls <= Rounds
    BY <1>1 DEF Chat!UsesTools
<1>3. turn[u] # Chat!Idle /\ turn[u] \in Turns /\ TurnFits(u, turn[u])
    BY <1>2, TurnIs
<1>4. turn[u].calls + 1 \in 0 .. Rounds + 1
    BY <1>2, <1>3, SectionsAre DEF Turns
<1>5. n \in Turns /\ n.repos = turn[u].repos /\ n.shown = turn[u].shown /\ n.seen \subseteq n.repos
    BY <1>1, <1>3, <1>4 DEF Turns, TurnFits
<1>6. TurnFits(u, n) /\ n # Chat!Idle /\ DOMAIN n.shown \subseteq DOMAIN turn[u].shown
    BY <1>3, <1>5, Steps
<1>7. UNCHANGED <<connected, graph, live, kept, bare>>
    BY DEF Chat!UsesTools
<1> QED  BY <1>2, <1>3, <1>6, <1>7, TurnMoves

\* A tool shows a repository that is within reach, or nothing.
LEMMA ToolShows ==
    ASSUME ChatInv, NEW u \in Users, turn[u].pc = "tool", NEW t, Chat!ToolDone(u, t),
           t = turn[u] \/ \E r \in turn[u].repos :
                             t = [turn[u] EXCEPT !.seen = turn[u].seen \cup {r}]
    PROVE  ChatInv' /\ MissingStep
<1>1. turn[u] # Chat!Idle /\ turn[u] \in Turns /\ TurnFits(u, turn[u])
    BY TurnIs
<1>2. t \in Turns /\ t.repos = turn[u].repos /\ t.shown = turn[u].shown /\ t.seen \subseteq t.repos
    <2>1. CASE t = turn[u]
        BY <1>1, <2>1 DEF TurnFits
    <2>2. CASE \E r \in turn[u].repos : t = [turn[u] EXCEPT !.seen = turn[u].seen \cup {r}]
        <3>1. PICK r \in turn[u].repos : t = [turn[u] EXCEPT !.seen = turn[u].seen \cup {r}]
            BY <2>2
        <3>2. PICK s : s = turn[u].seen \cup {r}
            OBVIOUS
        <3>3. turn[u].seen \subseteq turn[u].repos /\ turn[u].repos \subseteq ChatRepos
            BY <1>1 DEF TurnFits, Turns
        <3>4. s \subseteq turn[u].repos /\ s \in SUBSET ChatRepos
            BY <3>2, <3>3
        <3> QED  BY <1>1, <3>1, <3>2, <3>4 DEF Turns
    <2> QED  BY <2>1, <2>2
<1>3. PICK p \in {"over", "model"} : p = IF t.calls > Rounds THEN "over" ELSE "model"
    OBVIOUS
<1>4. PICK n : n = [t EXCEPT !.pc = p]
    OBVIOUS
<1>5. turn' = [turn EXCEPT ![u] = n] /\ UNCHANGED <<connected, graph, live, kept, bare>>
    BY <1>3, <1>4 DEF Chat!ToolDone
<1>6. n \in Turns /\ n.repos = turn[u].repos /\ n.shown = turn[u].shown /\ n.seen \subseteq n.repos
    BY <1>2, <1>4 DEF Turns
<1>7. TurnFits(u, n) /\ n # Chat!Idle /\ DOMAIN n.shown \subseteq DOMAIN turn[u].shown
    BY <1>1, <1>6, Steps
<1> QED  BY <1>1, <1>5, <1>7, TurnMoves

LEMMA Reads ==
    ASSUME ChatInv, NEW u \in Users, NEW r, Chat!ReadFile(u, r) PROVE ChatInv' /\ MissingStep
<1>1. PICK t : t = IF r \in turn[u].repos /\ u \in Readers
                   THEN [turn[u] EXCEPT !.seen = turn[u].seen \cup {r}] ELSE turn[u]
    OBVIOUS
<1>2. turn[u].pc = "tool" /\ Chat!ToolDone(u, t)
    BY <1>1 DEF Chat!ReadFile
<1>3. t = turn[u] \/ \E x \in turn[u].repos : t = [turn[u] EXCEPT !.seen = turn[u].seen \cup {x}]
    BY <1>1
<1> QED  BY <1>2, <1>3, ToolShows

LEMMA Queries ==
    ASSUME ChatInv, NEW u \in Users, NEW r, Chat!QueryGraph(u, r) PROVE ChatInv' /\ MissingStep
<1>1. PICK t : t = IF Chat!Accessible(u, r)
                   THEN [turn[u] EXCEPT !.seen = turn[u].seen \cup {r}] ELSE turn[u]
    OBVIOUS
<1>2. turn[u].pc = "tool" /\ Chat!ToolDone(u, t)
    BY <1>1 DEF Chat!QueryGraph
<1>3. t = turn[u] \/ \E x \in turn[u].repos : t = [turn[u] EXCEPT !.seen = turn[u].seen \cup {x}]
    BY <1>1 DEF Chat!Accessible
<1> QED  BY <1>2, <1>3, ToolShows

LEMMA Ends == ASSUME ChatInv, NEW u \in Users, Chat!End(u) PROVE ChatInv' /\ MissingStep
<1>1. turn' = [turn EXCEPT ![u] = Chat!Idle] /\ UNCHANGED <<connected, graph, live, kept, bare>>
    BY DEF Chat!End
<1> QED  BY <1>1, TurnMoves

LEMMA AsksGitHub ==
    ASSUME ChatInv, NEW u \in Users, NEW s \in Chat!Sections, Chat!AskGitHub(u, s)
    PROVE  ChatInv' /\ MissingStep
<1>1. PICK n : n = [turn[u] EXCEPT !.asking = s]
    OBVIOUS
<1>2. turn' = [turn EXCEPT ![u] = n] /\ turn[u].pc = "context"
    BY <1>1 DEF Chat!AskGitHub
<1>3. turn[u] # Chat!Idle /\ turn[u] \in Turns /\ TurnFits(u, turn[u])
    BY <1>2, TurnIs
<1>4. n \in Turns /\ n.repos = turn[u].repos /\ n.shown = turn[u].shown /\ n.seen \subseteq n.repos
    BY <1>1, <1>3 DEF Turns, TurnFits
<1>5. TurnFits(u, n) /\ n # Chat!Idle /\ DOMAIN n.shown \subseteq DOMAIN turn[u].shown
    BY <1>3, <1>4, Steps
<1>6. UNCHANGED <<connected, graph, live, kept, bare>>
    BY DEF Chat!AskGitHub
<1> QED  BY <1>2, <1>3, <1>5, <1>6, TurnMoves

\* A section comes into the context.
LEMMA ShowsOne ==
    ASSUME ChatInv, NEW u \in Users, turn[u].pc = "context",
           NEW s \in Chat!Sections, NEW of \in SUBSET ChatRepos,
           s = "live" => of \subseteq turn[u].repos /\ (of # {} => u \in Readers),
           turn' = [turn EXCEPT ![u] = Chat!Show(turn[u], s, of)], UNCHANGED <<connected, graph>>,
           LiveFits(live'), KeptFits(kept', bare'),
           s \in Caches /\ of = {} => bare'[s] > 0
    PROVE  ChatInv' /\ MissingStep
<1>1. turn[u] # Chat!Idle /\ TurnFits(u, turn[u])
    BY TurnIs
<1>2. PICK t : t = Chat!Show(turn[u], s, of)
    OBVIOUS
<1>3. TurnFits(u, t) /\ DOMAIN t.shown = DOMAIN turn[u].shown \cup {s} /\ t.shown[s] = of
    BY <1>1, <1>2, Showing
<1>4. turn' = [turn EXCEPT ![u] = t]
    BY <1>2
<1>5. ASSUME NEW k \in Caches, t # Chat!Idle, k \in DOMAIN t.shown, t.shown[k] = {}
      PROVE  bare'[k] > 0 \/ (turn[u] # Chat!Idle /\ k \in DOMAIN turn[u].shown)
    <2>1. CASE k = s
        BY <1>3, <1>5, <2>1
    <2>2. CASE k # s
        BY <1>1, <1>3, <1>5, <2>2
    <2> QED  BY <2>1, <2>2
<1> QED  BY <1>3, <1>4, <1>5, TurnGoes

LEMMA TakesCached ==
    ASSUME ChatInv, NEW u \in Users, NEW s \in Chat!Sections, Chat!UseCache(u, s)
    PROVE  ChatInv' /\ MissingStep
<1>1. PICK of \in Chat!Cached(u, s) : turn' = [turn EXCEPT ![u] = Chat!Show(turn[u], s, of)]
    BY DEF Chat!UseCache
<1>2. turn[u].pc = "context" /\ UNCHANGED <<connected, graph, live, kept, bare>>
    BY DEF Chat!UseCache
<1>3. LiveFits(live) /\ KeptFits(kept, bare) /\ LiveFits(live') /\ KeptFits(kept', bare')
    BY <1>2 DEF ChatInv
<1>4. CASE s = "live"
    <2>1. PICK e \in live : e.user = u /\ e.names = turn[u].repos /\ e.of = of
        BY <1>1, <1>4 DEF Chat!Cached, Chat!LiveFor
    <2>2. of \in SUBSET ChatRepos /\ of \subseteq turn[u].repos /\ u \in Readers
        BY <1>3, <2>1 DEF LiveFits, LiveEntries
    <2> QED  BY <1>1, <1>2, <1>3, <1>4, <2>2, SectionsAre, ShowsOne
<1>5. CASE s # "live"
    <2>1. s \in Caches /\ kept[s].left > 0 /\ of = kept[s].of
        BY <1>1, <1>5, SectionsAre DEF Chat!Cached, Chat!Kept
    <2>2. /\ kept[s] \in Chat!Entries /\ bare[s] \in 0 .. KeptTime
          /\ kept[s].left > 0 /\ kept[s].of = {} => bare[s] >= kept[s].left
        BY <1>3, <2>1 DEF KeptFits
    <2>3. of \in SUBSET ChatRepos /\ kept[s].left \in Nat
        BY <2>1, <2>2, SectionsAre DEF Chat!Entries
    <2>4. of = {} => bare[s] > 0
        BY <2>1, <2>2, <2>3, SectionsAre
    <2>5. of = {} => bare'[s] > 0
        BY <1>2, <2>4
    <2> QED  BY <1>1, <1>2, <1>3, <1>5, <2>3, <2>5, ShowsOne
<1> QED  BY <1>4, <1>5

LEMMA AnswersAre ==
    ASSUME NEW u, NEW of \in Chat!Answers(u), turn[u] \in Turns
    PROVE  of \in SUBSET ChatRepos /\ of \subseteq turn[u].repos /\ (of # {} => u \in Readers)
BY DEF Chat!Answers, Turns

\* An entry takes the place of those for the same user and repositories.
LEMMA Enters ==
    ASSUME NEW E, LiveFits(E), NEW u \in Users, u \in Readers, NEW list \in SUBSET ChatRepos,
           NEW of \in SUBSET list, NEW F,
           F = (E \ {e \in E : e.user = u /\ e.names = list})
                  \cup {[user |-> u, names |-> list, of |-> of, left |-> LiveTime]}
    PROVE  LiveFits(F)
<1>1. PICK n : n = [user |-> u, names |-> list, of |-> of, left |-> LiveTime]
    OBVIOUS
<1>2. n \in LiveEntries /\ n.user = u /\ n.names = list /\ n.of = of
    BY <1>1, SectionsAre DEF LiveEntries
<1>3. \A e \in F : e = n \/ (e \in E /\ ~(e.user = u /\ e.names = list))
    BY <1>1
<1> QED  BY <1>2, <1>3 DEF LiveFits

LEMMA FetchesLive ==
    ASSUME ChatInv, NEW u \in Users, NEW of, Chat!FetchedLive(u, of) PROVE ChatInv' /\ MissingStep
<1>1. /\ turn[u].pc = "context" /\ of \in Chat!Answers(u)
      /\ turn' = [turn EXCEPT ![u] = Chat!Show(turn[u], "live", of)]
      /\ UNCHANGED <<connected, graph, kept, bare>>
    BY DEF Chat!FetchedLive
<1>2. turn[u] \in Turns
    BY <1>1, TurnIs
<1>3. of \in SUBSET ChatRepos /\ of \subseteq turn[u].repos /\ (of # {} => u \in Readers)
    BY <1>1, <1>2, AnswersAre
<1>4. LiveFits(live) /\ KeptFits(kept, bare) /\ KeptFits(kept', bare')
    BY <1>1 DEF ChatInv
<1>5. CASE of = {}
    <2>1. live' = live
        BY <1>5 DEF Chat!FetchedLive
    <2>2. LiveFits(live')
        BY <1>4, <2>1
    <2> QED  BY <1>1, <1>3, <1>4, <2>2, SectionsAre, ShowsOne
<1>6. CASE of # {}
    <2>1. PICK list : list = turn[u].repos
        OBVIOUS
    <2>2. list \in SUBSET ChatRepos /\ of \in SUBSET list /\ u \in Readers
        BY <1>2, <1>3, <1>6, <2>1 DEF Turns
    <2>3. live' = (live \ {e \in live : e.user = u /\ e.names = list})
                     \cup {[user |-> u, names |-> list, of |-> of, left |-> LiveTime]}
        BY <1>6, <2>1 DEF Chat!FetchedLive, Chat!LiveFor
    <2>4. PICK F : F = live'
        OBVIOUS
    <2>5. LiveFits(F)
        BY <1>4, <2>2, <2>3, <2>4, Enters
    <2> QED  BY <1>1, <1>3, <1>4, <2>4, <2>5, SectionsAre, ShowsOne
<1> QED  BY <1>5, <1>6

LEMMA FetchesCode ==
    ASSUME ChatInv, NEW u \in Users, NEW k \in Caches, NEW of, Chat!FetchedCode(u, k, of)
    PROVE  ChatInv' /\ MissingStep
<1>1. /\ turn[u].pc = "context" /\ of \in Chat!Answers(u)
      /\ turn' = [turn EXCEPT ![u] = Chat!Show(turn[u], k, of)]
      /\ kept' = [kept EXCEPT ![k] = [of |-> of, left |-> KeptTime]]
      /\ bare' = [bare EXCEPT ![k] = IF of = {} THEN KeptTime ELSE bare[k]]
      /\ UNCHANGED <<connected, graph, live>>
    BY DEF Chat!FetchedCode
<1>2. turn[u] \in Turns
    BY <1>1, TurnIs
<1>3. of \in SUBSET ChatRepos
    BY <1>1, <1>2, AnswersAre
<1>4. LiveFits(live') /\ KeptFits(kept, bare)
    BY <1>1 DEF ChatInv
<1>5. PICK e : e = [of |-> of, left |-> KeptTime]
    OBVIOUS
<1>6. e \in Chat!Entries /\ e.of = of /\ e.left = KeptTime
    BY <1>3, <1>5, SectionsAre DEF Chat!Entries
<1>7. PICK b \in 0 .. KeptTime : b = IF of = {} THEN KeptTime ELSE bare[k]
    BY <1>4, SectionsAre DEF KeptFits
<1>8. /\ kept' \in [Caches -> Chat!Entries] /\ bare' \in [Caches -> 0 .. KeptTime]
      /\ kept'[k] = e /\ bare'[k] = b
      /\ \A x \in Caches : x # k => kept'[x] = kept[x] /\ bare'[x] = bare[x]
    BY <1>1, <1>4, <1>5, <1>6, <1>7 DEF KeptFits
<1>9. KeptFits(kept', bare')
    <2> SUFFICES ASSUME NEW x \in Caches, kept'[x].left > 0, kept'[x].of = {}
                 PROVE  bare'[x] >= kept'[x].left
        BY <1>8 DEF KeptFits
    <2>1. CASE x = k
        BY <1>6, <1>7, <1>8, <2>1, SectionsAre
    <2>2. CASE x # k
        BY <1>4, <1>8, <2>2 DEF KeptFits
    <2> QED  BY <2>1, <2>2
<1>10. of = {} => bare'[k] > 0
    BY <1>7, <1>8, SectionsAre
<1>11. k \in Chat!Sections /\ k # "live"
    BY SectionsAre
<1> QED  BY <1>1, <1>3, <1>4, <1>9, <1>10, <1>11, ShowsOne

\* The rest of the program's life: no turn gets to see more.
LEMMA TurnsRest ==
    ASSUME ChatInv, UNCHANGED turn, ListFits(connected'), graph' \subseteq ChatRepos,
           LiveFits(live'), KeptFits(kept', bare')
    PROVE  ChatInv' /\ MissingStep
BY DEF ChatInv, MissingStep, Chat!Sees

LEMMA Connects ==
    ASSUME ChatInv, NEW r \in ChatRepos, Chat!Connect(r) PROVE ChatInv' /\ MissingStep
<1>1. PICK q, p : q = connected /\ p = connected'
    OBVIOUS
<1>2. /\ q \in Seq(ChatRepos) /\ p = <<r>> \o q
      /\ \A i, j \in 1 .. Len(q) : q[i] = q[j] => i = j
      /\ \A i \in 1 .. Len(q) : q[i] # r
    BY <1>1 DEF ChatInv, ListFits, Chat!Connect, Chat!Range
<1>3. /\ p \in Seq(ChatRepos) /\ Len(p) = Len(q) + 1 /\ p[1] = r
      /\ \A i \in 2 .. Len(p) : p[i] = q[i - 1] /\ i - 1 \in 1 .. Len(q)
    BY <1>2
<1>4. ASSUME NEW i \in 1 .. Len(p), NEW j \in 1 .. Len(p), p[i] = p[j] PROVE i = j
    <2>1. CASE i = 1
        BY <1>2, <1>3, <1>4, <2>1
    <2>2. CASE j = 1
        BY <1>2, <1>3, <1>4, <2>2
    <2>3. CASE i # 1 /\ j # 1
        <3>1. i - 1 \in 1 .. Len(q) /\ j - 1 \in 1 .. Len(q) /\ q[i - 1] = q[j - 1]
            BY <1>3, <1>4, <2>3
        <3>2. i - 1 = j - 1
            BY <1>2, <3>1
        <3> QED  BY <1>2, <3>2
    <2> QED  BY <2>1, <2>2, <2>3
<1>5. ListFits(p)
    BY <1>3, <1>4 DEF ListFits
<1>6. LiveFits(live') /\ KeptFits(kept', bare') /\ graph' \subseteq ChatRepos /\ UNCHANGED turn
    BY DEF ChatInv, Chat!Connect
<1> QED  BY <1>1, <1>5, <1>6, TurnsRest

LEMMA Disconnects ==
    ASSUME ChatInv, NEW r, Chat!Disconnect(r) PROVE ChatInv' /\ MissingStep
<1>1. PICK q, p : q = connected /\ p = connected'
    OBVIOUS
<1>2. PICK k \in DOMAIN q : p = Chat!RemoveAt(q, k)
    BY <1>1 DEF Chat!Disconnect
<1>3. q \in Seq(ChatRepos) /\ \A i, j \in 1 .. Len(q) : q[i] = q[j] => i = j
    BY <1>1 DEF ChatInv, ListFits
<1>4. p = SubSeq(q, 1, k - 1) \o SubSeq(q, k + 1, Len(q)) /\ k \in 1 .. Len(q)
    BY <1>2, <1>3 DEF Chat!RemoveAt
<1>5. PICK a, b : a = SubSeq(q, 1, k - 1) /\ b = SubSeq(q, k + 1, Len(q))
    OBVIOUS
<1>6. PICK n, m, z : n = Len(q) /\ m = k - 1 /\ z = k + 1
    OBVIOUS
<1>7. /\ n \in Nat /\ m \in Int /\ z \in Int /\ k \in 1 .. n /\ m = k - 1 /\ z = k + 1
      /\ \A i \in 1 .. n : q[i] \in ChatRepos
    BY <1>3, <1>4, <1>6
<1>8. a = SubSeq(q, 1, m) /\ b = SubSeq(q, z, n)
    BY <1>5, <1>6
<1>9. a \in Seq(ChatRepos) /\ Len(a) = m /\ \A i \in 1 .. m : a[i] = q[i]
    <2>1. \A i \in 1 .. m : q[i] \in ChatRepos
        BY <1>7
    <2>2. 1 \in Int /\ m \in Int
        BY <1>7
    <2>3. /\ SubSeq(q, 1, m) \in Seq(ChatRepos)
          /\ Len(SubSeq(q, 1, m)) = (IF 1 <= m THEN m - 1 + 1 ELSE 0)
          /\ \A i \in 1 .. m - 1 + 1 : SubSeq(q, 1, m)[i] = q[1 + i - 1]
        BY <2>1, <2>2, SubSeqProperties
    <2>4. /\ a \in Seq(ChatRepos) /\ Len(a) = (IF 1 <= m THEN m - 1 + 1 ELSE 0)
          /\ \A i \in 1 .. m - 1 + 1 : a[i] = q[1 + i - 1]
        BY <1>8, <2>3
    <2>5. Len(a) = m /\ \A i \in 1 .. m : i \in 1 .. m - 1 + 1 /\ 1 + i - 1 = i
        BY <1>7, <2>4
    <2>6. \A i \in 1 .. m : a[i] = q[i]
        BY <2>4, <2>5
    <2> QED  BY <2>4, <2>5, <2>6
<1>10. b \in Seq(ChatRepos) /\ Len(b) = n - k /\ \A i \in 1 .. n - k : b[i] = q[k + i]
    <2>1. \A i \in z .. n : q[i] \in ChatRepos
        BY <1>7
    <2>2. z \in Int /\ n \in Int
        BY <1>7
    <2>3. /\ SubSeq(q, z, n) \in Seq(ChatRepos)
          /\ Len(SubSeq(q, z, n)) = (IF z <= n THEN n - z + 1 ELSE 0)
          /\ \A i \in 1 .. n - z + 1 : SubSeq(q, z, n)[i] = q[z + i - 1]
        BY <2>1, <2>2, SubSeqProperties
    <2>4. /\ b \in Seq(ChatRepos) /\ Len(b) = (IF z <= n THEN n - z + 1 ELSE 0)
          /\ \A i \in 1 .. n - z + 1 : b[i] = q[z + i - 1]
        BY <1>8, <2>3
    <2>5. Len(b) = n - k /\ \A i \in 1 .. n - k : i \in 1 .. n - z + 1 /\ z + i - 1 = k + i
        BY <1>7, <2>4
    <2>6. \A i \in 1 .. n - k : b[i] = q[k + i]
        BY <2>4, <2>5
    <2> QED  BY <2>4, <2>5, <2>6
<1>11. /\ p \in Seq(ChatRepos) /\ Len(p) = n - 1
       /\ \A i \in 1 .. Len(p) : p[i] = q[IF i < k THEN i ELSE i + 1]
    <2>1. p = a \o b
        BY <1>4, <1>5
    <2>2. /\ p \in Seq(ChatRepos) /\ Len(p) = m + (n - k)
          /\ \A i \in 1 .. m + (n - k) : p[i] = IF i <= m THEN a[i] ELSE b[i - m]
        BY <1>9, <1>10, <2>1, ConcatProperties
    <2>3. Len(p) = n - 1
        BY <1>7, <2>2
    <2>4. ASSUME NEW i \in 1 .. Len(p) PROVE p[i] = q[IF i < k THEN i ELSE i + 1]
        <3> SUFFICES ASSUME n \in Nat, k \in 1 .. n, m = k - 1, i \in 1 .. n - 1
                     PROVE  p[i] = q[IF i < k THEN i ELSE i + 1]
            BY <1>7, <2>3
        <3>1. CASE i < k
            <4>1. i \in 1 .. m /\ i \in 1 .. m + (n - k) /\ i <= m
                BY <3>1
            <4>2. p[i] = a[i] /\ a[i] = q[i]
                BY <1>9, <2>2, <4>1
            <4> QED  BY <3>1, <4>2
        <3>2. CASE ~(i < k)
            <4>1. i - m \in 1 .. n - k /\ k + (i - m) = i + 1 /\ ~(i <= m) /\ i \in 1 .. m + (n - k)
                BY <3>2
            <4>2. p[i] = b[i - m] /\ b[i - m] = q[k + (i - m)]
                BY <1>10, <2>2, <4>1
            <4> QED  BY <3>2, <4>1, <4>2
        <3> QED  BY <3>1, <3>2
    <2> QED  BY <2>2, <2>3, <2>4
<1>12. ASSUME NEW i \in 1 .. Len(p), NEW j \in 1 .. Len(p), p[i] = p[j] PROVE i = j
    <2>1. PICK x, y : x = (IF i < k THEN i ELSE i + 1) /\ y = (IF j < k THEN j ELSE j + 1)
        OBVIOUS
    <2>2. x \in 1 .. Len(q) /\ y \in 1 .. Len(q) /\ (x = y => i = j)
        BY <1>6, <1>7, <1>11, <2>1
    <2>3. q[x] = q[y]
        BY <1>11, <1>12, <2>1
    <2> QED  BY <1>3, <2>2, <2>3
<1>13. ListFits(p)
    BY <1>11, <1>12 DEF ListFits
<1>14. LiveFits(live') /\ KeptFits(kept', bare') /\ graph' \subseteq ChatRepos /\ UNCHANGED turn
    BY DEF ChatInv, Chat!Disconnect
<1> QED  BY <1>1, <1>13, <1>14, TurnsRest

LEMMA Indexes ==
    ASSUME ChatInv, NEW r \in ChatRepos, Chat!Index(r) PROVE ChatInv' /\ MissingStep
<1>1. LiveFits(live') /\ KeptFits(kept', bare') /\ ListFits(connected') /\ UNCHANGED turn
    BY DEF ChatInv, Chat!Index
<1>2. graph' \subseteq ChatRepos
    BY DEF ChatInv, Chat!Index
<1> QED  BY <1>1, <1>2, TurnsRest

\* A minute takes none of the guarantees away.
LEMMA LiveAges ==
    ASSUME NEW E, LiveFits(E), NEW F,
           F = {[e EXCEPT !.left = Chat!Less(e.left)] : e \in {x \in E : x.left > 1}}
    PROVE  LiveFits(F)
<1>1. ASSUME NEW f \in F
      PROVE  \E e \in E : /\ f.user = e.user /\ f.names = e.names /\ f.of = e.of
                          /\ f.left = e.left - 1 /\ f \in LiveEntries
    <2>1. PICK e \in E : e.left > 1 /\ f = [e EXCEPT !.left = Chat!Less(e.left)]
        BY <1>1
    <2>2. e \in LiveEntries /\ e.left \in 1 .. LiveTime
        BY DEF LiveFits, LiveEntries
    <2>3. PICK n : n = Chat!Less(e.left)
        OBVIOUS
    <2>4. n = e.left - 1 /\ n \in 1 .. LiveTime
        BY <2>1, <2>2, <2>3, SectionsAre DEF Chat!Less
    <2>5. f = [e EXCEPT !.left = n]
        BY <2>1, <2>3
    <2>6. f \in LiveEntries /\ f.user = e.user /\ f.names = e.names /\ f.of = e.of /\ f.left = n
        BY <2>2, <2>4, <2>5 DEF LiveEntries
    <2> QED  BY <2>4, <2>6
<1>2. ASSUME NEW f \in F PROVE f \in LiveEntries /\ f.of \subseteq f.names /\ f.user \in Readers
    <2>1. PICK e \in E : f.user = e.user /\ f.names = e.names /\ f.of = e.of /\ f \in LiveEntries
        BY <1>1
    <2> QED  BY <2>1 DEF LiveFits
<1>3. ASSUME NEW f \in F, NEW g \in F, f.user = g.user, f.names = g.names PROVE f = g
    <2>1. PICK d \in E : /\ f.user = d.user /\ f.names = d.names /\ f.of = d.of
                         /\ f.left = d.left - 1 /\ f \in LiveEntries
        BY <1>1
    <2>2. PICK e \in E : /\ g.user = e.user /\ g.names = e.names /\ g.of = e.of
                         /\ g.left = e.left - 1 /\ g \in LiveEntries
        BY <1>1
    <2>3. d = e
        BY <1>3, <2>1, <2>2 DEF LiveFits
    <2> QED  BY <1>3, <2>1, <2>2, <2>3 DEF LiveEntries
<1> QED  BY <1>2, <1>3 DEF LiveFits

LEMMA EntryAges ==
    ASSUME NEW e \in Chat!Entries
    PROVE  /\ Chat!Older(e) \in Chat!Entries
           /\ Chat!Older(e).left > 0 => /\ Chat!Older(e).of = e.of /\ e.left > 1
                                        /\ Chat!Older(e).left = e.left - 1
<1>1. PICK n : n = Chat!Older(e)
    OBVIOUS
<1>2. e.left \in 0 .. KeptTime /\ e.of \in SUBSET ChatRepos /\ KeptTime \in Nat
    BY SectionsAre DEF Chat!Entries
<1>3. CASE e.left <= 1
    <2>1. n = [of |-> {}, left |-> 0]
        BY <1>1, <1>3 DEF Chat!Older, Chat!Gone
    <2>2. n \in Chat!Entries /\ n.left = 0
        BY <1>2, <2>1 DEF Chat!Entries
    <2> QED  BY <1>1, <2>2
<1>4. CASE e.left > 1
    <2>1. n = [e EXCEPT !.left = e.left - 1]
        BY <1>1, <1>2, <1>4 DEF Chat!Older
    <2>2. n \in Chat!Entries /\ n.left = e.left - 1 /\ n.of = e.of
        BY <1>2, <1>4, <2>1 DEF Chat!Entries
    <2> QED  BY <1>1, <1>4, <2>2
<1> QED  BY <1>2, <1>3, <1>4

LEMMA KeptAges ==
    ASSUME NEW all, NEW missing, KeptFits(all, missing), NEW all2, NEW missing2,
           all2 = [k \in Caches |-> Chat!Older(all[k])],
           missing2 = [k \in Caches |-> Chat!Less(missing[k])]
    PROVE  KeptFits(all2, missing2)
<1>1. \A k \in Caches : all[k] \in Chat!Entries /\ missing[k] \in 0 .. KeptTime
    BY DEF KeptFits
<1>2. \A k \in Caches : Chat!Less(missing[k]) \in 0 .. KeptTime
    BY <1>1, SectionsAre DEF Chat!Less
<1>3. all2 \in [Caches -> Chat!Entries] /\ missing2 \in [Caches -> 0 .. KeptTime]
    BY <1>1, <1>2, EntryAges
<1>4. ASSUME NEW k \in Caches, all2[k].left > 0, all2[k].of = {}
      PROVE  missing2[k] >= all2[k].left
    <2>1. PICK e, n, m : e = all[k] /\ n = Chat!Older(e) /\ m = missing[k]
        OBVIOUS
    <2>2. e \in Chat!Entries /\ m \in 0 .. KeptTime /\ all2[k] = n
        BY <1>1, <2>1
    <2>3. n.of = e.of /\ e.left > 1 /\ n.left = e.left - 1
        BY <1>4, <2>1, <2>2, EntryAges
    <2>4. e.left \in 0 .. KeptTime /\ KeptTime \in Nat
        BY <2>2, SectionsAre DEF Chat!Entries
    <2>5. m >= e.left
        BY <1>4, <2>1, <2>2, <2>3, <2>4 DEF KeptFits
    <2>6. missing2[k] = m - 1
        BY <2>1, <2>2, <2>3, <2>4, <2>5 DEF Chat!Less
    <2> QED  BY <2>2, <2>3, <2>4, <2>5, <2>6
<1> QED  BY <1>3, <1>4 DEF KeptFits

LEMMA Ages == ASSUME ChatInv, Chat!Tick PROVE ChatInv' /\ MissingStep
<1>1. PICK E, F, a, b, c, d : /\ E = live /\ F = live' /\ a = kept /\ b = bare
                              /\ c = kept' /\ d = bare'
    OBVIOUS
<1>2. LiveFits(E) /\ KeptFits(a, b)
    BY <1>1 DEF ChatInv
<1>3. /\ F = {[e EXCEPT !.left = Chat!Less(e.left)] : e \in {x \in E : x.left > 1}}
      /\ c = [k \in Caches |-> Chat!Older(a[k])] /\ d = [k \in Caches |-> Chat!Less(b[k])]
    BY <1>1 DEF Chat!Tick
<1>4. LiveFits(F)
    BY <1>2, <1>3, LiveAges
<1>5. KeptFits(c, d)
    BY <1>2, <1>3, KeptAges
<1>6. ListFits(connected') /\ graph' \subseteq ChatRepos /\ UNCHANGED turn
    BY DEF ChatInv, Chat!Tick
<1> QED  BY <1>1, <1>4, <1>5, <1>6, TurnsRest

\* Caches and turns as the process has them when it starts.
LEMMA CachesFresh ==
    ASSUME NEW E, NEW all, NEW missing, NEW turns,
           E = {}, all = [k \in Caches |-> Chat!Gone], missing = [k \in Caches |-> 0],
           turns = [u \in Users |-> Chat!Idle]
    PROVE  LiveFits(E) /\ KeptFits(all, missing) /\ TurnsFit(turns)
<1>1. Chat!Gone \in Chat!Entries /\ Chat!Gone.left = 0
    BY SectionsAre DEF Chat!Gone, Chat!Entries
<1>2. KeptFits(all, missing)
    BY <1>1, SectionsAre DEF KeptFits
<1>3. LiveFits(E) /\ TurnsFit(turns)
    BY DEF LiveFits, TurnsFit
<1> QED  BY <1>2, <1>3

LEMMA Restarts == ASSUME ChatInv, Chat!Restart PROVE ChatInv' /\ MissingStep
<1>1. PICK E, a, b, t : E = live' /\ a = kept' /\ b = bare' /\ t = turn'
    OBVIOUS
<1>2. /\ E = {} /\ a = [k \in Caches |-> Chat!Gone] /\ b = [k \in Caches |-> 0]
      /\ t = [u \in Users |-> Chat!Idle] /\ UNCHANGED <<connected, graph>>
    BY <1>1 DEF Chat!Restart
<1>3. LiveFits(E) /\ KeptFits(a, b) /\ TurnsFit(t)
    BY <1>2, CachesFresh
<1>4. ChatInv'
    BY <1>1, <1>2, <1>3 DEF ChatInv
<1>5. MissingStep
    BY <1>1, <1>2 DEF MissingStep, Chat!Sees
<1> QED  BY <1>4, <1>5

LEMMA ChatGoesOn == ASSUME ChatInv, Chat!Next PROVE ChatInv' /\ MissingStep
<1>1. CASE \E u \in Users : Chat!Begin(u) \/ Chat!ContextDone(u) \/ Chat!UsesTools(u) \/ Chat!End(u)
    BY <1>1, Begins, Completes, CallsTools, Ends
<1>2. CASE \E u \in Users, s \in Chat!Sections : Chat!UseCache(u, s) \/ Chat!AskGitHub(u, s)
    BY <1>2, TakesCached, AsksGitHub
<1>3. CASE \E u \in Users, r \in ChatRepos : Chat!ReadFile(u, r) \/ Chat!QueryGraph(u, r)
    BY <1>3, Reads, Queries
<1>4. CASE \E u \in Users, of \in SUBSET ChatRepos :
              Chat!FetchedLive(u, of) \/ \E k \in Caches : Chat!FetchedCode(u, k, of)
    BY <1>4, FetchesLive, FetchesCode
<1>5. CASE \E r \in ChatRepos : Chat!Connect(r) \/ Chat!Disconnect(r) \/ Chat!Index(r)
    BY <1>5, Connects, Disconnects, Indexes
<1>6. CASE Chat!Tick \/ Chat!Restart
    BY <1>6, Ages, Restarts
<1> QED  BY <1>1, <1>2, <1>3, <1>4, <1>5, <1>6 DEF Chat!Next

LEMMA ChatRests == ASSUME ChatInv, UNCHANGED agentChat PROVE ChatInv' /\ MissingStep
BY DEF ChatInv, agentChat, MissingStep, Chat!Sees

LEMMA ChatBegins == ASSUME Chat!Init PROVE ChatInv
<1>1. PICK E, a, b, t : E = live /\ a = kept /\ b = bare /\ t = turn
    OBVIOUS
<1>2. /\ E = {} /\ a = [k \in Caches |-> Chat!Gone] /\ b = [k \in Caches |-> 0]
      /\ t = [u \in Users |-> Chat!Idle] /\ connected = <<>> /\ graph = {}
    BY <1>1 DEF Chat!Init
<1>3. LiveFits(E) /\ KeptFits(a, b) /\ TurnsFit(t)
    BY <1>2, CachesFresh
<1>4. ListFits(connected)
    BY <1>2 DEF ListFits
<1> QED  BY <1>1, <1>2, <1>3, <1>4 DEF ChatInv

LEMMA ChatHolds ==
    ASSUME ChatInv PROVE Chat!TypeOK /\ Chat!LiveIsOwn /\ Chat!ToolsStayInside
<1>1. Chat!Range(connected) \subseteq ChatRepos /\ Chat!IsInjective(connected)
    BY DEF ChatInv, ListFits, Chat!Range, Chat!IsInjective
<1>2. /\ \A e \in live : e.user \in Users /\ e.of \subseteq e.names /\ e.left \in 1 .. LiveTime
      /\ \A e, f \in live : e.user = f.user /\ e.names = f.names => e = f
    BY DEF ChatInv, LiveFits, LiveEntries
<1>3. kept \in [Caches -> Chat!Entries] /\ bare \in [Caches -> 0 .. KeptTime]
    BY DEF ChatInv, KeptFits
<1>4. ASSUME NEW u \in Users, turn[u] # Chat!Idle
      PROVE  /\ turn[u].repos \subseteq ChatRepos /\ Chat!Cardinality(turn[u].repos) <= Reach
             /\ turn[u].calls \in 0 .. Rounds + 1
             /\ \A s \in DOMAIN turn[u].shown :
                   s \in Chat!Sections /\ turn[u].shown[s] \subseteq ChatRepos
    <2>1. TurnFits(u, turn[u])
        BY <1>4 DEF ChatInv, TurnsFit
    <2>2. turn[u] \in Turns /\ turn[u].shown \in Shows
        BY <2>1 DEF TurnFits, Turns
    <2>3. turn[u].repos \subseteq ChatRepos /\ turn[u].calls \in 0 .. Rounds + 1
        BY <2>2 DEF Turns
    <2>4. \A s \in DOMAIN turn[u].shown :
            s \in Chat!Sections /\ turn[u].shown[s] \subseteq ChatRepos
        BY <2>2 DEF Shows
    <2>5. Chat!Cardinality(turn[u].repos) <= Reach
        BY <2>1, ChatCounts DEF TurnFits
    <2> QED  BY <2>3, <2>4, <2>5
<1>5. Chat!TypeOK
    BY <1>1, <1>2, <1>3, <1>4 DEF Chat!TypeOK, ChatInv
<1>6. Chat!LiveIsOwn /\ Chat!ToolsStayInside
    BY DEF Chat!LiveIsOwn, Chat!ToolsStayInside, ChatInv, TurnsFit, TurnFits
<1> QED  BY <1>5, <1>6

LEMMA ChatInvHolds == Spec => []ChatInv
<1>1. Init => ChatInv
    BY ChatBegins DEF Init
<1>2. ChatInv /\ [Next]_<<part, digests, summaries, dashboard, activity, agentChat>> => ChatInv'
    BY ChatGoesOn, ChatRests DEF Next
<1> QED  BY <1>1, <1>2, PTL DEF Spec

\* Code is missing from a user's context only if less than the lifetime of an
\* entry ago nothing could be read: an entry without content gets no younger.
LEMMA MissingBrief == Spec => Chat!MissingIsRecent
<1>1. ChatInv /\ [Next]_<<part, digests, summaries, dashboard, activity, agentChat>> => [MissingStep]_(Chat!vars)
    BY ChatGoesOn, ChatRests DEF Next
<1> DEFINE Recent == \A u \in Users, k \in Caches :
                        Chat!Sees(u, k)' /\ ~Chat!Sees(u, k) /\ turn'[u].shown[k] = {} => bare'[k] > 0
<1>2. MissingStep => Recent
    BY DEF MissingStep
<1> HIDE DEF Recent
<1>3. Spec => [][Recent]_(Chat!vars)
    BY <1>1, <1>2, ChatInvHolds, PTL DEF Spec
<1> QED  BY <1>3 DEF Recent, Chat!MissingIsRecent

\* For any users, repositories, caches, rounds and lifetimes, however turns
\* overlap with each other, with repositories that come, go and are indexed, and
\* with restarts: no two turns mix what only one of their tokens reads as live
\* activity, the tools show nothing of another product, and code is missing only
\* briefly.
THEOREM ChatInside == Spec => ChatStaysInside
<1>1. ChatInv => TurnsStayInside
    BY ChatHolds DEF TurnsStayInside
<1>2. Spec => []TurnsStayInside
    BY <1>1, ChatInvHolds, PTL
<1> QED  BY <1>2, MissingBrief DEF ChatStaysInside

-----------------------------------------------------------------------------
(* Activity: sums count pairs.                                             *)

\* The members of sets F[d], each with its d.
Pairs(F) == UNION {{d} \X F[d] : d \in DOMAIN F}

LEMMA PairsAre ==
    ASSUME NEW F
    PROVE  \A x : x \in Pairs(F) <=> \E d \in DOMAIN F : \E y \in F[d] : x = <<d, y>>
BY DEF Pairs

LEMMA PairsAreFinite ==
    ASSUME NEW F, IsFiniteSet(DOMAIN F), \A d \in DOMAIN F : IsFiniteSet(F[d])
    PROVE  IsFiniteSet(Pairs(F))
<1> DEFINE Part(d) == {d} \X F[d]
           All == {Part(d) : d \in DOMAIN F}
           f == [d \in DOMAIN F |-> Part(d)]
<1>1. \A d \in DOMAIN F : IsFiniteSet(Part(d))
    BY FS_Singleton, FS_Product
<1> HIDE DEF Part
<1>2. f \in Surjection(DOMAIN F, All)
    BY DEF Surjection
<1>3. IsFiniteSet(All)
    BY <1>2, FS_Surjection
<1>4. IsFiniteSet(UNION All)
    BY <1>1, <1>3, FS_UNION
<1> QED  BY <1>4 DEF Pairs, Part

LEMMA ActCounts == \A any : Act!Cardinality(any) = Cardinality(any)
BY DEF Act!Cardinality, Cardinality, Act!IsFiniteSet, IsFiniteSet

\* A sum of sizes is the number of pairs.
LEMMA TotalCounts ==
    ASSUME NEW Keys, IsFiniteSet(Keys), NEW F, DOMAIN F = Keys, \A d \in Keys : IsFiniteSet(F[d])
    PROVE  /\ IsFiniteSet(Pairs(F))
           /\ Act!Total([d \in Keys |-> Cardinality(F[d])]) = Cardinality(Pairs(F))
<1> DEFINE c == [d \in Keys |-> Cardinality(F[d])]
           G == [d \in Keys |-> 1 .. c[d]]
           b == [d \in Keys |-> CHOOSE g : g \in Bijection(1 .. c[d], F[d])]
<1>1. \A d \in Keys : c[d] \in Nat /\ IsFiniteSet(G[d])
    BY FS_CardinalityType, FS_Interval
<1>2. \A d \in Keys : b[d] \in Bijection(G[d], F[d])
    BY FS_CardinalityType DEF ExistsBijection
<1>3. Act!Total(c) = Cardinality(Pairs(G))
    BY ActCounts DEF Act!Total, Pairs
<1>4. DOMAIN G = Keys
    OBVIOUS
<1> HIDE DEF c, G, b
<1>5. IsFiniteSet(Pairs(F)) /\ IsFiniteSet(Pairs(G))
    BY <1>1, <1>4, PairsAreFinite
<1> DEFINE h == [x \in Pairs(G) |-> <<x[1], b[x[1]][x[2]]>>]
<1>6. ASSUME NEW d \in Keys, NEW n \in G[d]
      PROVE  <<d, n>> \in Pairs(G) /\ b[d][n] \in F[d] /\ h[<<d, n>>] = <<d, b[d][n]>>
    <2>1. <<d, n>> \in Pairs(G)
        BY <1>4, PairsAre
    <2>2. b[d][n] \in F[d]
        BY <1>2 DEF Bijection, Injection
    <2> QED  BY <2>1, <2>2
<1>7. ASSUME NEW x \in Pairs(G)
      PROVE  \E d \in Keys : \E n \in G[d] : x = <<d, n>>
    BY <1>4, PairsAre
<1> HIDE DEF h
<1>8. ASSUME NEW x \in Pairs(G) PROVE h[x] \in Pairs(F)
    <2>1. PICK d, n : d \in Keys /\ n \in G[d] /\ x = <<d, n>>
        BY <1>7
    <2> QED  BY <1>6, <2>1, PairsAre
<1>9. ASSUME NEW x \in Pairs(G), NEW y \in Pairs(G), h[x] = h[y] PROVE x = y
    <2>1. PICK d, n : d \in Keys /\ n \in G[d] /\ x = <<d, n>>
        BY <1>7
    <2>2. PICK e, m : e \in Keys /\ m \in G[e] /\ y = <<e, m>>
        BY <1>7
    <2>3. <<d, b[d][n]>> = <<e, b[e][m]>>
        <3>1. h[x] = <<d, b[d][n]>>
            BY <1>6, <2>1
        <3>2. h[y] = <<e, b[e][m]>>
            BY <1>6, <2>2
        <3> QED  BY <1>9, <3>1, <3>2
    <2>4. d = e /\ b[d][n] = b[d][m] /\ m \in G[d]
        <3>1. d = e /\ b[d][n] = b[e][m]
            BY <2>3
        <3> QED  BY <2>2, <3>1
    <2>5. n = m
        BY <1>2, <2>1, <2>4 DEF Bijection, Injection, IsInjective
    <2> QED  BY <2>1, <2>2, <2>4, <2>5
<1>10. ASSUME NEW z \in Pairs(F) PROVE \E x \in Pairs(G) : h[x] = z
    <2>1. PICK d, y : d \in Keys /\ y \in F[d] /\ z = <<d, y>>
        BY PairsAre
    <2>2. PICK n \in G[d] : b[d][n] = y
        BY <1>2, <2>1 DEF Bijection, Surjection
    <2> QED  BY <1>6, <2>1, <2>2
<1>11. h \in [Pairs(G) -> Pairs(F)]
    BY <1>8 DEF h
<1>12. h \in Bijection(Pairs(G), Pairs(F))
    BY <1>9, <1>10, <1>11 DEF Bijection, Injection, Surjection, IsInjective
<1>13. Cardinality(Pairs(F)) = Cardinality(Pairs(G))
    BY <1>5, <1>12, FS_Bijection DEF ExistsBijection
<1> QED  BY <1>3, <1>5, <1>13 DEF c

\* Sets without common members.
Apart(F) == \A d, e \in DOMAIN F : \A x : x \in F[d] /\ x \in F[e] => d = e

LEMMA TotalOfParts ==
    ASSUME NEW Keys, IsFiniteSet(Keys), NEW F, DOMAIN F = Keys, \A d \in Keys : IsFiniteSet(F[d]), Apart(F),
           NEW U, \A x : x \in U <=> \E d \in Keys : x \in F[d]
    PROVE  /\ IsFiniteSet(U)
           /\ Act!Total([d \in Keys |-> Cardinality(F[d])]) = Cardinality(U)
<1> DEFINE h == [x \in Pairs(F) |-> x[2]]
<1>1. /\ IsFiniteSet(Pairs(F))
      /\ Act!Total([d \in Keys |-> Cardinality(F[d])]) = Cardinality(Pairs(F))
    BY TotalCounts
<1>2. ASSUME NEW x \in Pairs(F)
      PROVE  \E d \in Keys : x[2] \in F[d] /\ x = <<d, x[2]>>
    BY PairsAre
<1>3. ASSUME NEW x \in U PROVE \E p \in Pairs(F) : p[2] = x
    <2>1. PICK d \in Keys : x \in F[d]
        OBVIOUS
    <2>2. <<d, x>> \in Pairs(F)
        BY <2>1, PairsAre
    <2> QED  BY <2>2
<1>4. ASSUME NEW x \in Pairs(F), NEW y \in Pairs(F), x[2] = y[2] PROVE x = y
    BY <1>2, <1>4 DEF Apart
<1>5. h \in [Pairs(F) -> U]
    BY <1>2
<1>6. h \in Bijection(Pairs(F), U)
    BY <1>3, <1>4, <1>5 DEF Bijection, Injection, Surjection, IsInjective
<1>7. IsFiniteSet(U) /\ Cardinality(U) = Cardinality(Pairs(F))
    BY <1>1, <1>6, FS_Bijection DEF ExistsBijection
<1> QED  BY <1>1, <1>7

-----------------------------------------------------------------------------
(* Activity: days in a row.                                                *)

LEMMA SmallestIs ==
    ASSUME NEW W, W \subseteq Nat, W # {}
    PROVE  \E m \in W : \A n \in W : m <= n
<1> DEFINE R == {p \in Nat \X Nat : p[1] < p[2]}
<1>1. IsWellFoundedOn(R, Nat)
    BY NatLessThanWellFounded DEF OpToRel
<1>2. \A m, n \in Nat : m < n => <<m, n>> \in R
    OBVIOUS
<1> HIDE DEF R
<1>0. W \in SUBSET Nat
    OBVIOUS
<1>3. PICK m \in W : \A n \in W : <<n, m>> \notin R
    BY <1>0, <1>1, WFMin
<1>4. ASSUME NEW n \in W PROVE m <= n
    <2>1. m \in Nat /\ n \in Nat /\ ~(n < m)
        BY <1>2, <1>3
    <2> QED  BY <2>1
<1> QED  BY <1>4

LEMMA SmallestFrom ==
    ASSUME NEW k \in Int, NEW W, W \subseteq Int, \A n \in W : k <= n, W # {}
    PROVE  \E m \in W : \A n \in W : m <= n
<1> DEFINE V == {n - k : n \in W}
<1>1. V \subseteq Nat /\ V # {}
    <2>1. \A n \in W : n - k \in Nat
        OBVIOUS
    <2> QED  BY <2>1
<1>2. PICK v \in V : \A u \in V : v <= u
    <2> HIDE DEF V
    <2> QED  BY <1>1, SmallestIs
<1>3. PICK m \in W : v = m - k
    BY <1>2
<1>4. \A n \in W : m - k <= n - k
    BY <1>2, <1>3
<1> QED  BY <1>3, <1>4

LEMMA GreatestUpTo ==
    ASSUME NEW k \in Int, NEW W, W \subseteq Int, \A n \in W : n <= k, W # {}
    PROVE  \E m \in W : \A n \in W : m >= n
<1> DEFINE V == {k - n : n \in W}
<1>1. V \subseteq Nat /\ V # {}
    <2>1. \A n \in W : k - n \in Nat
        OBVIOUS
    <2> QED  BY <2>1
<1>2. PICK v \in V : \A u \in V : v <= u
    <2> HIDE DEF V
    <2> QED  BY <1>1, SmallestIs
<1>3. PICK m \in W : v = k - m
    BY <1>2
<1>4. \A n \in W : k - m <= k - n
    BY <1>2, <1>3
<1> QED  BY <1>3, <1>4

LEMMA MaxIs ==
    ASSUME NEW k \in Int, NEW W, W \subseteq Int, \A n \in W : n <= k, W # {}
    PROVE  Act!Max(W) \in W /\ \A n \in W : Act!Max(W) >= n
<1>1. \E m \in W : \A n \in W : m >= n
    BY GreatestUpTo
<1> QED  BY <1>1 DEF Act!Max

LEMMA MinIs ==
    ASSUME NEW k \in Int, NEW W, W \subseteq Int, \A n \in W : k <= n, W # {}
    PROVE  Act!Min(W) \in W /\ \A n \in W : Act!Min(W) <= n
<1>1. \E m \in W : \A n \in W : m <= n
    BY SmallestFrom
<1> QED  BY <1>1 DEF Act!Min

\* n days with commits end on day d.
Row(daily, d, n) ==
    n \in 0 .. Period /\ \A i \in 0 .. n - 1 : d - i \in DOMAIN daily /\ daily[d - i] > 0

LEMMA RunIs ==
    ASSUME NEW daily, NEW d
    PROVE  /\ Row(daily, d, Act!RunTo(daily, d)) /\ Act!RunTo(daily, d) \in Nat
           /\ \A n : Row(daily, d, n) => n <= Act!RunTo(daily, d)
<1> DEFINE W == {n \in 0 .. Period : \A i \in 0 .. n - 1 : d - i \in DOMAIN daily /\ daily[d - i] > 0}
<1>1. Period \in Nat
    BY ActivityConstants
<1>2. Act!RunTo(daily, d) = Act!Max(W)
    BY DEF Act!RunTo
<1>3. \A n : n \in W <=> Row(daily, d, n)
    BY DEF Row
<1>4. 0 \in W
    BY <1>1
<1>5. W \subseteq Int /\ (\A n \in W : n <= Period) /\ Period \in Int
    BY <1>1
<1> HIDE DEF W
<1>6. Act!Max(W) \in W /\ \A n \in W : Act!Max(W) >= n
    BY <1>4, <1>5, MaxIs
<1>7. \A n : Row(daily, d, n) => n \in Nat
    BY <1>1 DEF Row
<1>8. Act!RunTo(daily, d) \in Nat
    BY <1>2, <1>3, <1>6, <1>7
<1>9. ASSUME NEW n, Row(daily, d, n) PROVE n <= Act!RunTo(daily, d)
    <2>1. Act!RunTo(daily, d) >= n
        BY <1>2, <1>3, <1>6, <1>9
    <2> QED  BY <1>7, <1>8, <1>9, <2>1
<1> QED  BY <1>2, <1>3, <1>6, <1>8, <1>9

\* Fewer commits, no longer runs.
LEMMA FewerShorter ==
    ASSUME NEW few, NEW many, NEW d,
           DOMAIN few = DOMAIN many, few \in [DOMAIN few -> Nat], many \in [DOMAIN few -> Nat],
           \A c \in DOMAIN few : few[c] <= many[c]
    PROVE  Act!RunTo(few, d) <= Act!RunTo(many, d)
<1>1. Row(few, d, Act!RunTo(few, d))
    BY RunIs
<1>2. \A c \in DOMAIN few : few[c] > 0 => many[c] > 0
    <2> TAKE c \in DOMAIN few
    <2>1. few[c] \in Nat /\ many[c] \in Nat /\ few[c] <= many[c]
        OBVIOUS
    <2> QED  BY <2>1
<1>3. Row(many, d, Act!RunTo(few, d))
    BY <1>1, <1>2 DEF Row
<1> QED  BY <1>3, RunIs

LEMMA StreaksCompare ==
    ASSUME NEW few, NEW many, NEW today \in Int,
           few \in [Act!Dates(today) -> Nat], many \in [Act!Dates(today) -> Nat],
           \A c \in Act!Dates(today) : few[c] <= many[c]
    PROVE  Act!MemberStreak(few, today) <= Act!MemberStreak(many, today)
<1>1. Period \in Nat /\ Period > 0
    BY ActivityConstants
<1>2. today \in Act!Dates(today)
    BY <1>1 DEF Act!Dates
<1>3. few[today] \in Nat /\ many[today] \in Nat /\ few[today] <= many[today]
    BY <1>2
<1>4. \A d : Act!RunTo(few, d) <= Act!RunTo(many, d)
    BY FewerShorter
<1>5. \A d : Act!RunTo(few, d) \in Nat /\ Act!RunTo(many, d) \in Nat
    BY RunIs
<1>6. CASE few[today] > 0
    <2>1. many[today] > 0
        BY <1>3, <1>6
    <2> QED  BY <1>4, <1>6, <2>1 DEF Act!MemberStreak
<1>7. CASE ~(few[today] > 0) /\ ~(many[today] > 0)
    BY <1>4, <1>7 DEF Act!MemberStreak
<1>8. CASE ~(few[today] > 0) /\ many[today] > 0
    <2> DEFINE n == Act!RunTo(few, today - 1)
    <2>1. Row(few, today - 1, n) /\ n \in Nat
        BY RunIs
    <2> HIDE DEF n
    <2>2. \A i \in 0 .. n - 1 : today - i \in Act!Dates(today) /\ many[today - i] > 0
        <3> TAKE i \in 0 .. n - 1
        <3>1. CASE i = 0
            BY <1>2, <1>8, <3>1
        <3>2. CASE i # 0
            <4>1. i - 1 \in 0 .. n - 1 /\ today - i = today - 1 - (i - 1)
                BY <2>1, <3>2
            <4>2. today - i \in Act!Dates(today) /\ few[today - i] > 0
                BY <2>1, <4>1 DEF Row
            <4>3. few[today - i] \in Nat /\ many[today - i] \in Nat /\ few[today - i] <= many[today - i]
                BY <4>2
            <4> QED  BY <4>2, <4>3
        <3> QED  BY <3>1, <3>2
    <2>3. Row(many, today, n)
        BY <2>1, <2>2 DEF Row
    <2>4. n <= Act!RunTo(many, today)
        BY <2>3, RunIs
    <2> QED  BY <1>8, <2>4 DEF Act!MemberStreak, n
<1> QED  BY <1>6, <1>7, <1>8

LEMMA TeamAndMember ==
    ASSUME NEW daily, NEW today \in Int, Act!TeamStreak(daily, today) > 0
    PROVE  Act!TeamStreak(daily, today) = Act!MemberStreak(daily, today)
<1>1. Row(daily, today, Act!RunTo(daily, today)) /\ Act!RunTo(daily, today) \in Nat
    BY RunIs
<1>2. 0 \in 0 .. Act!RunTo(daily, today) - 1
    BY <1>1 DEF Act!TeamStreak
<1>3. daily[today - 0] > 0 /\ today - 0 = today
    BY <1>1, <1>2 DEF Row
<1> QED  BY <1>3 DEF Act!TeamStreak, Act!MemberStreak

LEMMA PeakIsHigh ==
    ASSUME NEW today \in Int, NEW daily, daily \in [Act!Dates(today) -> Nat],
           NEW k \in Nat, \A c \in Act!Dates(today) : daily[c] <= k
    PROVE  /\ Act!Peak(daily) \in Act!Dates(today)
           /\ \A c \in Act!Dates(today) : daily[c] <= daily[Act!Peak(daily)]
<1> DEFINE Tops == {d \in DOMAIN daily : \A c \in DOMAIN daily : daily[c] <= daily[d]}
           Values == {daily[d] : d \in Act!Dates(today)}
<1>1. Period \in Nat /\ Period > 0
    BY ActivityConstants
<1>2. today \in Act!Dates(today) /\ Act!Dates(today) \subseteq Int
      /\ \A d \in Act!Dates(today) : today - Period + 1 <= d
    BY <1>1 DEF Act!Dates
<1>3. Values \subseteq Int /\ (\A v \in Values : v <= k) /\ Values # {} /\ k \in Int
    BY <1>2
<1>4. PICK v \in Values : \A w \in Values : v >= w
    <2> HIDE DEF Values
    <2> QED  BY <1>3, GreatestUpTo
<1>5. PICK d \in Act!Dates(today) : v = daily[d]
    BY <1>4
<1>6. \A c \in Act!Dates(today) : daily[c] <= daily[d]
    <2> TAKE c \in Act!Dates(today)
    <2>1. daily[d] >= daily[c] /\ daily[c] \in Nat /\ daily[d] \in Nat
        BY <1>4, <1>5
    <2> QED  BY <2>1
<1>7. d \in Tops
    BY <1>6
<1>8. Tops \subseteq Int /\ (\A c \in Tops : today - Period + 1 <= c) /\ today - Period + 1 \in Int
    BY <1>1, <1>2
<1>9. Act!Peak(daily) = Act!Min(Tops)
    BY DEF Act!Peak
<1>10. Act!Min(Tops) \in Tops
    <2> HIDE DEF Tops
    <2> QED  BY <1>7, <1>8, MinIs
<1> QED  BY <1>9, <1>10

-----------------------------------------------------------------------------
(* Activity: what a request knows.                                         *)

\* The newest commits of g there are.
NewestOf(there, g) ==
    {c \in there : c.in = g /\ Cardinality({d \in there : d.in = g /\ Act!After(d, c)}) < Page}

Seen == [row: Rows, commit: pushed]

Asks ==
    [pc: {"asked", "first", "more", "read", "answered"},
     kind: {"summary", "velocity", "page", "team"},
     of: SUBSET Act!Products, since: Int, longer: Int,
     events: SUBSET Seen, more: SUBSET Seen, failed: SUBSET Rows, known: SUBSET pushed, today: Int]

ActTypes ==
    /\ time \in 0 .. LastTime
    /\ pushed \subseteq Act!Commits /\ IsFiniteSet(pushed)
    /\ \A c \in pushed : c.id <= Cardinality(pushed) /\ c.at <= time
    /\ \A c, d \in pushed : c.id = d.id => c = d
    /\ ask = Act!Idle \/ ask \in Asks

\* The first read saw what was new then, where it did not fail.
KnowsAll(a) ==
    \A r \in Rows \ a.failed, c \in a.known :
        ProductOf[r] \in a.of /\ c \in NewestOf(a.known, Upstream[r]) /\ c.at >= a.since
            => [row |-> r, commit |-> c] \in a.events

Older(a) ==
    \A e \in Act!Previous(a.more, a.events) :
        e.commit.at < a.since \/ e.commit \notin a.known \/ e.row \in a.failed

Fits(a) ==
    /\ a.kind # "team" => (\E p : a.of = {p}) /\ \A e \in a.events : e.commit.at >= a.since
    /\ a.pc \in {"first", "more"} => KnowsAll(a)
    /\ a.pc = "read" => a.kind # "summary"
    /\ a.pc = "answered" => \A e \in a.events : Act!DayOf(e.commit.at) <= a.today
    /\ a.pc = "answered" /\ a.kind = "summary" => Older(a)

ActInv == ActTypes /\ (ask = Act!Idle \/ Fits(ask))

LEMMA NewestStays ==
    ASSUME NEW P, IsFiniteSet(P), NEW K, K \subseteq P, NEW g, NEW c \in K, c \in NewestOf(P, g)
    PROVE  c \in NewestOf(K, g)
<1> DEFINE A == {d \in P : d.in = g /\ Act!After(d, c)}
           F == {d \in K : d.in = g /\ Act!After(d, c)}
<1>1. F \subseteq A /\ A \subseteq P
    OBVIOUS
<1>2. c.in = g /\ Cardinality(A) < Page
    BY DEF NewestOf
<1>3. F = {d \in K : d.in = g /\ Act!After(d, c)}
    OBVIOUS
<1> HIDE DEF A, F
<1>4. IsFiniteSet(A)
    BY <1>1, FS_Subset
<1>5. IsFiniteSet(F) /\ Cardinality(F) <= Cardinality(A)
    BY <1>1, <1>4, FS_Subset
<1>6. Cardinality(A) \in Nat /\ Cardinality(F) \in Nat /\ Page \in Nat
    BY <1>4, <1>5, FS_CardinalityType, ActivityConstants
<1>7. Cardinality(F) < Page
    BY <1>2, <1>5, <1>6
<1> QED  BY <1>2, <1>3, <1>7 DEF NewestOf

LEMMA NewestIs == \A g : Act!Newest(g) = NewestOf(pushed, g)
<1> TAKE g
<1>1. Act!Newest(g) = {c \in {d \in pushed : d.in = g} :
                         Cardinality({d \in {e \in pushed : e.in = g} : Act!After(d, c)}) < Page}
    BY ActCounts DEF Act!Newest
<1>2. \A c : {d \in {e \in pushed : e.in = g} : Act!After(d, c)}
                = {d \in pushed : d.in = g /\ Act!After(d, c)}
    OBVIOUS
<1> QED  BY <1>1, <1>2 DEF NewestOf

LEMMA FetchedIs ==
    ASSUME NEW p, NEW failed, NEW since
    PROVE  /\ Act!Fetched(p, failed, since) \subseteq Seen
           /\ \A e \in Act!Fetched(p, failed, since) :
                 /\ e.row \in Rows \ failed /\ ProductOf[e.row] = p
                 /\ e.commit \in NewestOf(pushed, Upstream[e.row]) /\ e.commit.at >= since
           /\ \A e \in Seen :
                 /\ e.row \notin failed /\ ProductOf[e.row] = p
                 /\ e.commit \in NewestOf(pushed, Upstream[e.row]) /\ e.commit.at >= since
                 => e \in Act!Fetched(p, failed, since)
BY NewestIs DEF Act!Fetched, Act!RowsOf, Seen

LEMMA DaysGoOn ==
    ASSUME NEW s \in Int, NEW t \in Int, s <= t
    PROVE  Act!DayOf(s) \in Int /\ Act!DayOf(t) \in Int /\ Act!DayOf(s) <= Act!DayOf(t)
<1> DEFINE q == s \div DayLen
           r == t \div DayLen
<1>1. DayLen \in Nat /\ DayLen > 0
    BY ActivityConstants
<1>2. q \in Int /\ r \in Int /\ DayLen * q <= s /\ t < DayLen * r + DayLen
    BY <1>1
<1> HIDE DEF q, r
<1>3. ASSUME q > r PROVE FALSE
    <2>1. q >= r + 1
        BY <1>2, <1>3
    <2>2. DayLen * q >= DayLen * r + DayLen
        BY <1>1, <1>2, <2>1
    <2> QED  BY <1>1, <1>2, <2>2
<1> QED  BY <1>2, <1>3 DEF Act!DayOf, q, r

LEMMA SeenIs ==
    ASSUME ActTypes
    PROVE  /\ IsFiniteSet(Seen)
           /\ \A e \in Seen : /\ e.row \in Rows /\ e.commit \in pushed /\ e.commit \in Act!Commits
                              /\ e.commit.at \in Nat /\ e.commit.at <= time
                              /\ e.commit.by \in Authors
<1> DEFINE h == [x \in Rows \X pushed |-> [row |-> x[1], commit |-> x[2]]]
<1>1. IsFiniteSet(Rows \X pushed)
    BY FS_Product, ActivityConstants DEF ActTypes
<1>2. ASSUME NEW e \in Seen PROVE \E x \in Rows \X pushed : h[x] = e
    <2>1. <<e.row, e.commit>> \in Rows \X pushed /\ e = [row |-> e.row, commit |-> e.commit]
        BY DEF Seen
    <2> QED  BY <2>1
<1>3. h \in [Rows \X pushed -> Seen]
    BY DEF Seen
<1>4. h \in Surjection(Rows \X pushed, Seen)
    BY <1>2, <1>3 DEF Surjection
<1>5. IsFiniteSet(Seen)
    BY <1>1, <1>4, FS_Surjection
<1>6. \A e \in Seen : e.row \in Rows /\ e.commit \in pushed
    BY DEF Seen
<1>7. LastTime \in Nat
    BY ActivityConstants
<1>8. \A c \in pushed : c \in Act!Commits /\ c.at \in Nat /\ c.at <= time /\ c.by \in Authors
    BY <1>7 DEF ActTypes, Act!Commits
<1> QED  BY <1>5, <1>6, <1>8

-----------------------------------------------------------------------------
(* Activity: the steps.                                                    *)

LEMMA AskTypes ==
    ASSUME ActTypes
    PROVE  /\ ask.pc # "idle" => ask \in Asks
           /\ \A a \in Asks : a.pc # "idle" /\ a # Act!Idle
           /\ Act!Idle.pc = "idle"
<1>1. Act!Idle.pc = "idle"
    BY DEF Act!Idle
<1>2. \A a \in Asks : a.pc # "idle"
    BY DEF Asks
<1> QED  BY <1>1, <1>2 DEF ActTypes

LEMMA ActBegins == ASSUME Act!Init PROVE ActInv
<1>1. time \in 0 .. LastTime /\ pushed = {} /\ ask = Act!Idle
    BY ActivityConstants DEF Act!Init
<1> QED  BY <1>1, FS_EmptySet DEF ActInv, ActTypes

LEMMA ActRests == ASSUME ActInv, UNCHANGED activity PROVE ActInv'
BY DEF ActInv, ActTypes, activity, Asks, Seen, Fits, KnowsAll, Older, NewestOf,
       Act!Previous, Act!DayOf, Act!After

\* More commits, and time goes on.
LEMMA MoreSeen ==
    ASSUME pushed \subseteq pushed', ask' = ask, ask \in Asks
    PROVE  ask' \in Asks'
<1>1. Seen \subseteq Seen'
    BY DEF Seen
<1>2. Asks \subseteq Asks'
    BY <1>1 DEF Asks
<1> QED  BY <1>2

LEMMA FitsOn ==
    ASSUME ActInv, ask' = ask
    PROVE  (ask = Act!Idle \/ Fits(ask))'
BY DEF ActInv, Fits, KnowsAll, Older, NewestOf, Act!Previous, Act!DayOf, Act!After, Act!Idle

LEMMA Pushes ==
    ASSUME ActInv, NEW r \in Rows, NEW a \in Authors, NEW t \in 0 .. LastTime,
           Act!Push(Upstream[r], a, t)
    PROVE  ActInv'
<1> DEFINE n == Cardinality(pushed) + 1
           c == [id |-> n, in |-> Upstream[r], by |-> a, at |-> t]
<1>1. /\ Cardinality(pushed) < MaxCommits /\ t <= time
      /\ pushed' = pushed \cup {c} /\ time' = time /\ ask' = ask
    BY ActCounts DEF Act!Push
<1>2. IsFiniteSet(pushed) /\ Cardinality(pushed) \in Nat /\ MaxCommits \in Nat
    BY FS_CardinalityType, ActivityConstants DEF ActInv, ActTypes
<1>3. n \in 1 .. MaxCommits
    BY <1>1, <1>2
<1>4. c.id = n /\ c.at = t /\ c \in Act!Commits
    BY <1>3 DEF Act!Commits
<1>5. \A d \in pushed : d.id \in Nat /\ d.id <= Cardinality(pushed) /\ d.at <= time
    BY DEF ActInv, ActTypes, Act!Commits
<1> HIDE DEF c
<1>6. c \notin pushed
    BY <1>2, <1>4, <1>5
<1>7. IsFiniteSet(pushed') /\ Cardinality(pushed') = n
    BY <1>1, <1>2, <1>6, FS_AddElement
<1>8. \A d \in pushed' : d.id <= n /\ d.at <= time
    BY <1>1, <1>2, <1>4, <1>5
<1>9. \A d, e \in pushed' : d.id = e.id => d = e
    <2> TAKE d, e \in pushed'
    <2> HAVE d.id = e.id
    <2>1. CASE d = c /\ e = c
        BY <2>1
    <2>2. CASE d \in pushed /\ e \in pushed
        BY <2>2 DEF ActInv, ActTypes
    <2>3. ASSUME d = c, e \in pushed PROVE FALSE
        BY <1>2, <1>4, <1>5, <2>3
    <2>4. ASSUME e = c, d \in pushed PROVE FALSE
        BY <1>2, <1>4, <1>5, <2>4
    <2> QED  BY <1>1, <2>1, <2>2, <2>3, <2>4
<1>10. pushed' \subseteq Act!Commits
    BY <1>1, <1>4 DEF ActInv, ActTypes
<1>11. (ask = Act!Idle \/ ask \in Asks)'
    <2>1. CASE ask = Act!Idle
        BY <1>1, <2>1 DEF Act!Idle
    <2>2. CASE ask \in Asks
        BY <1>1, <2>2, MoreSeen
    <2> QED  BY <2>1, <2>2 DEF ActInv, ActTypes
<1>12. ActTypes'
    BY <1>1, <1>7, <1>8, <1>9, <1>10, <1>11 DEF ActInv, ActTypes, Act!Commits
<1> QED  BY <1>1, <1>12, FitsOn DEF ActInv

LEMMA ActTicks == ASSUME ActInv, Act!Tick PROVE ActInv'
<1>1. time < LastTime /\ time' = time + 1 /\ pushed' = pushed /\ ask' = ask
    BY DEF Act!Tick
<1>2. time \in 0 .. LastTime /\ LastTime \in Nat
    BY ActivityConstants DEF ActInv, ActTypes
<1>3. \A c \in pushed' : c.at <= time'
    <2>1. \A c \in pushed : c.at \in Nat /\ c.at <= time
        BY <1>2 DEF ActInv, ActTypes, Act!Commits
    <2> QED  BY <1>1, <1>2, <2>1
<1>4. (ask = Act!Idle \/ ask \in Asks)'
    <2>1. CASE ask = Act!Idle
        BY <1>1, <2>1 DEF Act!Idle
    <2>2. CASE ask \in Asks
        BY <1>1, <2>2, MoreSeen
    <2> QED  BY <2>1, <2>2 DEF ActInv, ActTypes
<1>5. ActTypes'
    BY <1>1, <1>2, <1>3, <1>4 DEF ActInv, ActTypes, Act!Commits
<1> QED  BY <1>1, <1>5, FitsOn DEF ActInv

\* A request changes nothing but itself.
LEMMA AskMoves ==
    ASSUME ActInv, UNCHANGED <<time, pushed>>, ask' = Act!Idle \/ (ask' \in Asks /\ Fits(ask'))
    PROVE  ActInv'
<1>1. Seen' = Seen /\ Asks' = Asks
    BY DEF Seen, Asks
<1>2. (ask = Act!Idle \/ ask \in Asks)'
    BY <1>1 DEF Act!Idle
<1>3. ActTypes'
    BY <1>2 DEF ActInv, ActTypes, Act!Commits
<1>4. (ask = Act!Idle \/ Fits(ask))'
    BY DEF Fits, KnowsAll, Older, NewestOf, Act!Previous, Act!DayOf, Act!After, Act!Idle
<1> QED  BY <1>3, <1>4 DEF ActInv

LEMMA StartIs == ASSUME ActTypes, NEW days \in Nat PROVE Act!Start(days) \in Int
<1>1. DayLen \in Nat /\ time \in Int
    BY ActivityConstants DEF ActTypes
<1>2. days * DayLen \in Int
    BY <1>1
<1> QED  BY <1>1, <1>2 DEF Act!Start

LEMMA AskedIs ==
    ASSUME ActTypes, NEW kind \in {"summary", "velocity", "page", "team"}, NEW of \in SUBSET Act!Products,
           kind # "team" => \E p : of = {p}
    PROVE  Act!Asked(kind, of) \in Asks /\ Fits(Act!Asked(kind, of))
<1> DEFINE a == Act!Asked(kind, of)
<1>1. Period \in Nat /\ Extended \in Nat
    BY ActivityConstants
<1>2. Act!Start(Period) \in Int /\ Act!Start(Extended) \in Int
    BY <1>1, StartIs
<1>3. a \in Asks
    BY <1>2 DEF Act!Asked, Asks
<1>4. a.pc = "asked" /\ a.kind = kind /\ a.of = of /\ a.events = {}
    BY DEF Act!Asked
<1> HIDE DEF a
<1>5. Fits(a)
    BY <1>4 DEF Fits
<1> QED  BY <1>3, <1>5 DEF a

LEMMA AsksOne ==
    ASSUME ActInv, NEW p \in Act!Products, NEW kind \in {"summary", "velocity", "page"}, Act!Ask(kind, p)
    PROVE  ActInv'
<1>1. ask' = Act!Asked(kind, {p}) /\ UNCHANGED <<time, pushed>>
    BY DEF Act!Ask
<1>2. Act!Asked(kind, {p}) \in Asks /\ Fits(Act!Asked(kind, {p}))
    BY AskedIs DEF ActInv
<1> QED  BY <1>1, <1>2, AskMoves

LEMMA AsksTeam == ASSUME ActInv, Act!AskTeam PROVE ActInv'
<1>1. ask' = Act!Asked("team", Act!Products) /\ UNCHANGED <<time, pushed>>
    BY DEF Act!AskTeam
<1>2. Act!Asked("team", Act!Products) \in Asks /\ Fits(Act!Asked("team", Act!Products))
    BY AskedIs DEF ActInv
<1> QED  BY <1>1, <1>2, AskMoves

\* What a request reads is there.
LEMMA ReadIs ==
    ASSUME ActTypes, NEW p, NEW failed, NEW since
    PROVE  /\ Act!Fetched(p, failed, since) \in SUBSET Seen
           /\ \A e \in Act!Fetched(p, failed, since) :
                 e.commit.at >= since /\ e.commit.at \in Nat /\ e.commit.at <= time
BY FetchedIs, SeenIs

LEMMA ReadsPeriod ==
    ASSUME ActInv, NEW p \in Act!Products, NEW failed \in SUBSET Act!RowsOf(p), Act!ReadPeriod(p, failed)
    PROVE  ActInv'
<1> DEFINE events == Act!Fetched(p, failed, ask.since)
           pc == IF ask.kind = "page" THEN "read" ELSE "first"
           a == [ask EXCEPT !.pc = pc, !.events = events, !.failed = failed, !.known = pushed]
<1>1. /\ ask.pc = "asked" /\ ask.kind \in {"summary", "page"} /\ p \in ask.of
      /\ ask' = Act!Idle \/ ask' = a
      /\ UNCHANGED <<time, pushed>>
    BY DEF Act!ReadPeriod
<1>2. ask \in Asks /\ Fits(ask)
    BY <1>1, AskTypes DEF ActInv
<1>3. events \in SUBSET Seen /\ \A e \in events : e.commit.at >= ask.since
    BY ReadIs DEF ActInv
<1>4. failed \in SUBSET Rows
    BY DEF Act!RowsOf
<1>5. ask.of = {p}
    <2>1. ask.kind # "team"
        BY <1>1
    <2> QED  BY <1>1, <1>2, <2>1 DEF Fits
<1>6. ASSUME NEW r \in Rows \ failed, NEW c \in pushed,
             ProductOf[r] = p, c \in NewestOf(pushed, Upstream[r]), c.at >= ask.since
      PROVE  [row |-> r, commit |-> c] \in events
    <2> DEFINE e == [row |-> r, commit |-> c]
    <2>1. e \in Seen /\ e.row = r /\ e.commit = c
        BY DEF Seen
    <2> HIDE DEF e
    <2>2. e \in events
        BY <1>6, <2>1, FetchedIs
    <2> QED  BY <2>2 DEF e
<1> HIDE DEF events
<1>7. pc \in {"read", "first"} /\ (pc = "read" => ask.kind # "summary")
    BY <1>1
<1> HIDE DEF pc
<1>8. a \in Asks
    BY <1>2, <1>3, <1>4, <1>7 DEF Asks
<1>9. /\ a.pc = pc /\ a.kind = ask.kind /\ a.of = ask.of /\ a.since = ask.since
      /\ a.events = events /\ a.failed = failed /\ a.known = pushed
    BY <1>2 DEF Asks
<1> HIDE DEF a
<1>10. KnowsAll(a)
    BY <1>5, <1>6, <1>9 DEF KnowsAll
<1>11. Fits(a)
    BY <1>3, <1>5, <1>7, <1>9, <1>10 DEF Fits
<1> QED  BY <1>1, <1>8, <1>11, AskMoves

LEMMA AsksMore == ASSUME ActInv, Act!AskMore PROVE ActInv'
<1> DEFINE a == [ask EXCEPT !.pc = "more", !.longer = Act!Start(Extended)]
<1>1. ask.pc = "first" /\ ask' = a /\ UNCHANGED <<time, pushed>>
    BY DEF Act!AskMore
<1>2. ask \in Asks /\ Fits(ask)
    BY <1>1, AskTypes DEF ActInv
<1>3. Act!Start(Extended) \in Int
    BY StartIs, ActivityConstants DEF ActInv
<1>4. a \in Asks
    BY <1>2, <1>3 DEF Asks
<1>5. /\ a.pc = "more" /\ a.kind = ask.kind /\ a.of = ask.of /\ a.since = ask.since
      /\ a.events = ask.events /\ a.failed = ask.failed /\ a.known = ask.known
    BY <1>2 DEF Asks
<1> HIDE DEF a
<1>6. KnowsAll(a)
    BY <1>1, <1>2, <1>5 DEF Fits, KnowsAll
<1>7. Fits(a)
    BY <1>2, <1>5, <1>6 DEF Fits
<1> QED  BY <1>1, <1>4, <1>7, AskMoves

LEMMA ReadsMore ==
    ASSUME ActInv, NEW p \in Act!Products, NEW failed \in SUBSET Act!RowsOf(p), Act!ReadMore(p, failed)
    PROVE  ActInv'
<1> DEFINE more == Act!Fetched(p, failed, ask.longer)
           a == [ask EXCEPT !.pc = "answered", !.more = more, !.today = Act!DayOf(time)]
<1>1. ask.pc = "more" /\ p \in ask.of /\ ask' = a /\ UNCHANGED <<time, pushed>>
    BY DEF Act!ReadMore
<1>2. ask \in Asks /\ Fits(ask)
    BY <1>1, AskTypes DEF ActInv
<1>3. more \in SUBSET Seen
    BY ReadIs DEF ActInv
<1>4. \A e \in more : /\ e.row \in Rows /\ ProductOf[e.row] = p /\ e.commit \in pushed
                      /\ e.commit \in NewestOf(pushed, Upstream[e.row])
                      /\ e = [row |-> e.row, commit |-> e.commit]
    <2>1. \A e \in Seen : e = [row |-> e.row, commit |-> e.commit] /\ e.row \in Rows /\ e.commit \in pushed
        BY DEF Seen
    <2> QED  BY <1>3, <2>1, FetchedIs
<1> HIDE DEF more
<1>5. time \in Int /\ Act!DayOf(time) \in Int
    BY DaysGoOn DEF ActInv, ActTypes
<1>6. a \in Asks
    BY <1>2, <1>3, <1>5 DEF Asks
<1>7. /\ a.pc = "answered" /\ a.kind = ask.kind /\ a.of = ask.of /\ a.since = ask.since
      /\ a.events = ask.events /\ a.more = more /\ a.failed = ask.failed /\ a.known = ask.known
      /\ a.today = Act!DayOf(time)
    BY <1>2 DEF Asks
<1> HIDE DEF a
<1>8. ask.known \subseteq pushed /\ IsFiniteSet(pushed) /\ ask.events \subseteq Seen /\ ask.since \in Int
    BY <1>2 DEF ActInv, ActTypes, Asks
<1>9. Older(a)
    <2> SUFFICES ASSUME NEW e \in Act!Previous(more, ask.events),
                        ~(e.commit.at < ask.since), e.commit \in ask.known, e.row \notin ask.failed
                 PROVE  FALSE
        BY <1>7 DEF Older
    <2>1. e \in more /\ \A f \in ask.events : f.commit.id # e.commit.id
        BY DEF Act!Previous
    <2>2. e.commit \in NewestOf(ask.known, Upstream[e.row])
        BY <1>4, <1>8, <2>1, NewestStays
    <2>3. e.commit.at \in Nat
        BY <1>3, <2>1, SeenIs DEF ActInv
    <2>4. e.commit.at >= ask.since
        BY <1>8, <2>3
    <2>5. KnowsAll(ask)
        BY <1>1, <1>2 DEF Fits
    <2>6. [row |-> e.row, commit |-> e.commit] \in ask.events
        BY <1>1, <1>4, <2>1, <2>2, <2>4, <2>5 DEF KnowsAll
    <2> QED  BY <1>4, <2>1, <2>6
<1>10. \A e \in a.events : Act!DayOf(e.commit.at) <= a.today
    <2>1. \A e \in Seen : e.commit.at \in Int /\ e.commit.at <= time
        BY SeenIs DEF ActInv
    <2> QED  BY <1>5, <1>7, <1>8, <2>1, DaysGoOn
<1>11. Fits(a)
    BY <1>2, <1>7, <1>9, <1>10 DEF Fits
<1> QED  BY <1>1, <1>6, <1>11, AskMoves

LEMMA ReadsBoth ==
    ASSUME ActInv, NEW p \in Act!Products, NEW failed \in SUBSET Act!RowsOf(p), Act!ReadBoth(p, failed)
    PROVE  ActInv'
<1> DEFINE all == Act!Fetched(p, failed, ask.longer)
           events == Act!Current(all, ask.since)
           a == [ask EXCEPT !.pc = "read", !.events = events, !.more = all \ events]
<1>1. /\ ask.pc = "asked" /\ ask.kind = "velocity" /\ (ask' = Act!Idle \/ ask' = a)
      /\ UNCHANGED <<time, pushed>>
    BY DEF Act!ReadBoth
<1>2. ask \in Asks /\ Fits(ask)
    BY <1>1, AskTypes DEF ActInv
<1>3. all \in SUBSET Seen
    BY ReadIs DEF ActInv
<1>4. events \subseteq all /\ \A e \in events : e.commit.at >= ask.since
    BY DEF Act!Current
<1> HIDE DEF all, events
<1>5. a \in Asks
    BY <1>2, <1>3, <1>4 DEF Asks
<1>6. a.pc = "read" /\ a.kind = ask.kind /\ a.of = ask.of /\ a.since = ask.since /\ a.events = events
    BY <1>2 DEF Asks
<1> HIDE DEF a
<1>7. Fits(a)
    BY <1>1, <1>2, <1>4, <1>6 DEF Fits
<1> QED  BY <1>1, <1>5, <1>7, AskMoves

LEMMA ReadsProduct ==
    ASSUME ActInv, NEW p \in Act!Products, NEW failed \in SUBSET Act!RowsOf(p), Act!ReadProduct(p, failed)
    PROVE  ActInv'
<1> DEFINE new == Act!Fetched(p, failed, Act!Start(Period))
           events == ask.events \cup new
           pc == IF ask.of = {p} THEN "read" ELSE ask.pc
           a == [ask EXCEPT !.of = ask.of \ {p}, !.events = events, !.pc = pc]
<1>1. /\ ask.pc = "asked" /\ ask.kind = "team" /\ ask' = a /\ UNCHANGED <<time, pushed>>
    BY DEF Act!ReadProduct
<1>2. ask \in Asks /\ Fits(ask)
    BY <1>1, AskTypes DEF ActInv
<1>3. new \in SUBSET Seen
    BY ReadIs DEF ActInv
<1> HIDE DEF new
<1>4. events \in SUBSET Seen
    BY <1>2, <1>3 DEF Asks
<1> HIDE DEF events
<1>5. pc \in {"read", "asked"}
    BY <1>1
<1> HIDE DEF pc
<1>6. a \in Asks
    BY <1>2, <1>4, <1>5 DEF Asks
<1>7. a.pc = pc /\ a.kind = ask.kind
    BY <1>2 DEF Asks
<1> HIDE DEF a
<1>8. Fits(a)
    BY <1>1, <1>5, <1>7 DEF Fits
<1> QED  BY <1>1, <1>6, <1>8, AskMoves

LEMMA AnswersNow == ASSUME ActInv, Act!Answer PROVE ActInv'
<1> DEFINE a == [ask EXCEPT !.pc = "answered", !.today = Act!DayOf(time)]
<1>1. ask.pc = "read" /\ ask' = a /\ UNCHANGED <<time, pushed>>
    BY DEF Act!Answer
<1>2. ask \in Asks /\ Fits(ask)
    BY <1>1, AskTypes DEF ActInv
<1>3. time \in Int /\ Act!DayOf(time) \in Int
    BY DaysGoOn DEF ActInv, ActTypes
<1>4. a \in Asks
    BY <1>2, <1>3 DEF Asks
<1>5. /\ a.pc = "answered" /\ a.kind = ask.kind /\ a.of = ask.of /\ a.since = ask.since
      /\ a.events = ask.events /\ a.today = Act!DayOf(time)
    BY <1>2 DEF Asks
<1> HIDE DEF a
<1>6. \A e \in a.events : Act!DayOf(e.commit.at) <= a.today
    <2>1. \A e \in Seen : e.commit.at \in Int /\ e.commit.at <= time
        BY SeenIs DEF ActInv
    <2>2. ask.events \subseteq Seen
        BY <1>2 DEF Asks
    <2> QED  BY <1>3, <1>5, <2>1, <2>2, DaysGoOn
<1>7. ask.kind # "summary"
    BY <1>1, <1>2 DEF Fits
<1>8. Fits(a)
    BY <1>2, <1>5, <1>6, <1>7 DEF Fits
<1> QED  BY <1>1, <1>4, <1>8, AskMoves

LEMMA ActGoesOn == ASSUME ActInv, Act!Next PROVE ActInv'
<1>1. CASE \E r \in Rows, a \in Authors, t \in 0 .. LastTime : Act!Push(Upstream[r], a, t)
    BY <1>1, Pushes
<1>2. CASE \E p \in Act!Products : \E kind \in {"summary", "velocity", "page"} : Act!Ask(kind, p)
    BY <1>2, AsksOne
<1>3. CASE \E p \in Act!Products : \E failed \in SUBSET Act!RowsOf(p) :
              \/ Act!ReadPeriod(p, failed) \/ Act!ReadMore(p, failed)
              \/ Act!ReadBoth(p, failed) \/ Act!ReadProduct(p, failed)
    BY <1>3, ReadsPeriod, ReadsMore, ReadsBoth, ReadsProduct
<1>4. CASE Act!AskMore \/ Act!AskTeam \/ Act!Answer
    BY <1>4, AsksMore, AsksTeam, AnswersNow
<1>5. CASE Act!End
    BY <1>5, AskMoves DEF Act!End
<1>6. CASE Act!Tick
    BY <1>6, ActTicks
<1> QED  BY <1>1, <1>2, <1>3, <1>4, <1>5, <1>6 DEF Act!Next

-----------------------------------------------------------------------------
(* Activity: what the pages say.                                           *)

LEMMA ActTypesHold == ActInv => Act!TypeOK
<1> SUFFICES ASSUME ActInv PROVE Act!TypeOK
    OBVIOUS
<1>1. ask # Act!Idle => ask \in Asks
    BY DEF ActInv, ActTypes
<1>2. ask.pc \in {"idle", "asked", "first", "more", "read", "answered"}
    BY <1>1, AskTypes DEF ActInv, Asks
<1>3. ask # Act!Idle => \A e \in ask.events : e.row \in Rows /\ e.commit \in Act!Commits
    BY <1>1, SeenIs DEF ActInv, Asks
<1> QED  BY <1>2, <1>3 DEF ActInv, ActTypes, Act!TypeOK

LEMMA PreviousHolds == ActInv => Act!PreviousIsOlder
<1> SUFFICES ASSUME ActInv, ask.pc = "answered", ask.kind = "summary" PROVE Older(ask)
    BY DEF Act!PreviousIsOlder, Act!Answered, Older
<1> QED  BY AskTypes DEF ActInv, Fits

LEMMA EarlierStart == ASSUME ActInv PROVE /\ Act!Start(Period) \in Int /\ Act!Start(Extended) \in Int
                                         /\ Act!Start(Extended) <= Act!Start(Period)
<1>1. Period \in Nat /\ Extended \in Nat /\ Extended >= Period /\ DayLen \in Nat /\ time \in Int
    BY ActivityConstants DEF ActInv, ActTypes
<1>2. PICK k \in Nat : Extended = Period + k
    <2>1. Extended - Period \in Nat /\ Extended = Period + (Extended - Period)
        BY <1>1
    <2> QED  BY <2>1
<1>3. k * DayLen \in Nat /\ Period * DayLen \in Nat /\ Extended * DayLen \in Nat
    BY <1>1
<1>4. Extended * DayLen = Period * DayLen + k * DayLen
    BY <1>1, <1>2
<1> QED  BY <1>1, <1>3, <1>4 DEF Act!Start

LEMMA CalmHolds == ActInv => Act!CalmViewsAgree
<1> SUFFICES ASSUME ActInv, NEW p \in Act!Products
             PROVE  LET events == Act!Fetched(p, {}, Act!Start(Period))
                        all == Act!Fetched(p, {}, Act!Start(Extended))
                        before == Act!Previous(all, events)
                        n == Act!Cardinality(events)
                        b == Act!Cardinality(before)
                    IN  /\ Act!Current(all, Act!Start(Period)) = events
                        /\ b > 0 /\ Act!Label(n, b) = "faster" => Act!Trend(n, b) = "up"
                        /\ b > 0 /\ Act!Label(n, b) = "slower" => Act!Trend(n, b) = "down"
    BY DEF Act!CalmViewsAgree
<1> DEFINE events == Act!Fetched(p, {}, Act!Start(Period))
           all == Act!Fetched(p, {}, Act!Start(Extended))
           before == Act!Previous(all, events)
           n == Cardinality(events)
           b == Cardinality(before)
<1>1. /\ events \in SUBSET Seen /\ all \in SUBSET Seen
    BY ReadIs DEF ActInv
<1>2. Act!Current(all, Act!Start(Period)) = events
    <2>1. ASSUME NEW e \in Seen PROVE e \in all /\ e.commit.at >= Act!Start(Period) <=> e \in events
        <3>1. e.commit.at \in Int
            BY SeenIs DEF ActInv
        <3>2. e \in events => e.commit.at >= Act!Start(Period) /\ e.commit.at >= Act!Start(Extended)
            BY <3>1, FetchedIs, EarlierStart
        <3>3. e \in events => e \in all
            BY <3>2, FetchedIs
        <3>4. e \in all /\ e.commit.at >= Act!Start(Period) => e \in events
            BY FetchedIs
        <3> QED  BY <3>2, <3>3, <3>4
    <2> HIDE DEF events, all
    <2> QED  BY <1>1, <2>1 DEF Act!Current
<1>3. IsFiniteSet(events) /\ IsFiniteSet(before)
    <2>1. before \in SUBSET Seen
        BY <1>1 DEF Act!Previous
    <2> HIDE DEF events, before
    <2> QED  BY <1>1, <2>1, FS_Subset, SeenIs DEF ActInv
<1>4. n \in Nat /\ b \in Nat
    BY <1>3, FS_CardinalityType
<1>5. Act!Cardinality(events) = n /\ Act!Cardinality(before) = b
    BY ActCounts
<1> HIDE DEF n, b
<1>6. b > 0 /\ Act!Label(n, b) = "faster" => Act!Trend(n, b) = "up"
    <2> SUFFICES ASSUME b > 0, Act!Label(n, b) = "faster" PROVE Act!Trend(n, b) = "up"
        OBVIOUS
    <2>1. b # 0 /\ 10 * n > 11 * b
        BY <1>4 DEF Act!Label
    <2>2. 20 * (n - b) >= b
        BY <1>4, <2>1
    <2> QED  BY <2>1, <2>2 DEF Act!Trend
<1>7. b > 0 /\ Act!Label(n, b) = "slower" => Act!Trend(n, b) = "down"
    <2> SUFFICES ASSUME b > 0, Act!Label(n, b) = "slower" PROVE Act!Trend(n, b) = "down"
        OBVIOUS
    <2>1. b # 0 /\ 10 * n < 9 * b
        BY <1>4 DEF Act!Label
    <2>2. 20 * (b - n) >= b /\ ~(20 * (n - b) >= b)
        BY <1>4, <2>1
    <2> QED  BY <2>1, <2>2 DEF Act!Trend
<1> QED  BY <1>2, <1>5, <1>6, <1>7

\* An answer's commits and day.
LEMMA AnsweredIs ==
    ASSUME ActInv, ask.pc = "answered"
    PROVE  /\ ask.events \subseteq Seen /\ IsFiniteSet(ask.events) /\ ask.today \in Int /\ ask.since \in Int
           /\ \A e \in ask.events : /\ Act!DayOf(e.commit.at) \in Int /\ e.commit.at \in Int
                                    /\ Act!DayOf(e.commit.at) <= ask.today
                                    /\ e.commit.by \in Authors
           /\ ask.kind # "team" => \A e \in ask.events : e.commit.at >= ask.since
           /\ Act!Dates(ask.today) \subseteq Int /\ IsFiniteSet(Act!Dates(ask.today))
<1>1. ask \in Asks /\ Fits(ask)
    BY AskTypes DEF ActInv
<1>2. ask.events \subseteq Seen /\ ask.today \in Int /\ ask.since \in Int
    BY <1>1 DEF Asks
<1>3. IsFiniteSet(ask.events)
    BY <1>2, SeenIs, FS_Subset DEF ActInv
<1>4. \A e \in ask.events : e.commit.at \in Int /\ e.commit.by \in Authors
    BY <1>2, SeenIs DEF ActInv
<1>5. \A e \in ask.events : Act!DayOf(e.commit.at) \in Int
    BY <1>4, DaysGoOn
<1>6. Period \in Nat
    BY ActivityConstants
<1>7. Act!Dates(ask.today) \subseteq Int /\ IsFiniteSet(Act!Dates(ask.today))
    <2>1. ask.today - Period + 1 \in Int
        BY <1>2, <1>6
    <2> QED  BY <1>2, <2>1, FS_Interval DEF Act!Dates
<1> QED  BY <1>1, <1>2, <1>3, <1>4, <1>5, <1>7 DEF Fits

\* Bars show how many commits there are of their days.
LEMMA DailyIs ==
    ASSUME NEW E, IsFiniteSet(E), NEW today \in Int
    PROVE  /\ Act!Daily(E, today) = [d \in Act!Dates(today) |-> Cardinality(Act!On(E, d))]
           /\ Act!Daily(E, today) \in [Act!Dates(today) -> Nat]
           /\ \A d : Act!On(E, d) \subseteq E /\ IsFiniteSet(Act!On(E, d)) /\ Cardinality(Act!On(E, d)) \in Nat
           /\ \A d \in Act!Dates(today) : Act!Daily(E, today)[d] <= Cardinality(E)
<1>1. Act!Daily(E, today) = [d \in Act!Dates(today) |-> Cardinality(Act!On(E, d))]
    BY ActCounts DEF Act!Daily
<1>2. \A d : Act!On(E, d) \subseteq E
    BY DEF Act!On
<1>3. \A d : IsFiniteSet(Act!On(E, d)) /\ Cardinality(Act!On(E, d)) \in Nat
               /\ Cardinality(Act!On(E, d)) <= Cardinality(E)
    BY <1>2, FS_Subset, FS_CardinalityType
<1> QED  BY <1>1, <1>2, <1>3

LEMMA ShownIs ==
    ASSUME NEW E, IsFiniteSet(E), NEW today \in Int, IsFiniteSet(Act!Dates(today)),
           NEW new, new = {e \in E : Act!DayOf(e.commit.at) \in Act!Dates(today)}
    PROVE  Act!Shown(Act!Daily(E, today)) = Cardinality(new) /\ IsFiniteSet(new)
<1> DEFINE F == [d \in Act!Dates(today) |-> Act!On(E, d)]
<1>1. DOMAIN F = Act!Dates(today) /\ \A d \in Act!Dates(today) : F[d] = Act!On(E, d)
    OBVIOUS
<1>2. \A d \in Act!Dates(today) : IsFiniteSet(Act!On(E, d))
    BY DailyIs
<1>3. Act!Daily(E, today) = [d \in Act!Dates(today) |-> Cardinality(F[d])]
    BY DailyIs
<1> HIDE DEF F
<1>4. Apart(F)
    BY <1>1 DEF Apart, Act!On
<1>5. \A x : x \in new <=> \E d \in Act!Dates(today) : x \in F[d]
    BY <1>1 DEF Act!On
<1>6. \A d \in Act!Dates(today) : IsFiniteSet(F[d])
    BY <1>1, <1>2
<1>7. IsFiniteSet(new) /\ Act!Total([d \in Act!Dates(today) |-> Cardinality(F[d])]) = Cardinality(new)
    BY <1>1, <1>4, <1>5, <1>6, TotalOfParts
<1> QED  BY <1>3, <1>7 DEF Act!Shown

LEMMA UncountedHold == ActInv => Act!UncountedAreOld
<1> SUFFICES ASSUME ActInv, ask.pc = "answered" PROVE Act!UncountedAreOld
    BY DEF Act!UncountedAreOld
<1> DEFINE E == ask.events
           today == ask.today
           old == {e \in E : Act!DayOf(e.commit.at) \notin Act!Dates(today)}
           new == {e \in E : Act!DayOf(e.commit.at) \in Act!Dates(today)}
           days == Act!ActiveDays(E)
<1>1. Period \in Nat
    BY ActivityConstants
<1>2. Act!Shown(Act!Daily(E, today)) + Cardinality(old) = Cardinality(E)
    <2>1. old \subseteq E /\ E \ old = new /\ E \cap old = old
        OBVIOUS
    <2>2. Act!Shown(Act!Daily(E, today)) = Cardinality(new)
        BY AnsweredIs, ShownIs
    <2>3. Cardinality(E \ old) = Cardinality(E) - Cardinality(E \cap old)
        BY AnsweredIs, FS_Difference
    <2>4. Cardinality(E) \in Nat /\ Cardinality(old) \in Nat
        BY AnsweredIs, <2>1, FS_Subset, FS_CardinalityType
    <2>5. Cardinality(new) = Cardinality(E) - Cardinality(old)
        BY <2>1, <2>3
    <2> HIDE DEF E, old, new, today
    <2> QED  BY <2>2, <2>4, <2>5
<1>3. ASSUME ask.kind # "team", Act!DayOf(ask.since) + Period = today
      PROVE  /\ \A e \in old : Act!DayOf(e.commit.at) = Act!DayOf(ask.since)
             /\ Cardinality(days) <= Period + 1
    <2>1. Act!DayOf(ask.since) \in Int
        BY AnsweredIs, DaysGoOn
    <2>2. ASSUME NEW e \in E
          PROVE  /\ Act!DayOf(e.commit.at) \in today - Period .. today
                 /\ e \in old => Act!DayOf(e.commit.at) = Act!DayOf(ask.since)
        <3>1. /\ Act!DayOf(e.commit.at) \in Int /\ e.commit.at \in Int
              /\ Act!DayOf(e.commit.at) <= today /\ e.commit.at >= ask.since /\ today \in Int
              /\ ask.since \in Int
            BY <1>3, AnsweredIs
        <3>2. ask.since <= e.commit.at
            BY <3>1
        <3>3. Act!DayOf(ask.since) <= Act!DayOf(e.commit.at)
            BY <3>1, <3>2, DaysGoOn
        <3>4. Act!DayOf(e.commit.at) \in today - Period .. today
            BY <1>1, <1>3, <2>1, <3>1, <3>3
        <3>5. e \in old => ~(Act!DayOf(e.commit.at) \in today - Period + 1 .. today)
            BY DEF Act!Dates
        <3> QED  BY <1>1, <1>3, <2>1, <3>1, <3>4, <3>5
    <2>3. days \subseteq today - Period .. today
        BY <2>2 DEF Act!ActiveDays
    <2>4. today \in Int /\ today - Period \in Int
        BY <1>1, AnsweredIs
    <2>5. IsFiniteSet(today - Period .. today) /\ Cardinality(today - Period .. today) = Period + 1
        <3>1. /\ IsFiniteSet(today - Period .. today)
              /\ Cardinality(today - Period .. today)
                   = IF today - Period > today THEN 0 ELSE today - (today - Period) + 1
            BY <2>4, FS_Interval
        <3>2. ~(today - Period > today) /\ today - (today - Period) + 1 = Period + 1
            BY <1>1, <2>4
        <3> QED  BY <3>1, <3>2
    <2>6. IsFiniteSet(days) /\ Cardinality(days) <= Period + 1
        <3> HIDE DEF days
        <3> QED  BY <2>3, <2>5, FS_Subset
    <2> QED  BY <2>2, <2>6
<1> QED  BY <1>2, <1>3, ActCounts DEF Act!UncountedAreOld

LEMMA StreaksHold == ActInv => Act!StreaksAgree
<1> SUFFICES ASSUME ActInv, ask.pc = "answered" PROVE Act!StreaksAgree
    BY DEF Act!StreaksAgree
<1> DEFINE E == ask.events
           today == ask.today
           daily == Act!Daily(E, today)
           own(a) == Act!Daily(Act!By(E, a), today)
<1>1. IsFiniteSet(E) /\ today \in Int
    BY AnsweredIs
<1>2. daily \in [Act!Dates(today) -> Nat]
    BY <1>1, DailyIs
<1>3. Act!TeamStreak(daily, today) > 0 =>
          Act!TeamStreak(daily, today) = Act!MemberStreak(daily, today)
    BY <1>1, TeamAndMember
<1>4. ASSUME NEW a \in Authors
      PROVE  Act!MemberStreak(own(a), today) <= Act!MemberStreak(daily, today)
    <2>1. Act!By(E, a) \subseteq E
        BY DEF Act!By
    <2>2. IsFiniteSet(Act!By(E, a))
        BY <1>1, <2>1, FS_Subset
    <2>3. own(a) \in [Act!Dates(today) -> Nat]
        BY <1>1, <2>2, DailyIs
    <2>4. ASSUME NEW d \in Act!Dates(today) PROVE own(a)[d] <= daily[d]
        <3>1. own(a)[d] = Cardinality(Act!On(Act!By(E, a), d)) /\ daily[d] = Cardinality(Act!On(E, d))
            BY <1>1, <2>2, DailyIs
        <3>2. Act!On(Act!By(E, a), d) \subseteq Act!On(E, d)
            BY DEF Act!On, Act!By
        <3>3. IsFiniteSet(Act!On(E, d))
            BY <1>1, DailyIs
        <3> QED  BY <3>1, <3>2, <3>3, FS_Subset
    <2> HIDE DEF daily, own
    <2> QED  BY <1>1, <1>2, <2>3, <2>4, StreaksCompare
<1>5. Act!Shown(daily) > 0 => daily[Act!Peak(daily)] > 0
    <2> SUFFICES ASSUME Act!Shown(daily) > 0, \A d \in Act!Dates(today) : ~(daily[d] > 0) PROVE FALSE
        <3>1. \A d \in Act!Dates(today) : daily[d] <= Cardinality(E)
            BY <1>1, DailyIs
        <3>2. Cardinality(E) \in Nat
            BY <1>1, FS_CardinalityType
        <3> HIDE DEF daily
        <3>3. \A d \in Act!Dates(today) : daily[d] <= daily[Act!Peak(daily)]
            BY <1>1, <1>2, <3>1, <3>2, PeakIsHigh
        <3>4. \A d \in Act!Dates(today) : daily[d] \in Nat
            BY <1>2
        <3>5. daily[Act!Peak(daily)] \in Nat
            BY <1>1, <1>2, <3>1, <3>2, PeakIsHigh
        <3> QED  BY <3>3, <3>4, <3>5
    <2> DEFINE new == {e \in E : Act!DayOf(e.commit.at) \in Act!Dates(today)}
    <2>1. Act!Shown(daily) = Cardinality(new)
        BY <1>1, AnsweredIs, ShownIs
    <2>2. new = {}
        <3> SUFFICES ASSUME NEW e \in E, Act!DayOf(e.commit.at) \in Act!Dates(today) PROVE FALSE
            OBVIOUS
        <3> DEFINE d == Act!DayOf(e.commit.at)
                   some == Act!On(E, d)
        <3>1. e \in some
            BY DEF Act!On
        <3>2. IsFiniteSet(some) /\ daily[d] = Cardinality(some) /\ Cardinality(some) \in Nat
            BY <1>1, DailyIs
        <3>3. d \in Act!Dates(today)
            OBVIOUS
        <3> HIDE DEF some, daily, d
        <3>4. Cardinality(some) # 0
            BY <3>1, <3>2, FS_EmptySet
        <3> QED  BY <3>2, <3>3, <3>4
    <2> HIDE DEF new
    <2> QED  BY <2>1, <2>2, FS_EmptySet
<1> QED  BY <1>3, <1>4, <1>5 DEF Act!StreaksAgree

-----------------------------------------------------------------------------
(* Activity: members and directories.                                      *)

LEMMA MembersHold == ActInv => Act!MembersAreListed
<1> SUFFICES ASSUME ActInv, ask.pc = "answered", NEW m \in Members
             PROVE  LET mine == {x \in Act!Listed(ask.events) : m \in x.member}
                        spelled == {a \in {e.commit.by : e \in ask.events} : Fold[a] = Username[m]}
                    IN  IF spelled = {} THEN mine = {[name |-> "", member |-> {m}]}
                        ELSE Act!Cardinality(mine) = Act!Cardinality(spelled)
    BY DEF Act!MembersAreListed, Act!Answered
<1> DEFINE authors == {e.commit.by : e \in ask.events}
           known == {a \in authors : Act!Match(a) # {}}
           mine == {x \in Act!Listed(ask.events) : m \in x.member}
           spelled == {a \in authors : Fold[a] = Username[m]}
           entry(a) == [name |-> a, member |-> {m}]
           strangers == [name: authors \ known, member: {{}}]
           named == {[name |-> a, member |-> {CHOOSE n \in Act!Match(a) : TRUE}] : a \in known}
           idle == {[name |-> "", member |-> {n}] : n \in {o \in Members : \A a \in known : o \notin Act!Match(a)}}
<1>1. Act!Listed(ask.events) = strangers \cup named \cup idle
    BY DEF Act!Listed
<1>2. \A a : m \in Act!Match(a) <=> Fold[a] = Username[m]
    BY DEF Act!Match
<1>3. ASSUME NEW a, m \in Act!Match(a) PROVE (CHOOSE n \in Act!Match(a) : TRUE) = m
    <2>1. \A n \in Act!Match(a) : n \in Members /\ Username[n] = Username[m]
        BY <1>3 DEF Act!Match
    <2>2. \A n \in Act!Match(a) : n = m
        BY <2>1, ActivityConstants
    <2> QED  BY <1>3, <2>2
<1>4. \A x \in strangers : m \notin x.member
    OBVIOUS
<1>5. \A a \in spelled : a \in known /\ entry(a) \in named
    <2> TAKE a \in spelled
    <2>1. m \in Act!Match(a) /\ a \in authors
        BY <1>2
    <2>2. a \in known
        BY <2>1
    <2> HIDE DEF known
    <2> QED  BY <1>3, <2>1, <2>2
<1>6. \A x \in named : m \in x.member => \E a \in spelled : x = entry(a)
    <2> TAKE x \in named
    <2> HAVE m \in x.member
    <2>1. PICK a \in known : x = [name |-> a, member |-> {CHOOSE n \in Act!Match(a) : TRUE}]
        OBVIOUS
    <2>2. m = (CHOOSE n \in Act!Match(a) : TRUE)
        BY <2>1
    <2>3. m \in Act!Match(a)
        BY <2>2
    <2>4. a \in spelled
        BY <1>2, <2>3
    <2> QED  BY <2>1, <2>2, <2>4
<1>7. \A x \in idle : m \in x.member => x = entry("") /\ spelled = {}
    <2> TAKE x \in idle
    <2> HAVE m \in x.member
    <2>1. x = entry("") /\ \A a \in known : m \notin Act!Match(a)
        <3>1. PICK n \in Members :
                (\A a \in known : n \notin Act!Match(a)) /\ x = [name |-> "", member |-> {n}]
            OBVIOUS
        <3>2. n = m
            BY <3>1
        <3> HIDE DEF known
        <3> QED  BY <3>1, <3>2
    <2>2. \A a \in spelled : a \in known /\ m \in Act!Match(a)
        BY <1>2, <1>5
    <2> HIDE DEF spelled, known
    <2> QED  BY <2>1, <2>2
<1>8. spelled = {} => entry("") \in idle
    <2> HAVE spelled = {}
    <2>1. \A a \in known : m \notin Act!Match(a)
        BY <1>2
    <2> HIDE DEF known
    <2> QED  BY <2>1
<1>9. \A x \in mine : x \in strangers \/ x \in named \/ x \in idle
    BY <1>1
<1>10. \A x \in mine : m \in x.member
    OBVIOUS
<1>11. \A x : (x \in named \/ x \in idle) /\ m \in x.member => x \in mine
    BY <1>1
<1>12. \A a : m \in entry(a).member /\ entry(a).name = a
    OBVIOUS
<1> HIDE DEF strangers, named, idle, mine, entry
<1>13. CASE spelled = {}
    <2>1. mine = {entry("")}
        BY <1>4, <1>6, <1>7, <1>8, <1>9, <1>10, <1>11, <1>12, <1>13
    <2> QED  BY <1>13, <2>1 DEF mine, entry
<1>14. CASE spelled # {}
    <2> DEFINE h == [a \in spelled |-> entry(a)]
    <2> HIDE DEF spelled
    <2>1. \A x \in mine : \E a \in spelled : x = entry(a)
        BY <1>4, <1>6, <1>7, <1>9, <1>10, <1>14
    <2>2. \A a \in spelled : entry(a) \in mine
        BY <1>5, <1>11, <1>12
    <2>3. h \in [spelled -> mine]
        BY <2>2
    <2>4. \A a, b \in spelled : h[a] = h[b] => a = b
        BY <1>12
    <2>5. \A x \in mine : \E a \in spelled : h[a] = x
        BY <2>1
    <2>6. h \in Bijection(spelled, mine)
        BY <2>3, <2>4, <2>5 DEF Bijection, Injection, Surjection, IsInjective
    <2>7. IsFiniteSet(spelled)
        <3> DEFINE g == [e \in ask.events |-> e.commit.by]
        <3>1. g \in Surjection(ask.events, authors)
            BY DEF Surjection
        <3>2. IsFiniteSet(authors)
            BY <3>1, AnsweredIs, FS_Surjection
        <3> HIDE DEF authors
        <3> QED  BY <3>2, FS_Subset DEF spelled
    <2>8. Cardinality(mine) = Cardinality(spelled)
        BY <2>6, <2>7, FS_Bijection DEF ExistsBijection
    <2> QED  BY <1>14, <2>8, ActCounts DEF mine, spelled
<1> QED  BY <1>13, <1>14

Components == Rows \cup STRING

LEMMA AboveIs ==
    ASSUME NEW f \in Seq(Components)
    PROVE  /\ \A d : d \in Act!Above(f) <=> \E n \in 1 .. Len(f) - 1 : d = SubSeq(f, 1, n)
           /\ \A n \in 1 .. Len(f) - 1 : SubSeq(f, 1, n) \in Seq(Components) /\ Len(SubSeq(f, 1, n)) = n
           /\ \A d \in Act!Above(f) : /\ d \in Seq(Components) /\ Len(d) \in 1 .. Len(f) - 1
                                      /\ d = SubSeq(f, 1, Len(d))
           /\ IsFiniteSet(Act!Above(f))
<1>1. \A d : d \in Act!Above(f) <=> \E n \in 1 .. Len(f) - 1 : d = SubSeq(f, 1, n)
    BY DEF Act!Above
<1>2. Len(f) \in Nat /\ \A i \in 1 .. Len(f) : f[i] \in Components
    OBVIOUS
<1>3. ASSUME NEW n \in 1 .. Len(f) - 1
      PROVE  SubSeq(f, 1, n) \in Seq(Components) /\ Len(SubSeq(f, 1, n)) = n
    <2>1. n \in Int /\ 1 <= n /\ n - 1 + 1 = n /\ \A i \in 1 .. n : f[i] \in Components
        BY <1>2
    <2> QED  BY <2>1, SubSeqProperties
<1>4. \A d \in Act!Above(f) : /\ d \in Seq(Components) /\ Len(d) \in 1 .. Len(f) - 1
                              /\ d = SubSeq(f, 1, Len(d))
    BY <1>1, <1>3
<1>5. IsFiniteSet(Act!Above(f))
    <2> DEFINE h == [n \in 1 .. Len(f) - 1 |-> SubSeq(f, 1, n)]
    <2>1. h \in [1 .. Len(f) - 1 -> Act!Above(f)]
        BY <1>1
    <2>2. \A d \in Act!Above(f) : \E n \in 1 .. Len(f) - 1 : h[n] = d
        BY <1>1
    <2>3. h \in Surjection(1 .. Len(f) - 1, Act!Above(f))
        BY <2>1, <2>2 DEF Surjection
    <2>4. IsFiniteSet(1 .. Len(f) - 1)
        BY <1>2, FS_Interval
    <2> QED  BY <2>3, <2>4, FS_Surjection
<1> QED  BY <1>1, <1>3, <1>4, <1>5

\* The directory around a directory is above the same files.
LEMMA AroundIs ==
    ASSUME NEW f \in Seq(Components), NEW c \in Act!Above(f), Len(c) > 1
    PROVE  Act!Front(c) \in Act!Above(f)
<1>1. /\ c \in Seq(Components) /\ Len(c) \in 1 .. Len(f) - 1 /\ c = SubSeq(f, 1, Len(c))
      /\ Len(f) \in Nat
    BY AboveIs
<1> DEFINE n == Len(c)
<1>2. Act!Front(c) = SubSeq(c, 1, n - 1)
    BY DEF Act!Front
<1>3. n \in 1 .. Len(f) /\ 1 \in 1 .. Len(f) /\ n - 1 \in 1 .. n - 1 + 1 /\ 1 \in 1 .. n - 1 + 1
      /\ 1 + 1 - 1 = 1 /\ 1 + (n - 1) - 1 = n - 1 /\ n - 1 \in 1 .. Len(f) - 1
    BY <1>1
<1>4. c = SubSeq(f, 1, n)
    BY <1>1
<1> HIDE DEF n
<1>5. SubSeq(SubSeq(f, 1, n), 1, n - 1) = SubSeq(f, 1 + 1 - 1, 1 + (n - 1) - 1)
    BY <1>3, SubSeqOfSubSeq
<1>6. Act!Front(c) = SubSeq(f, 1, n - 1)
    BY <1>2, <1>3, <1>4, <1>5
<1> QED  BY <1>3, <1>6, AboveIs

LEMMA FilesAre ==
    ASSUME NEW E, E \subseteq Seen, IsFiniteSet(E), ActTypes
    PROVE  /\ IsFiniteSet(Act!Files(E))
           /\ \A f \in Act!Files(E) : f \in Seq(Components) /\ Len(f) >= 2
           /\ \A e \in E : Act!Paths(e) \subseteq Act!Files(E)
<1>1. ASSUME NEW e \in E
      PROVE  /\ IsFiniteSet(Act!Paths(e))
             /\ \A f \in Act!Paths(e) : f \in Seq(Components) /\ Len(f) >= 2
    <2>1. e.row \in Rows /\ e.commit.by \in Authors
        BY SeenIs
    <2> DEFINE below == Touched[e.commit.by]
               h == [f \in below |-> <<e.row>> \o f]
    <2>2. IsFiniteSet(below) /\ below \subseteq Seq(STRING) \ {<<>>}
        BY <2>1, ActivityConstants
    <2>3. Act!Paths(e) = {<<e.row>> \o f : f \in below}
        BY DEF Act!Paths
    <2> HIDE DEF below
    <2>4. h \in Surjection(below, Act!Paths(e))
        BY <2>3 DEF Surjection
    <2>5. IsFiniteSet(Act!Paths(e))
        BY <2>2, <2>4, FS_Surjection
    <2>6. ASSUME NEW f \in below PROVE <<e.row>> \o f \in Seq(Components) /\ Len(<<e.row>> \o f) >= 2
        <3>1. f \in Seq(STRING) /\ f # <<>>
            BY <2>2
        <3>2. f \in Seq(Components) /\ Len(f) \in Nat
            BY <3>1 DEF Components
        <3>3. Len(f) # 0
            BY <3>1
        <3>4. <<e.row>> \in Seq(Components) /\ Len(<<e.row>>) = 1
            BY <2>1 DEF Components
        <3>5. <<e.row>> \o f \in Seq(Components) /\ Len(<<e.row>> \o f) = Len(<<e.row>>) + Len(f)
            BY <3>2, <3>4, ConcatProperties
        <3> QED  BY <3>2, <3>3, <3>4, <3>5
    <2> QED  BY <2>3, <2>5, <2>6
<1> DEFINE All == {Act!Paths(e) : e \in E}
           g == [e \in E |-> Act!Paths(e)]
<1>2. g \in Surjection(E, All)
    BY DEF Surjection
<1>3. IsFiniteSet(All)
    BY <1>2, FS_Surjection
<1>4. Act!Files(E) = UNION All
    BY DEF Act!Files
<1>5. \A x \in All : IsFiniteSet(x)
    BY <1>1
<1>6. IsFiniteSet(UNION All)
    <2> HIDE DEF All
    <2> QED  BY <1>3, <1>5, FS_UNION
<1> QED  BY <1>1, <1>4, <1>6

LEMMA DirectoriesAre ==
    ASSUME NEW F, IsFiniteSet(F), \A f \in F : f \in Seq(Components)
    PROVE  IsFiniteSet(UNION {Act!Above(f) : f \in F})
<1> DEFINE All == {Act!Above(f) : f \in F}
           g == [f \in F |-> Act!Above(f)]
<1>1. g \in Surjection(F, All)
    BY DEF Surjection
<1>2. IsFiniteSet(All)
    BY <1>1, FS_Surjection
<1>3. \A x \in All : IsFiniteSet(x)
    BY AboveIs
<1> HIDE DEF All
<1>4. IsFiniteSet(UNION All)
    BY <1>2, <1>3, FS_UNION
<1> QED  BY <1>4 DEF All

\* Changes: a file with a commit that touches it, below a directory.
Touch(E, files) == [f \in files |-> {e \in E : f \in Act!Paths(e)}]
Changes(E) == Pairs(Touch(E, Act!Files(E)))
Inside(E, d) == Pairs(Touch(E, {f \in Act!Files(E) : d \in Act!Above(f)}))

LEMMA TouchesCount ==
    ASSUME NEW E, IsFiniteSet(E), NEW files, IsFiniteSet(files)
    PROVE  /\ IsFiniteSet(Pairs(Touch(E, files)))
           /\ Act!Total([f \in files |-> Act!FileCommits(E, f)]) = Cardinality(Pairs(Touch(E, files)))
<1> DEFINE F == Touch(E, files)
<1>1. DOMAIN F = files /\ \A f \in files : F[f] = {e \in E : f \in Act!Paths(e)}
    BY DEF Touch
<1>2. \A f \in files : F[f] \subseteq E
    BY <1>1
<1>3. \A f \in files : IsFiniteSet(F[f])
    BY <1>2, FS_Subset
<1>4. [f \in files |-> Act!FileCommits(E, f)] = [f \in files |-> Cardinality(F[f])]
    BY <1>1, ActCounts DEF Act!FileCommits
<1> HIDE DEF F
<1>5. /\ IsFiniteSet(Pairs(F))
      /\ Act!Total([f \in files |-> Cardinality(F[f])]) = Cardinality(Pairs(F))
    BY <1>1, <1>3, TotalCounts
<1> QED  BY <1>4, <1>5 DEF F

LEMMA InsideIs ==
    ASSUME NEW E
    PROVE  /\ \A x \in Changes(E) : x[1] \in Act!Files(E)
           /\ \A d, x : x \in Inside(E, d) <=> x \in Changes(E) /\ d \in Act!Above(x[1])
<1>1. \A files, x : x \in Pairs(Touch(E, files)) <=>
          \E f \in files : \E e \in {y \in E : f \in Act!Paths(y)} : x = <<f, e>>
    <2> TAKE files, x
    <2>1. DOMAIN Touch(E, files) = files /\ \A f \in files : Touch(E, files)[f] = {y \in E : f \in Act!Paths(y)}
        BY DEF Touch
    <2> QED  BY <2>1, PairsAre
<1>2. \A x \in Changes(E) : x[1] \in Act!Files(E)
    BY <1>1 DEF Changes
<1>3. ASSUME NEW d, NEW x, x \in Inside(E, d) PROVE x \in Changes(E) /\ d \in Act!Above(x[1])
    <2>1. PICK f \in {g \in Act!Files(E) : d \in Act!Above(g)} :
            \E e \in {y \in E : f \in Act!Paths(y)} : x = <<f, e>>
        BY <1>1, <1>3 DEF Inside
    <2>2. f \in Act!Files(E) /\ d \in Act!Above(f) /\ x[1] = f
        BY <2>1
    <2> QED  BY <1>1, <2>1, <2>2 DEF Changes
<1>4. ASSUME NEW d, NEW x, x \in Changes(E), d \in Act!Above(x[1]) PROVE x \in Inside(E, d)
    <2>1. PICK f \in Act!Files(E) : \E e \in {y \in E : f \in Act!Paths(y)} : x = <<f, e>>
        BY <1>1, <1>4 DEF Changes
    <2>2. x[1] = f
        BY <2>1
    <2>3. f \in {g \in Act!Files(E) : d \in Act!Above(g)}
        BY <1>4, <2>2
    <2> QED  BY <1>1, <2>1, <2>3 DEF Inside
<1> QED  BY <1>2, <1>3, <1>4

LEMMA DirCommitsAre ==
    ASSUME NEW E, E \subseteq Seen, IsFiniteSet(E), ActTypes, NEW d
    PROVE  IsFiniteSet(Inside(E, d)) /\ Act!DirCommits(E, d) = Cardinality(Inside(E, d))
<1> DEFINE files == {f \in Act!Files(E) : d \in Act!Above(f)}
<1>1. IsFiniteSet(files)
    BY FilesAre, FS_Subset
<1>2. Act!DirCommits(E, d) = Act!Total([f \in files |-> Act!FileCommits(E, f)])
    BY DEF Act!DirCommits
<1>3. Inside(E, d) = Pairs(Touch(E, files))
    BY DEF Inside
<1> HIDE DEF files
<1> QED  BY <1>1, <1>2, <1>3, TouchesCount

\* Directories of one length have no change in common.
LEMMA LevelAddsUp ==
    ASSUME NEW E, E \subseteq Seen, IsFiniteSet(E), ActTypes,
           NEW level, level \subseteq Act!Directories(E), \A c, d \in level : Len(c) = Len(d),
           NEW U, \A x : x \in U <=> \E d \in level : x \in Inside(E, d)
    PROVE  IsFiniteSet(U) /\ Act!Total([d \in level |-> Act!DirCommits(E, d)]) = Cardinality(U)
<1> DEFINE F == [d \in level |-> Inside(E, d)]
<1>1. DOMAIN F = level /\ \A d \in level : F[d] = Inside(E, d)
    OBVIOUS
<1>2. \A d \in level : IsFiniteSet(Inside(E, d)) /\ Act!DirCommits(E, d) = Cardinality(Inside(E, d))
    BY DirCommitsAre
<1>3. [d \in level |-> Act!DirCommits(E, d)] = [d \in level |-> Cardinality(F[d])]
    BY <1>2
<1>4. IsFiniteSet(level)
    <2>1. IsFiniteSet(Act!Directories(E))
        BY FilesAre, DirectoriesAre DEF Act!Directories
    <2> QED  BY <2>1, FS_Subset
<1> HIDE DEF F
<1>5. Apart(F)
    <2> SUFFICES ASSUME NEW c \in level, NEW d \in level, NEW x, x \in Inside(E, c), x \in Inside(E, d)
                 PROVE  c = d
        BY <1>1 DEF Apart
    <2>1. x[1] \in Act!Files(E) /\ c \in Act!Above(x[1]) /\ d \in Act!Above(x[1])
        BY InsideIs
    <2>2. x[1] \in Seq(Components)
        BY <2>1, FilesAre
    <2>3. c = SubSeq(x[1], 1, Len(c)) /\ d = SubSeq(x[1], 1, Len(d))
        BY <2>1, <2>2, AboveIs
    <2> QED  BY <2>3
<1>6. \A d \in level : IsFiniteSet(F[d])
    BY <1>1, <1>2
<1>7. \A x : x \in U <=> \E d \in level : x \in F[d]
    BY <1>1
<1> QED  BY <1>1, <1>3, <1>4, <1>5, <1>6, <1>7, TotalOfParts

LEMMA DirectoriesHold == ActInv => Act!DirectoriesAddUp
<1> SUFFICES ASSUME ActInv, ask.pc = "answered" PROVE Act!DirectoriesAddUp
    BY DEF Act!DirectoriesAddUp, Act!Answered
<1> DEFINE E == ask.events
           tops == {d \in Act!Directories(E) : Len(d) = 1}
           below(d) == {c \in Act!Directories(E) : Len(c) = Len(d) + 1 /\ Act!Front(c) = d}
<1>1. E \subseteq Seen /\ IsFiniteSet(E) /\ ActTypes
    BY AnsweredIs DEF ActInv
<1>2. Act!Total([d \in tops |-> Act!DirCommits(E, d)])
        = Act!Total([f \in Act!Files(E) |-> Act!FileCommits(E, f)])
    <2>1. ASSUME NEW x, x \in Changes(E) PROVE \E d \in tops : x \in Inside(E, d)
        <3> DEFINE d == SubSeq(x[1], 1, 1)
        <3>1. x[1] \in Act!Files(E) /\ x[1] \in Seq(Components) /\ Len(x[1]) >= 2
            BY <1>1, <2>1, InsideIs, FilesAre
        <3>2. 1 \in 1 .. Len(x[1]) - 1
            BY <3>1
        <3>3. d \in Act!Above(x[1]) /\ Len(d) = 1
            BY <3>1, <3>2, AboveIs
        <3>4. d \in tops
            BY <3>1, <3>3 DEF Act!Directories
        <3> QED  BY <2>1, <3>3, <3>4, InsideIs
    <2>2. \A x : x \in Changes(E) <=> \E d \in tops : x \in Inside(E, d)
        BY <2>1, InsideIs
    <2>3. tops \subseteq Act!Directories(E) /\ \A c, d \in tops : Len(c) = Len(d)
        OBVIOUS
    <2> HIDE DEF tops
    <2>4. Act!Total([d \in tops |-> Act!DirCommits(E, d)]) = Cardinality(Changes(E))
        BY <1>1, <2>2, <2>3, LevelAddsUp
    <2>5. Act!Total([f \in Act!Files(E) |-> Act!FileCommits(E, f)]) = Cardinality(Changes(E))
        BY <1>1, FilesAre, TouchesCount DEF Changes
    <2> QED  BY <2>4, <2>5
<1>3. ASSUME NEW d \in Act!Directories(E)
      PROVE  Act!DirCommits(E, d) >= Act!Total([c \in below(d) |-> Act!DirCommits(E, c)])
    <2> DEFINE level == below(d)
               U == {x \in Inside(E, d) : \E c \in level : x \in Inside(E, c)}
    <2>1. level \subseteq Act!Directories(E) /\ \A b, c \in level : Len(b) = Len(c)
        OBVIOUS
    <2>2. Len(d) \in Nat /\ Len(d) >= 1
        <3>1. PICK f \in Act!Files(E) : d \in Act!Above(f)
            BY DEF Act!Directories
        <3>2. f \in Seq(Components) /\ Len(f) \in Nat
            BY <1>1, FilesAre
        <3>3. Len(d) \in 1 .. Len(f) - 1
            BY <3>1, <3>2, AboveIs
        <3> QED  BY <3>2, <3>3
    <2>3. ASSUME NEW c \in level, NEW x, x \in Inside(E, c) PROVE x \in Inside(E, d)
        <3>1. x \in Changes(E) /\ c \in Act!Above(x[1]) /\ x[1] \in Act!Files(E)
            BY <2>3, InsideIs
        <3>2. x[1] \in Seq(Components)
            BY <1>1, <3>1, FilesAre
        <3>3. Len(c) > 1 /\ Act!Front(c) = d
            BY <2>2
        <3>4. d \in Act!Above(x[1])
            BY <3>1, <3>2, <3>3, AroundIs
        <3> QED  BY <3>1, <3>4, InsideIs
    <2> HIDE DEF level
    <2>4. \A x : x \in U <=> \E c \in level : x \in Inside(E, c)
        BY <2>3
    <2>5. U \subseteq Inside(E, d)
        OBVIOUS
    <2> HIDE DEF U
    <2>6. IsFiniteSet(U) /\ Act!Total([c \in level |-> Act!DirCommits(E, c)]) = Cardinality(U)
        BY <1>1, <2>1, <2>4, LevelAddsUp
    <2>7. IsFiniteSet(Inside(E, d)) /\ Act!DirCommits(E, d) = Cardinality(Inside(E, d))
        BY <1>1, DirCommitsAre
    <2>8. Cardinality(U) <= Cardinality(Inside(E, d)) /\ Cardinality(U) \in Nat
          /\ Cardinality(Inside(E, d)) \in Nat
        BY <2>5, <2>6, <2>7, FS_Subset, FS_CardinalityType
    <2>9. Act!DirCommits(E, d) >= Act!Total([c \in level |-> Act!DirCommits(E, c)])
        BY <2>6, <2>7, <2>8
    <2> QED  BY <2>9 DEF level
<1> QED  BY <1>2, <1>3 DEF Act!DirectoriesAddUp

\* Activity: for any commits, pushes between the reads of a request and reads
\* that fail: a summary compares with what is older, two views of an undisturbed
\* period agree, and streaks, members and directories add up.
THEOREM PagesAgreed == Spec => []PagesAgree
<1>1. Init => ActInv
    BY ActBegins DEF Init
<1>2. ActInv /\ [Next]_<<part, digests, summaries, dashboard, activity, agentChat>> => ActInv'
    BY ActGoesOn, ActRests DEF Next
<1>3. ActInv => PagesAgree
    BY ActTypesHold, PreviousHolds, CalmHolds, UncountedHold, StreaksHold, MembersHold, DirectoriesHold
       DEF PagesAgree
<1> QED  BY <1>1, <1>2, <1>3, PTL DEF Spec
=============================================================================
