-------------------------- MODULE MCGitHub_proofs ---------------------------
(***************************************************************************)
(* Proofs about what the program keeps of GitHub: its installations and    *)
(* the repositories of the products, for any numbers of installations,     *)
(* organizations, repositories, requests and webhooks, and the pages of    *)
(* the timeline.                                                           *)
(***************************************************************************)
EXTENDS MCGitHub, Sequences, SequenceTheorems, FiniteSetTheorems, WellFoundedInduction, TLAPS

Vars == <<part, installations, repositories, timeline>>

-----------------------------------------------------------------------------
(* Installations: a row and the webhooks still on their way, taken in the   *)
(* order they were sent, give what GitHub has.                              *)

Hook == [inst: Installs, kind: {"deleted", "suspend", "unsuspend", "added", "removed"},
         repos: SUBSET AppRepos]
InstallRow == [org: Orgs \cup {NoOrg}, all: BOOLEAN, suspended: BOOLEAN, repos: SUBSET AppRepos]
OnGitHub == [state: {"new", "live", "suspended", "gone"}, all: BOOLEAN, repos: SUBSET AppRepos]
Linking == [org: Orgs \cup {NoOrg}, inst: SUBSET Installs, all: SUBSET BOOLEAN, stale: BOOLEAN]

InstallTypes ==
    /\ gh \in [Installs -> OnGitHub] /\ installed \in [Installs -> InstallRow]
    /\ \A i \in Installs : ~I!Stored(i) => installed[i] = I!NoRow
    /\ cached \subseteq Installs /\ behind \subseteq Installs /\ raced \subseteq Orgs
    /\ link \in [Admins -> Linking] /\ hooks \in Seq(Hook)

\* A link request that found a live installation with no repositories of its
\* own, before any webhook of it came, still knows what GitHub has.
LinksAreFresh ==
    \A a \in Admins :
      /\ link[a].inst # {} => link[a].org \in Orgs
      /\ \A i, j \in link[a].inst : i = j
      /\ \A i \in Installs :
           (i \in link[a].inst /\ link[a].all # {} /\ ~link[a].stale /\ ~I!Pending(i)) =>
               gh[i].state = "live" /\ gh[i].repos = {} /\ link[a].all = {gh[i].all}

\* One link request, one installation for an organization without a race.
Unraced ==
    \A o \in Orgs \ raced :
      /\ \A a, b \in Admins : link[a].org = o /\ link[b].org = o => a = b
      /\ \A i, j \in Installs : installed[i].org = o /\ installed[j].org = o => i = j
      /\ (\E a \in Admins : link[a].org = o) => \A i \in Installs : installed[i].org # o

\* t[n] is the row of i after the first n webhooks; others leave it alone.
Replay(i, t) ==
    /\ t[0] = installed[i]
    /\ \A n \in 1 .. Len(hooks) :
         t[n] = IF hooks[n].inst = i THEN I!After(t[n - 1], hooks[n]) ELSE t[n - 1]
    /\ \A n \in 0 .. Len(hooks) : t[n].org = NoOrg \/ t[n].all = installed[i].all
    /\ \A l, m \in 0 .. Len(hooks) :
         (l <= m /\ \A k \in l + 1 .. m : hooks[k].inst # i) => t[m] = t[l]

Agrees(w, g) ==
    IF w.org = NoOrg THEN g.state = "gone"
    ELSE /\ g.state \in {"live", "suspended"}
         /\ w.suspended <=> g.state = "suspended"
         /\ w.all = g.all /\ w.repos = g.repos

\* A webhook on its way narrows a selection the row will not take over.
Narrowing(i) ==
    installed[i].all /\ \E n \in DOMAIN hooks : hooks[n].inst = i /\ hooks[n].kind = "added"

Follows(i) ==
    Narrowing(i) \/ \E t \in [0 .. Len(hooks) -> InstallRow] :
                       Replay(i, t) /\ Agrees(t[Len(hooks)], gh[i])

RowsFollow == \A i \in Installs : I!Stored(i) /\ i \notin behind => Follows(i)

InstallInv == InstallTypes /\ LinksAreFresh /\ Unraced /\ RowsFollow

\* Rows before and after a webhook.
LEMMA AfterIs ==
    ASSUME NEW w \in InstallRow, NEW h \in Hook
    PROVE  /\ I!After(w, h) \in InstallRow
           /\ h.kind = "deleted" => I!After(w, h) = I!NoRow /\ I!After(w, h).org = NoOrg
           /\ h.kind # "deleted" => I!After(w, h).org = w.org /\ I!After(w, h).all = w.all
           /\ h.kind = "suspend" => I!After(w, h).suspended = TRUE
           /\ h.kind = "unsuspend" => I!After(w, h).suspended = FALSE
           /\ h.kind \in {"added", "removed"} => I!After(w, h).suspended = w.suspended
           /\ h.kind \in {"suspend", "unsuspend"} => I!After(w, h).repos = w.repos
           /\ h.kind = "added" => I!After(w, h).repos = w.repos \cup h.repos
           /\ h.kind = "removed" => I!After(w, h).repos = w.repos \ h.repos
<1>1. CASE h.kind = "deleted"
    BY <1>1 DEF I!After, I!Deleted, I!NoRow, InstallRow
<1>2. CASE h.kind = "suspend"
    BY <1>2 DEF I!After, InstallRow
<1>3. CASE h.kind = "unsuspend"
    BY <1>3 DEF I!After, InstallRow
<1>4. CASE h.kind = "added"
    <2>1. h.repos \subseteq AppRepos
        BY DEF Hook
    <2> QED  BY <1>4, <2>1 DEF I!After, InstallRow
<1>5. CASE h.kind = "removed"
    BY <1>5 DEF I!After, InstallRow
<1> QED  BY <1>1, <1>2, <1>3, <1>4, <1>5 DEF Hook

LEMMA AfterKeeps ==
    ASSUME NEW w \in InstallRow, NEW h \in Hook
    PROVE  /\ h.kind = "deleted" => I!After(w, h) = I!NoRow
           /\ h.kind # "deleted" => I!After(w, h).org = w.org
BY AfterIs

\* One more webhook, one webhook less.
LEMMA HookComes ==
    ASSUME hooks \in Seq(Hook), NEW h \in Hook, hooks' = Append(hooks, h)
    PROVE  /\ hooks' \in Seq(Hook) /\ Len(hooks') = Len(hooks) + 1
           /\ DOMAIN hooks = 1 .. Len(hooks) /\ DOMAIN hooks' = 1 .. Len(hooks) + 1
           /\ \A n \in 1 .. Len(hooks) : hooks'[n] = hooks[n]
           /\ hooks'[Len(hooks) + 1] = h
           /\ Len(hooks) \in Nat
OBVIOUS

LEMMA HookGoes ==
    ASSUME hooks \in Seq(Hook), NEW n \in DOMAIN hooks, hooks' = I!RemoveAt(hooks, n)
    PROVE  /\ hooks' \in Seq(Hook) /\ Len(hooks') = Len(hooks) - 1
           /\ n \in 1 .. Len(hooks) /\ Len(hooks) \in Nat
           /\ DOMAIN hooks = 1 .. Len(hooks) /\ DOMAIN hooks' = 1 .. Len(hooks) - 1
           /\ \A k \in 1 .. Len(hooks) - 1 : hooks'[k] = IF k < n THEN hooks[k] ELSE hooks[k + 1]
<1>1. Len(hooks) \in Nat /\ n \in 1 .. Len(hooks) /\ \A k \in 1 .. Len(hooks) : hooks[k] \in Hook
    OBVIOUS
<1> DEFINE a == SubSeq(hooks, 1, n - 1)
           b == SubSeq(hooks, n + 1, Len(hooks))
<1>2. a \in Seq(Hook) /\ Len(a) = n - 1 /\ \A k \in 1 .. n - 1 : a[k] = hooks[k]
    <2>1. n - 1 \in Int /\ \A k \in 1 .. n - 1 : hooks[k] \in Hook
        BY <1>1
    <2>2. /\ a \in Seq(Hook) /\ Len(a) = IF 1 <= n - 1 THEN (n - 1) - 1 + 1 ELSE 0
          /\ \A k \in 1 .. (n - 1) - 1 + 1 : a[k] = hooks[1 + k - 1]
        BY <2>1, SubSeqProperties
    <2> HIDE DEF a
    <2>3. Len(a) = n - 1
        BY <1>1, <2>2
    <2>4. \A k \in 1 .. n - 1 : k \in 1 .. (n - 1) - 1 + 1 /\ 1 + k - 1 = k
        BY <1>1
    <2> QED  BY <2>2, <2>3, <2>4
<1>3. b \in Seq(Hook) /\ Len(b) = Len(hooks) - n /\ \A k \in 1 .. Len(hooks) - n : b[k] = hooks[n + k]
    <2>1. n + 1 \in Int /\ \A k \in n + 1 .. Len(hooks) : hooks[k] \in Hook
        BY <1>1
    <2>2. /\ b \in Seq(Hook)
          /\ Len(b) = IF n + 1 <= Len(hooks) THEN Len(hooks) - (n + 1) + 1 ELSE 0
          /\ \A k \in 1 .. Len(hooks) - (n + 1) + 1 : b[k] = hooks[(n + 1) + k - 1]
        BY <1>1, <2>1, SubSeqProperties
    <2> HIDE DEF b
    <2>3. Len(b) = Len(hooks) - n
        BY <1>1, <2>2
    <2>4. \A k \in 1 .. Len(hooks) - n : k \in 1 .. Len(hooks) - (n + 1) + 1 /\ (n + 1) + k - 1 = n + k
        BY <1>1
    <2> QED  BY <2>2, <2>3, <2>4
<1>4. hooks' = a \o b
    BY DEF I!RemoveAt
<1> HIDE DEF a, b
<1>5. /\ a \o b \in Seq(Hook) /\ Len(a \o b) = Len(a) + Len(b)
      /\ \A k \in 1 .. Len(a) + Len(b) : (a \o b)[k] = IF k <= Len(a) THEN a[k] ELSE b[k - Len(a)]
    BY <1>2, <1>3, ConcatProperties
<1>6. hooks' \in Seq(Hook) /\ Len(hooks') = Len(hooks) - 1
    BY <1>1, <1>2, <1>3, <1>4, <1>5
<1>7. \A k \in 1 .. Len(hooks) - 1 : hooks'[k] = IF k < n THEN hooks[k] ELSE hooks[k + 1]
    <2> SUFFICES ASSUME NEW k \in 1 .. Len(hooks) - 1
                 PROVE  hooks'[k] = IF k < n THEN hooks[k] ELSE hooks[k + 1]
        OBVIOUS
    <2>1. hooks'[k] = IF k <= n - 1 THEN a[k] ELSE b[k - (n - 1)]
        <3>1. k \in 1 .. Len(a) + Len(b)
            BY <1>1, <1>2, <1>3
        <3>2. (a \o b)[k] = IF k <= Len(a) THEN a[k] ELSE b[k - Len(a)]
            BY <1>5, <3>1
        <3>3. (a \o b)[k] = IF k <= n - 1 THEN a[k] ELSE b[k - (n - 1)]
            BY <1>2, <3>2
        <3> QED  BY <1>4, <3>3
    <2>2. CASE k < n
        BY <1>1, <1>2, <2>1, <2>2
    <2>3. CASE ~(k < n)
        <3>1. k - (n - 1) \in 1 .. Len(hooks) - n /\ n + (k - (n - 1)) = k + 1
            BY <1>1, <2>3
        <3>2. b[k - (n - 1)] = hooks[k + 1]
            BY <1>3, <3>1
        <3> QED  BY <1>1, <2>1, <2>3, <3>2
    <2> QED  BY <2>2, <2>3
<1>8. DOMAIN hooks' = 1 .. Len(hooks) - 1
    BY <1>6
<1> QED  BY <1>1, <1>6, <1>7, <1>8, SMTT(30)

\* A step that leaves the webhooks, GitHub and the rows alone.
LEMMA RowsRest ==
    ASSUME RowsFollow, UNCHANGED <<gh, installed, hooks, behind>>
    PROVE  RowsFollow'
<1> SUFFICES ASSUME NEW i \in Installs, I!Stored(i)', i \notin behind' PROVE Follows(i)'
    BY DEF RowsFollow
<1>1. Follows(i)
    BY DEF RowsFollow, I!Stored
<1> QED  BY <1>1 DEF Follows, Narrowing, Replay

\* What GitHub changes and tells: the installation was there, and a row that
\* agreed with it agrees after the webhook.
LEMMA GitHubTells ==
    ASSUME InstallInv, NEW i \in Installs, NEW h \in Hook, h.inst = i,
           hooks' = Append(hooks, h),
           gh' \in [Installs -> OnGitHub], \A j \in Installs : j # i => gh'[j] = gh[j],
           UNCHANGED <<installed, link, cached, behind, raced>>,
           gh[i].state \in {"live", "suspended"},
           \A w \in InstallRow : w.org # NoOrg /\ Agrees(w, gh[i]) =>
               Agrees(I!After(w, h), gh'[i]) \/ (w.all /\ h.kind = "added")
    PROVE  InstallInv'
<1>1. InstallTypes /\ LinksAreFresh /\ Unraced /\ RowsFollow
    BY DEF InstallInv
<1> DEFINE N == Len(hooks)
<1>2. /\ hooks' \in Seq(Hook) /\ Len(hooks') = N + 1
      /\ DOMAIN hooks = 1 .. N /\ DOMAIN hooks' = 1 .. N + 1
      /\ \A n \in 1 .. N : hooks'[n] = hooks[n]
      /\ hooks'[N + 1] = h /\ N \in Nat
    BY <1>1, HookComes DEF InstallTypes
<1> HIDE DEF N
<1>3. InstallTypes'
    BY <1>1, <1>2 DEF InstallTypes, I!Stored
<1>4. \A j \in Installs : I!Pending(j) => I!Pending(j)'
    BY <1>2 DEF I!Pending
<1>5. I!Pending(i)'
    BY <1>2 DEF I!Pending
<1>6. LinksAreFresh'
    BY <1>1, <1>4, <1>5 DEF LinksAreFresh
<1>7. Unraced'
    BY <1>1 DEF Unraced
<1>8. RowsFollow'
    <2> SUFFICES ASSUME NEW j \in Installs, I!Stored(j)', j \notin behind' PROVE Follows(j)'
        BY DEF RowsFollow
    <2>1. Follows(j) /\ installed[j].org # NoOrg
        BY <1>1 DEF RowsFollow, I!Stored
    <2>2. CASE Narrowing(j)
        <3>1. Narrowing(j)'
            BY <1>2, <2>2 DEF Narrowing
        <3> QED  BY <3>1 DEF Follows
    <2>3. CASE ~Narrowing(j)
        <3>1. PICK t \in [0 .. N -> InstallRow] : Replay(j, t) /\ Agrees(t[N], gh[j])
            BY <2>1, <2>3 DEF Follows, N
        <3> DEFINE last == IF j = i THEN I!After(t[N], h) ELSE t[N]
                   longer == [n \in 0 .. N + 1 |-> IF n <= N THEN t[n] ELSE last]
        <3>2. t[N] \in InstallRow
            BY <1>2
        <3>3. last \in InstallRow
            BY <3>2, AfterIs
        <3>4. (last.org = NoOrg \/ last.all = installed[j].all) /\ (t[N].org = NoOrg \/ t[N].all = installed[j].all)
            <4>1. t[N].org = NoOrg \/ t[N].all = installed[j].all
                BY <1>2, <3>1 DEF Replay, N
            <4>2. I!After(t[N], h).org = NoOrg \/ (I!After(t[N], h).org = t[N].org /\ I!After(t[N], h).all = t[N].all)
                <5>1. CASE h.kind = "deleted"
                    BY <3>2, <5>1, AfterIs
                <5>2. CASE h.kind # "deleted"
                    BY <3>2, <5>2, AfterIs
                <5> QED  BY <5>1, <5>2
            <4> QED  BY <4>1, <4>2
        <3> HIDE DEF last
        <3>5. PICK u \in [0 .. N + 1 -> InstallRow] : u[N + 1] = last /\ \A n \in 0 .. N : u[n] = t[n]
            <4>1. /\ longer \in [0 .. N + 1 -> InstallRow] /\ longer[N + 1] = last
                  /\ \A n \in 0 .. N : longer[n] = t[n]
                BY <1>2, <3>3
            <4> QED  BY <4>1
        <3>6. \A n \in 1 .. N : n - 1 \in 0 .. N /\ n \in 0 .. N
            BY <1>2
        <3>7. u[0] = installed'[j]
            BY <1>2, <3>1, <3>5 DEF Replay
        <3>8. \A n \in 1 .. N + 1 :
                u[n] = IF hooks'[n].inst = j THEN I!After(u[n - 1], hooks'[n]) ELSE u[n - 1]
            <4> SUFFICES ASSUME NEW n \in 1 .. N + 1
                         PROVE  u[n] = IF hooks'[n].inst = j THEN I!After(u[n - 1], hooks'[n]) ELSE u[n - 1]
                OBVIOUS
            <4>1. CASE n \in 1 .. N
                <5>1. t[n] = IF hooks[n].inst = j THEN I!After(t[n - 1], hooks[n]) ELSE t[n - 1]
                    BY <3>1, <4>1 DEF Replay, N
                <5>2. u[n] = t[n] /\ u[n - 1] = t[n - 1] /\ hooks'[n] = hooks[n]
                    BY <1>2, <3>5, <3>6, <4>1
                <5> QED  BY <5>1, <5>2
            <4>2. CASE n = N + 1
                <5>1. u[n - 1] = t[N] /\ hooks'[n] = h /\ u[n] = last
                    BY <1>2, <3>5, <4>2
                <5> QED  BY <5>1 DEF last
            <4> QED  BY <1>2, <4>1, <4>2
        <3>9. \A n \in 0 .. N + 1 : u[n].org = NoOrg \/ u[n].all = installed'[j].all
            <4> SUFFICES ASSUME NEW n \in 0 .. N + 1
                         PROVE  u[n].org = NoOrg \/ u[n].all = installed[j].all
                OBVIOUS
            <4>1. CASE n \in 0 .. N
                BY <3>1, <3>5, <4>1 DEF Replay, N
            <4>2. CASE n = N + 1
                BY <3>4, <3>5, <4>2
            <4> QED  BY <1>2, <4>1, <4>2
        <3>10. \A l, m \in 0 .. N + 1 :
                 (l <= m /\ \A k \in l + 1 .. m : hooks'[k].inst # j) => u[m] = u[l]
            <4> SUFFICES ASSUME NEW l \in 0 .. N + 1, NEW m \in 0 .. N + 1, l <= m,
                                \A k \in l + 1 .. m : hooks'[k].inst # j
                         PROVE  u[m] = u[l]
                OBVIOUS
            <4>1. CASE m \in 0 .. N
                <5>1. l \in 0 .. N /\ \A k \in l + 1 .. m : hooks[k].inst # j
                    BY <1>2, <4>1
                <5> QED  BY <3>1, <3>5, <4>1, <5>1 DEF Replay, N
            <4>2. CASE m = N + 1 /\ l \in 0 .. N
                <5>1. h.inst # j /\ N \in 0 .. N /\ l <= N /\ \A k \in l + 1 .. N : hooks[k].inst # j
                    BY <1>2, <4>2
                <5>2. t[N] = t[l]
                    BY <3>1, <4>2, <5>1 DEF Replay, N
                <5> QED  BY <3>5, <4>2, <5>1, <5>2 DEF last
            <4> QED  BY <1>2, <4>1, <4>2
        <3>13. Replay(j, u)'
            BY <1>2, <3>7, <3>8, <3>9, <3>10 DEF Replay
        <3>11. CASE j # i
            <4>1. Agrees(u[N + 1], gh'[j])
                BY <3>1, <3>5, <3>11 DEF last
            <4>2. u \in [0 .. Len(hooks') -> InstallRow] /\ Agrees(u[Len(hooks')], gh'[j])
                BY <1>2, <3>5, <4>1
            <4> QED  BY <3>13, <4>2 DEF Follows, Agrees
        <3>12. CASE j = i
            <4>1. t[N].org # NoOrg
                BY <3>1, <3>12 DEF Agrees
            <4>2. CASE Agrees(I!After(t[N], h), gh'[i])
                <5>1. u \in [0 .. Len(hooks') -> InstallRow] /\ Agrees(u[Len(hooks')], gh'[j])
                    BY <1>2, <3>5, <3>12, <4>2 DEF last
                <5> QED  BY <3>13, <5>1 DEF Follows, Agrees
            <4>3. CASE t[N].all /\ h.kind = "added"
                <5>1. installed[j].all
                    BY <3>4, <4>1, <4>3
                <5>2. Narrowing(j)'
                    BY <1>2, <3>12, <4>3, <5>1 DEF Narrowing
                <5> QED  BY <5>2 DEF Follows
            <4> QED  BY <3>1, <3>2, <3>12, <4>1, <4>2, <4>3
        <3> QED  BY <3>11, <3>12
    <2> QED  BY <2>2, <2>3
<1> QED  BY <1>3, <1>6, <1>7, <1>8 DEF InstallInv

\* The replay without the webhook n: handled first if it is one of j, else
\* without meaning for j.
LEMMA ReplayGoesOn ==
    ASSUME InstallTypes, NEW n \in DOMAIN hooks, hooks' = I!RemoveAt(hooks, n),
           NEW j \in Installs, NEW t \in [0 .. Len(hooks) -> InstallRow], Replay(j, t),
           IF hooks[n].inst = j
           THEN /\ ~I!Earlier(n) /\ hooks[n].kind # "deleted"
                /\ installed'[j] = I!After(installed[j], hooks[n])
           ELSE installed'[j] = installed[j]
    PROVE  \E u \in [0 .. Len(hooks') -> InstallRow] :
              Replay(j, u)' /\ u[Len(hooks')] = t[Len(hooks)]
<1> DEFINE N == Len(hooks)
           h == hooks[n]
<1>1. /\ hooks' \in Seq(Hook) /\ Len(hooks') = N - 1
      /\ n \in 1 .. N /\ N \in Nat
      /\ \A k \in 1 .. N - 1 : hooks'[k] = IF k < n THEN hooks[k] ELSE hooks[k + 1]
    BY HookGoes DEF InstallTypes
<1>2. h \in Hook /\ installed[j] \in InstallRow
    BY DEF InstallTypes
<1>3. /\ t[0] = installed[j]
      /\ \A m \in 1 .. N : t[m] = IF hooks[m].inst = j THEN I!After(t[m - 1], hooks[m]) ELSE t[m - 1]
      /\ \A m \in 0 .. N : t[m].org = NoOrg \/ t[m].all = installed[j].all
      /\ \A l, m \in 0 .. N : (l <= m /\ \A k \in l + 1 .. m : hooks[k].inst # j) => t[m] = t[l]
    BY DEF Replay
<1> HIDE DEF N
<1>4. \A m \in 0 .. N : t[m] \in InstallRow
    BY DEF N
<1>5. ASSUME h.inst = j PROVE t[n] = installed'[j] /\ installed'[j].all = installed[j].all
    <2>1. \A k \in 0 + 1 .. n - 1 : hooks[k].inst # j
        BY <1>1, <1>5 DEF I!Earlier
    <2>2. t[n - 1] = t[0]
        BY <1>1, <1>3, <2>1
    <2>3. t[n] = I!After(installed[j], h)
        BY <1>1, <1>3, <1>5, <2>2
    <2>4. h.kind # "deleted" /\ installed'[j] = I!After(installed[j], h)
        BY <1>5
    <2>5. I!After(installed[j], h).all = installed[j].all
        BY <1>2, <2>4, AfterIs
    <2> QED  BY <2>3, <2>4, <2>5
<1>6. ASSUME h.inst # j PROVE t[n] = t[n - 1] /\ installed'[j] = installed[j]
    BY <1>1, <1>3, <1>6
<1> HIDE DEF h
<1> DEFINE shorter == [k \in 0 .. N - 1 |-> IF k < n THEN IF h.inst = j THEN t[n] ELSE t[k] ELSE t[k + 1]]
<1>7. PICK u \in [0 .. N - 1 -> InstallRow] :
         \A k \in 0 .. N - 1 : u[k] = IF k < n THEN IF h.inst = j THEN t[n] ELSE t[k] ELSE t[k + 1]
    <2>1. \A k \in 0 .. N - 1 : k \in 0 .. N /\ k + 1 \in 0 .. N /\ n \in 0 .. N
        BY <1>1
    <2>2. shorter \in [0 .. N - 1 -> InstallRow]
        BY <1>4, <2>1
    <2> QED  BY <2>2
<1> HIDE DEF shorter
<1>8. u[0] = installed'[j]
    BY <1>1, <1>3, <1>5, <1>6, <1>7
<1>9. ASSUME NEW k \in 1 .. N - 1
      PROVE  u[k] = IF hooks'[k].inst = j THEN I!After(u[k - 1], hooks'[k]) ELSE u[k - 1]
    <2>1. k \in 0 .. N - 1 /\ k - 1 \in 0 .. N - 1 /\ k \in 1 .. N /\ k + 1 \in 1 .. N /\ (k + 1) - 1 = k
        BY <1>1
    <2>2. CASE k < n
        <3>1. hooks'[k] = hooks[k] /\ k - 1 < n
            BY <1>1, <2>1, <2>2
        <3>2. CASE h.inst = j
            <4>1. hooks[k].inst # j
                BY <1>1, <2>1, <2>2, <3>2 DEF I!Earlier, h
            <4> QED  BY <1>7, <2>1, <2>2, <3>1, <3>2, <4>1
        <3>3. CASE h.inst # j
            <4>1. u[k] = t[k] /\ u[k - 1] = t[k - 1]
                BY <1>7, <2>1, <2>2, <3>1, <3>3
            <4>2. t[k] = IF hooks[k].inst = j THEN I!After(t[k - 1], hooks[k]) ELSE t[k - 1]
                BY <1>3, <2>1
            <4> QED  BY <3>1, <4>1, <4>2
        <3> QED  BY <3>2, <3>3
    <2>3. CASE ~(k < n)
        <3>1. hooks'[k] = hooks[k + 1] /\ u[k] = t[k + 1]
            BY <1>1, <1>7, <2>1, <2>3
        <3>2. t[k + 1] = IF hooks[k + 1].inst = j THEN I!After(t[k], hooks[k + 1]) ELSE t[k]
            BY <1>3, <2>1
        <3>3. u[k - 1] = t[k]
            <4>1. CASE k = n
                <5>1. k - 1 < n
                    BY <2>1, <4>1
                <5>2. u[k - 1] = IF h.inst = j THEN t[n] ELSE t[k - 1]
                    BY <1>7, <2>1, <5>1
                <5> QED  BY <1>6, <4>1, <5>2
            <4>2. CASE k # n
                <5>1. ~(k - 1 < n) /\ (k - 1) + 1 = k
                    BY <1>1, <2>1, <2>3, <4>2
                <5> QED  BY <1>7, <2>1, <5>1
            <4> QED  BY <4>1, <4>2
        <3> QED  BY <3>1, <3>2, <3>3
    <2> QED  BY <2>2, <2>3
<1>10. ASSUME NEW k \in 0 .. N - 1
       PROVE  u[k].org = NoOrg \/ u[k].all = installed'[j].all
    <2>1. k \in 0 .. N /\ k + 1 \in 0 .. N /\ n \in 0 .. N
        BY <1>1
    <2>2. u[k] = t[n] \/ u[k] = t[k] \/ u[k] = t[k + 1]
        BY <1>7
    <2>3. installed'[j].all = installed[j].all
        BY <1>5, <1>6
    <2> QED  BY <1>3, <2>1, <2>2, <2>3
<1>11. ASSUME NEW l \in 0 .. N - 1, NEW m \in 0 .. N - 1, l <= m,
              \A k \in l + 1 .. m : hooks'[k].inst # j
       PROVE  u[m] = u[l]
    <2>1. l \in 0 .. N /\ m \in 0 .. N /\ l + 1 \in 0 .. N /\ m + 1 \in 0 .. N /\ n \in 0 .. N
        BY <1>1
    <2>2. CASE m < n
        <3>1. l < n
            BY <1>1, <1>11, <2>2
        <3>2. CASE h.inst = j
            BY <1>7, <2>2, <3>1, <3>2
        <3>3. CASE h.inst # j
            <4>1. \A k \in l + 1 .. m : hooks[k].inst # j
                BY <1>1, <1>11, <2>2
            <4>2. t[m] = t[l]
                BY <1>3, <1>11, <2>1, <4>1
            <4> QED  BY <1>7, <2>2, <3>1, <3>3, <4>2
        <3> QED  BY <3>2, <3>3
    <2>3. CASE ~(m < n) /\ l < n
        <3>1. u[m] = t[m + 1]
            BY <1>7, <2>3
        <3>2. \A k \in n + 1 .. m + 1 : hooks[k].inst # j
            <4> SUFFICES ASSUME NEW k \in n + 1 .. m + 1 PROVE hooks[k].inst # j
                OBVIOUS
            <4>1. k - 1 \in l + 1 .. m /\ k - 1 \in 1 .. N - 1 /\ ~(k - 1 < n) /\ (k - 1) + 1 = k
                BY <1>1, <2>3
            <4> QED  BY <1>1, <1>11, <4>1
        <3>3. CASE h.inst = j
            <4>1. t[m + 1] = t[n]
                <5>1. n <= m + 1
                    BY <1>1, <2>3
                <5> QED  BY <1>3, <2>1, <3>2, <5>1
            <4> QED  BY <1>7, <2>3, <3>1, <3>3, <4>1
        <3>4. CASE h.inst # j
            <4>1. \A k \in l + 1 .. n - 1 : hooks[k].inst # j
                <5> SUFFICES ASSUME NEW k \in l + 1 .. n - 1 PROVE hooks[k].inst # j
                    OBVIOUS
                <5>1. k \in l + 1 .. m /\ k \in 1 .. N - 1 /\ k < n
                    BY <1>1, <2>3
                <5> QED  BY <1>1, <1>11, <5>1
            <4>2. \A k \in l + 1 .. m + 1 : hooks[k].inst # j
                <5> SUFFICES ASSUME NEW k \in l + 1 .. m + 1 PROVE hooks[k].inst # j
                    OBVIOUS
                <5>1. k \in l + 1 .. n - 1 \/ k = n \/ k \in n + 1 .. m + 1
                    BY <1>1, <2>3
                <5> QED  BY <3>2, <3>4, <4>1, <5>1 DEF h
            <4>3. t[m + 1] = t[l]
                BY <1>1, <1>3, <1>11, <2>1, <4>2
            <4> QED  BY <1>7, <2>3, <3>1, <3>4, <4>3
        <3> QED  BY <3>3, <3>4
    <2>4. CASE ~(l < n)
        <3>1. ~(m < n) /\ l + 1 <= m + 1
            BY <1>1, <1>11, <2>4
        <3>2. \A k \in (l + 1) + 1 .. m + 1 : hooks[k].inst # j
            <4> SUFFICES ASSUME NEW k \in (l + 1) + 1 .. m + 1 PROVE hooks[k].inst # j
                OBVIOUS
            <4>1. k - 1 \in l + 1 .. m /\ k - 1 \in 1 .. N - 1 /\ ~(k - 1 < n) /\ (k - 1) + 1 = k
                BY <1>1, <2>4
            <4> QED  BY <1>1, <1>11, <4>1
        <3>3. t[m + 1] = t[l + 1]
            BY <1>3, <2>1, <3>1, <3>2
        <3> QED  BY <1>7, <2>4, <3>1, <3>3
    <2> QED  BY <2>2, <2>3, <2>4
<1>12. Replay(j, u)'
    BY <1>1, <1>8, <1>9, <1>10, <1>11 DEF Replay
<1>13. u[N - 1] = t[N]
    <2>1. CASE n = N
        BY <1>1, <1>6, <1>7, <2>1
    <2>2. CASE n # N
        <3>1. N - 1 \in 0 .. N - 1 /\ ~(N - 1 < n) /\ (N - 1) + 1 = N
            BY <1>1, <2>2
        <3> QED  BY <1>7, <3>1
    <2> QED  BY <2>1, <2>2
<1> QED  BY <1>1, <1>12, <1>13 DEF N

\* A webhook handled or lost: its installation is behind, or it was the first
\* of its installation and the row took it over.
LEMMA HookLeaves ==
    ASSUME InstallInv, NEW n \in DOMAIN hooks, hooks' = I!RemoveAt(hooks, n),
           link' = I!Passed(hooks[n].inst),
           UNCHANGED <<gh, cached, raced>>,
           behind \subseteq behind', behind' \subseteq Installs,
           \A j \in Installs : j # hooks[n].inst => installed'[j] = installed[j],
           installed' \in [Installs -> InstallRow],
           \A j \in Installs : /\ installed'[j].org = installed[j].org \/ installed'[j].org = NoOrg
                               /\ ~I!Stored(j) => installed'[j] = installed[j]
                               /\ installed'[j].org = NoOrg => installed'[j] = I!NoRow,
           (installed'[hooks[n].inst].org # NoOrg /\ hooks[n].inst \notin behind') =>
               /\ ~I!Earlier(n) /\ hooks[n].kind # "deleted"
               /\ installed'[hooks[n].inst] = I!After(installed[hooks[n].inst], hooks[n])
               /\ ~(installed[hooks[n].inst].all /\ hooks[n].kind = "added")
    PROVE  InstallInv'
<1>1. InstallTypes /\ LinksAreFresh /\ Unraced /\ RowsFollow
    BY DEF InstallInv
<1> DEFINE i == hooks[n].inst
<1>2. /\ hooks' \in Seq(Hook) /\ n \in 1 .. Len(hooks) /\ Len(hooks) \in Nat
      /\ Len(hooks') = Len(hooks) - 1
      /\ DOMAIN hooks = 1 .. Len(hooks) /\ DOMAIN hooks' = 1 .. Len(hooks) - 1
      /\ \A k \in 1 .. Len(hooks) - 1 : hooks'[k] = IF k < n THEN hooks[k] ELSE hooks[k + 1]
    BY <1>1, HookGoes DEF InstallTypes
<1>3. hooks[n] \in Hook /\ i \in Installs
    <2>1. hooks \in Seq(Hook)
        BY <1>1 DEF InstallTypes
    <2>2. hooks[n] \in Hook
        BY <1>2, <2>1
    <2> QED  BY <2>2 DEF Hook
<1>4. \A a \in Admins :
        /\ link'[a] \in Linking /\ link'[a].org = link[a].org /\ link'[a].inst = link[a].inst
        /\ link'[a].all = link[a].all
        /\ link'[a].stale = (link[a].stale \/ i \in link[a].inst)
    BY <1>1 DEF I!Passed, InstallTypes, Linking
<1>5. link' \in [Admins -> Linking]
    BY <1>4 DEF I!Passed
<1>6. InstallTypes'
    BY <1>1, <1>2, <1>5 DEF InstallTypes, I!Stored
<1> HIDE DEF i
<1>7. \A k \in DOMAIN hooks : k # n => \E m \in DOMAIN hooks' : hooks'[m] = hooks[k]
    <2> SUFFICES ASSUME NEW k \in 1 .. Len(hooks), k # n PROVE \E m \in 1 .. Len(hooks) - 1 : hooks'[m] = hooks[k]
        BY <1>2
    <2>1. CASE k < n
        <3>1. k \in 1 .. Len(hooks) - 1
            BY <1>2, <2>1
        <3> QED  BY <1>2, <2>1, <3>1
    <2>2. CASE k > n
        <3>1. k - 1 \in 1 .. Len(hooks) - 1 /\ ~(k - 1 < n) /\ (k - 1) + 1 = k
            BY <1>2, <2>2
        <3>2. hooks'[k - 1] = hooks[k]
            BY <1>2, <3>1
        <3> QED  BY <3>1, <3>2
    <2> QED  BY <1>2, <2>1, <2>2
<1>8. \A j \in Installs : j # i /\ I!Pending(j) => I!Pending(j)'
    BY <1>7 DEF I!Pending, i
<1>9. LinksAreFresh'
    <2> SUFFICES ASSUME NEW a \in Admins
                 PROVE  /\ link'[a].inst # {} => link'[a].org \in Orgs
                        /\ \A j, k \in link'[a].inst : j = k
                        /\ \A j \in Installs :
                             (j \in link'[a].inst /\ link'[a].all # {} /\ ~link'[a].stale /\ ~I!Pending(j)') =>
                                 gh'[j].state = "live" /\ gh'[j].repos = {} /\ link'[a].all = {gh'[j].all}
        BY DEF LinksAreFresh
    <2>1. ASSUME NEW j \in Installs, j \in link'[a].inst, ~link'[a].stale, ~I!Pending(j)'
          PROVE  j \in link[a].inst /\ ~link[a].stale /\ ~I!Pending(j)
        BY <1>4, <1>8, <2>1
    <2> QED  BY <1>1, <1>4, <2>1 DEF LinksAreFresh
<1>10. Unraced'
    <2> SUFFICES ASSUME NEW o \in Orgs \ raced
                 PROVE  /\ \A a, b \in Admins : link'[a].org = o /\ link'[b].org = o => a = b
                        /\ \A j, k \in Installs : installed'[j].org = o /\ installed'[k].org = o => j = k
                        /\ (\E a \in Admins : link'[a].org = o) => \A j \in Installs : installed'[j].org # o
        BY DEF Unraced
    <2>1. \A j \in Installs : installed'[j].org = o => installed[j].org = o
        BY GitHubConstants
    <2> QED  BY <1>1, <1>4, <2>1 DEF Unraced
<1>11. RowsFollow'
    <2> SUFFICES ASSUME NEW j \in Installs, I!Stored(j)', j \notin behind' PROVE Follows(j)'
        BY DEF RowsFollow
    <2>1. I!Stored(j) /\ j \notin behind /\ installed'[j].org # NoOrg
        BY DEF I!Stored
    <2>2. Follows(j)
        BY <1>1, <2>1 DEF RowsFollow
    <2>3. installed'[j].all = installed[j].all
        <3>1. CASE j = i
            <4>1. hooks[n].kind # "deleted" /\ installed'[j] = I!After(installed[j], hooks[n])
                BY <2>1, <3>1 DEF i
            <4>2. installed[j] \in InstallRow
                BY <1>1 DEF InstallTypes
            <4>3. I!After(installed[j], hooks[n]).all = installed[j].all
                BY <1>3, <4>1, <4>2, AfterIs
            <4> QED  BY <4>1, <4>3
        <3>2. CASE j # i
            BY <3>2 DEF i
        <3> QED  BY <3>1, <3>2
    <2>4. CASE Narrowing(j)
        <3>1. PICK k \in DOMAIN hooks : hooks[k].inst = j /\ hooks[k].kind = "added"
            BY <2>4 DEF Narrowing
        <3>2. k # n
            <4>1. installed[j].all
                BY <2>4 DEF Narrowing
            <4> QED  BY <2>1, <3>1, <4>1
        <3>3. \E m \in DOMAIN hooks' : hooks'[m].inst = j /\ hooks'[m].kind = "added"
            BY <1>7, <3>1, <3>2
        <3> QED  BY <2>3, <2>4, <3>3 DEF Follows, Narrowing
    <2>5. CASE ~Narrowing(j)
        <3>1. PICK t \in [0 .. Len(hooks) -> InstallRow] : Replay(j, t) /\ Agrees(t[Len(hooks)], gh[j])
            BY <2>2, <2>5 DEF Follows
        <3>2. IF hooks[n].inst = j
              THEN /\ ~I!Earlier(n) /\ hooks[n].kind # "deleted"
                   /\ installed'[j] = I!After(installed[j], hooks[n])
              ELSE installed'[j] = installed[j]
            BY <2>1
        <3>3. PICK u \in [0 .. Len(hooks') -> InstallRow] : Replay(j, u)' /\ u[Len(hooks')] = t[Len(hooks)]
            BY <1>1, <3>1, <3>2, ReplayGoesOn
        <3>4. Agrees(u[Len(hooks')], gh[j])
            BY <3>1, <3>3
        <3> QED  BY <3>3, <3>4 DEF Follows, Agrees
    <2> QED  BY <2>4, <2>5
<1> QED  BY <1>6, <1>9, <1>10, <1>11 DEF InstallInv

LEMMA HookHandled ==
    ASSUME InstallInv, NEW n \in DOMAIN hooks, I!HandleHook(n)
    PROVE  InstallInv'
<1> DEFINE h == hooks[n]
           i == h.inst
<1>1. InstallTypes
    BY DEF InstallInv
<1>2. h \in Hook /\ i \in Installs
    <2>1. h \in Hook
        BY <1>1 DEF InstallTypes
    <2> QED  BY <2>1 DEF Hook
<1>3. /\ installed' = IF I!Stored(i) THEN [installed EXCEPT ![i] = I!After(installed[i], h)] ELSE installed
      /\ behind' = behind \cup
           {j \in {i} : I!Earlier(n) \/ (I!Stored(j) /\ installed[j].all /\ h.kind = "added")}
      /\ hooks' = I!RemoveAt(hooks, n) /\ link' = I!Passed(i) /\ UNCHANGED <<gh, cached, raced>>
    BY DEF I!HandleHook
<1>4. installed[i] \in InstallRow /\ I!After(installed[i], h) \in InstallRow
    BY <1>1, <1>2, AfterIs DEF InstallTypes
<1> HIDE DEF h, i
<1>5. installed' \in [Installs -> InstallRow] /\ \A j \in Installs : j # i => installed'[j] = installed[j]
    BY <1>1, <1>3, <1>4 DEF InstallTypes
<1>6. installed'[i] = IF I!Stored(i) THEN I!After(installed[i], h) ELSE installed[i]
    BY <1>1, <1>2, <1>3 DEF InstallTypes
<1>7. ASSUME h.kind = "deleted" PROVE I!After(installed[i], h) = I!NoRow /\ I!After(installed[i], h).org = NoOrg
    <2>1. I!After(installed[i], h) = I!NoRow
        BY <1>2, <1>4, <1>7, AfterKeeps
    <2>2. I!After(installed[i], h).org = NoOrg
        BY <2>1 DEF I!NoRow
    <2> QED  BY <2>1, <2>2
<1>8. ASSUME h.kind # "deleted" PROVE I!After(installed[i], h).org = installed[i].org
    BY <1>2, <1>4, <1>8, AfterKeeps
<1>9. /\ installed'[i].org = installed[i].org \/ installed'[i].org = NoOrg
      /\ ~I!Stored(i) => installed'[i] = installed[i]
      /\ installed'[i].org = NoOrg => installed'[i] = I!NoRow
    <2>1. CASE ~I!Stored(i)
        BY <1>1, <1>2, <1>6, <2>1 DEF InstallTypes
    <2>2. CASE I!Stored(i) /\ h.kind = "deleted"
        BY <1>6, <1>7, <2>2
    <2>3. CASE I!Stored(i) /\ h.kind # "deleted"
        BY <1>6, <1>8, <2>3 DEF I!Stored
    <2> QED  BY <2>1, <2>2, <2>3
<1>10. \A j \in Installs : /\ installed'[j].org = installed[j].org \/ installed'[j].org = NoOrg
                           /\ ~I!Stored(j) => installed'[j] = installed[j]
                           /\ installed'[j].org = NoOrg => installed'[j] = I!NoRow
    BY <1>1, <1>5, <1>9 DEF InstallTypes, I!Stored
<1>11. (installed'[i].org # NoOrg /\ i \notin behind') =>
           /\ ~I!Earlier(n) /\ h.kind # "deleted"
           /\ installed'[i] = I!After(installed[i], h)
           /\ ~(installed[i].all /\ h.kind = "added")
    <2> SUFFICES ASSUME installed'[i].org # NoOrg, i \notin behind'
                 PROVE  /\ ~I!Earlier(n) /\ h.kind # "deleted"
                        /\ installed'[i] = I!After(installed[i], h)
                        /\ ~(installed[i].all /\ h.kind = "added")
        OBVIOUS
    <2>1. I!Stored(i)
        BY <1>6 DEF I!Stored
    <2> QED  BY <1>3, <1>6, <1>7, <2>1
<1>12. behind \subseteq behind' /\ behind' \subseteq Installs
    BY <1>1, <1>2, <1>3 DEF InstallTypes
<1> QED  BY <1>3, <1>5, <1>10, <1>11, <1>12, HookLeaves DEF h, i

LEMMA HookLost ==
    ASSUME InstallInv, NEW n \in DOMAIN hooks, I!LoseHook(n)
    PROVE  InstallInv'
<1>1. /\ behind' = behind \cup {hooks[n].inst} /\ hooks' = I!RemoveAt(hooks, n)
      /\ link' = I!Passed(hooks[n].inst) /\ UNCHANGED <<gh, installed, cached, raced>>
    BY DEF I!LoseHook
<1>2. InstallTypes
    BY DEF InstallInv
<1>3. hooks[n].inst \in Installs
    <2>1. hooks[n] \in Hook
        BY <1>2 DEF InstallTypes
    <2> QED  BY <2>1 DEF Hook
<1>4. behind \subseteq behind' /\ behind' \subseteq Installs /\ hooks[n].inst \in behind'
    BY <1>1, <1>2, <1>3 DEF InstallTypes
<1>5. \A j \in Installs : /\ installed'[j].org = installed[j].org \/ installed'[j].org = NoOrg
                          /\ ~I!Stored(j) => installed'[j] = installed[j]
                          /\ installed'[j].org = NoOrg => installed'[j] = I!NoRow
    BY <1>1, <1>2 DEF InstallTypes, I!Stored
<1>6. installed' \in [Installs -> InstallRow]
    BY <1>1, <1>2 DEF InstallTypes
<1> QED  BY <1>1, <1>4, <1>5, <1>6, HookLeaves

\* What changes on GitHub.
LEMMA GitHubChanges ==
    ASSUME InstallInv, NEW i \in Installs, NEW g \in OnGitHub, NEW kind, NEW rs \in SUBSET AppRepos,
           kind \in {"deleted", "suspend", "unsuspend", "added", "removed"},
           gh' = [gh EXCEPT ![i] = g], I!Tell(i, kind, rs),
           gh[i].state \in {"live", "suspended"},
           kind = "deleted" => g.state = "gone",
           kind = "suspend" => g.state = "suspended" /\ g.all = gh[i].all /\ g.repos = gh[i].repos,
           kind = "unsuspend" => g.state = "live" /\ g.all = gh[i].all /\ g.repos = gh[i].repos,
           kind = "added" => /\ g.state = gh[i].state
                             /\ gh[i].all \/ (g.all = gh[i].all /\ g.repos = gh[i].repos \cup rs),
           kind = "removed" => g.state = gh[i].state /\ g.all = gh[i].all /\ g.repos = gh[i].repos \ rs
    PROVE  InstallInv'
<1> DEFINE h == [inst |-> i, kind |-> kind, repos |-> rs]
<1>1. /\ hooks' = Append(hooks, h) /\ UNCHANGED <<installed, link, cached, behind, raced>>
    BY DEF I!Tell
<1>2. h \in Hook /\ h.inst = i /\ h.kind = kind /\ h.repos = rs
    BY DEF Hook
<1> HIDE DEF h
<1>3. /\ gh' \in [Installs -> OnGitHub] /\ gh'[i] = g /\ gh[i] \in OnGitHub
      /\ \A j \in Installs : j # i => gh'[j] = gh[j]
    BY DEF InstallInv, InstallTypes
<1>4. ASSUME NEW w \in InstallRow, w.org # NoOrg, Agrees(w, gh[i])
      PROVE  Agrees(I!After(w, h), g) \/ (w.all /\ h.kind = "added")
    <2>1. /\ w.suspended <=> gh[i].state = "suspended"
          /\ w.all = gh[i].all /\ w.repos = gh[i].repos
        BY <1>4 DEF Agrees
    <2>2. CASE kind = "deleted"
        <3>1. h.kind = "deleted" /\ g.state = "gone"
            BY <1>2, <2>2
        <3>2. I!After(w, h).org = NoOrg
            BY <1>2, <3>1, AfterIs
        <3> QED  BY <3>1, <3>2 DEF Agrees
    <2>3. CASE kind \in {"suspend", "unsuspend"}
        <3>1. /\ I!After(w, h).org = w.org /\ I!After(w, h).all = w.all /\ I!After(w, h).repos = w.repos
              /\ kind = "suspend" => I!After(w, h).suspended = TRUE
              /\ kind = "unsuspend" => I!After(w, h).suspended = FALSE
            BY <1>2, <2>3, AfterIs
        <3>2. /\ g.all = gh[i].all /\ g.repos = gh[i].repos
              /\ kind = "suspend" => g.state = "suspended"
              /\ kind = "unsuspend" => g.state = "live"
            BY <2>3
        <3> QED  BY <1>4, <2>1, <2>3, <3>1, <3>2 DEF Agrees
    <2>4. CASE kind \in {"added", "removed"} /\ ~(w.all /\ kind = "added")
        <3>1. /\ I!After(w, h).org = w.org /\ I!After(w, h).all = w.all
              /\ I!After(w, h).suspended = w.suspended
              /\ kind = "added" => I!After(w, h).repos = w.repos \cup rs
              /\ kind = "removed" => I!After(w, h).repos = w.repos \ rs
            BY <1>2, <2>4, AfterIs
        <3>2. /\ g.state = gh[i].state /\ g.all = gh[i].all
              /\ kind = "added" => g.repos = gh[i].repos \cup rs
              /\ kind = "removed" => g.repos = gh[i].repos \ rs
            BY <2>1, <2>4
        <3> QED  BY <1>4, <2>1, <2>4, <3>1, <3>2 DEF Agrees
    <2> QED  BY <1>2, <2>2, <2>3, <2>4
<1> QED  BY <1>1, <1>2, <1>3, <1>4, GitHubTells

LEMMA GitHubMoves ==
    ASSUME InstallInv, NEW i \in Installs,
           \/ I!Uninstall(i) \/ I!Suspend(i) \/ I!Unsuspend(i)
           \/ \E r \in AppRepos : I!Grant(i, r) \/ I!Withdraw(i, r)
           \/ \E rs \in SUBSET AppRepos : I!Narrow(i, rs)
    PROVE  InstallInv'
<1>1. gh \in [Installs -> OnGitHub] /\ gh[i] \in OnGitHub
    BY DEF InstallInv, InstallTypes
<1>2. /\ gh[i].state \in {"new", "live", "suspended", "gone"} /\ gh[i].all \in BOOLEAN
      /\ gh[i].repos \in SUBSET AppRepos
      /\ gh[i] = [state |-> gh[i].state, all |-> gh[i].all, repos |-> gh[i].repos]
    BY <1>1 DEF OnGitHub
<1>3. CASE I!Uninstall(i)
    <2> DEFINE g == [gh[i] EXCEPT !.state = "gone"]
    <2>1. g = [state |-> "gone", all |-> gh[i].all, repos |-> gh[i].repos]
        BY <1>2
    <2>2. gh' = [gh EXCEPT ![i] = g] /\ I!Tell(i, "deleted", {}) /\ gh[i].state \in {"live", "suspended"}
        BY <1>3 DEF I!Uninstall, I!Live
    <2>3. gh[i].repos \in SUBSET AppRepos /\ {} \in SUBSET AppRepos
        BY <1>2
    <2> HIDE DEF g
    <2>4. g \in OnGitHub /\ g.state = "gone" /\ g.all = gh[i].all /\ g.repos = gh[i].repos
        BY <1>2, <2>1, <2>3 DEF OnGitHub
    <2> QED  BY <1>2, <2>2, <2>3, <2>4, GitHubChanges
<1>4. CASE I!Suspend(i)
    <2> DEFINE g == [gh[i] EXCEPT !.state = "suspended"]
    <2>1. g = [state |-> "suspended", all |-> gh[i].all, repos |-> gh[i].repos]
        BY <1>2
    <2>2. gh' = [gh EXCEPT ![i] = g] /\ I!Tell(i, "suspend", {}) /\ gh[i].state = "live"
        BY <1>4 DEF I!Suspend, I!Live
    <2>3. gh[i].repos \in SUBSET AppRepos /\ {} \in SUBSET AppRepos
        BY <1>2
    <2> HIDE DEF g
    <2>4. g \in OnGitHub /\ g.state = "suspended" /\ g.all = gh[i].all /\ g.repos = gh[i].repos
        BY <1>2, <2>1, <2>3 DEF OnGitHub
    <2> QED  BY <1>2, <2>2, <2>3, <2>4, GitHubChanges
<1>5. CASE I!Unsuspend(i)
    <2> DEFINE g == [gh[i] EXCEPT !.state = "live"]
    <2>1. g = [state |-> "live", all |-> gh[i].all, repos |-> gh[i].repos]
        BY <1>2
    <2>2. gh' = [gh EXCEPT ![i] = g] /\ I!Tell(i, "unsuspend", {}) /\ gh[i].state = "suspended"
        BY <1>5 DEF I!Unsuspend, I!Live
    <2>3. gh[i].repos \in SUBSET AppRepos /\ {} \in SUBSET AppRepos
        BY <1>2
    <2> HIDE DEF g
    <2>4. g \in OnGitHub /\ g.state = "live" /\ g.all = gh[i].all /\ g.repos = gh[i].repos
        BY <1>2, <2>1, <2>3 DEF OnGitHub
    <2> QED  BY <1>2, <2>2, <2>3, <2>4, GitHubChanges
<1>6. ASSUME NEW r \in AppRepos, I!Grant(i, r) PROVE InstallInv'
    <2> DEFINE g == [gh[i] EXCEPT !.repos = gh[i].repos \cup {r}]
    <2>1. g = [state |-> gh[i].state, all |-> gh[i].all, repos |-> gh[i].repos \cup {r}]
        BY <1>2
    <2>2. gh' = [gh EXCEPT ![i] = g] /\ I!Tell(i, "added", {r}) /\ gh[i].state = "live"
        BY <1>6 DEF I!Grant, I!Live
    <2>3. gh[i].repos \cup {r} \in SUBSET AppRepos /\ {r} \in SUBSET AppRepos
        BY <1>2
    <2> HIDE DEF g
    <2>4. g \in OnGitHub /\ g.state = gh[i].state /\ g.all = gh[i].all /\ g.repos = gh[i].repos \cup {r}
        BY <1>2, <2>1, <2>3 DEF OnGitHub
    <2> QED  BY <1>2, <2>2, <2>3, <2>4, GitHubChanges
<1>7. ASSUME NEW r \in AppRepos, I!Withdraw(i, r) PROVE InstallInv'
    <2> DEFINE g == [gh[i] EXCEPT !.repos = gh[i].repos \ {r}]
    <2>1. g = [state |-> gh[i].state, all |-> gh[i].all, repos |-> gh[i].repos \ {r}]
        BY <1>2
    <2>2. gh' = [gh EXCEPT ![i] = g] /\ I!Tell(i, "removed", {r}) /\ gh[i].state = "live"
        BY <1>7 DEF I!Withdraw, I!Live
    <2>3. gh[i].repos \ {r} \in SUBSET AppRepos /\ {r} \in SUBSET AppRepos
        BY <1>2
    <2> HIDE DEF g
    <2>4. g \in OnGitHub /\ g.state = gh[i].state /\ g.all = gh[i].all /\ g.repos = gh[i].repos \ {r}
        BY <1>2, <2>1, <2>3 DEF OnGitHub
    <2> QED  BY <1>2, <2>2, <2>3, <2>4, GitHubChanges
<1>8. ASSUME NEW rs \in SUBSET AppRepos, I!Narrow(i, rs) PROVE InstallInv'
    <2> DEFINE g == [gh[i] EXCEPT !.all = FALSE, !.repos = rs]
    <2>1. gh' = [gh EXCEPT ![i] = g] /\ I!Tell(i, "added", rs) /\ gh[i].state = "live" /\ gh[i].all
        BY <1>8 DEF I!Narrow, I!Live
    <2>2. \A c \in OnGitHub : [c EXCEPT !.all = FALSE, !.repos = rs] \in OnGitHub
        BY DEF OnGitHub
    <2>3. g \in OnGitHub /\ g.state = gh[i].state
        BY <1>1, <2>2 DEF OnGitHub
    <2> HIDE DEF g
    <2> QED  BY <2>1, <2>3, GitHubChanges
<1> QED  BY <1>3, <1>4, <1>5, <1>6, <1>7, <1>8

\* An installation that is made has no row that agrees with it.
LEMMA InstallComes ==
    ASSUME InstallInv, NEW i \in Installs, NEW all \in BOOLEAN, NEW rs \in SUBSET AppRepos,
           I!Install(i, all, rs)
    PROVE  InstallInv'
<1>1. InstallTypes /\ LinksAreFresh /\ Unraced /\ RowsFollow
    BY DEF InstallInv
<1>2. /\ gh' = [gh EXCEPT ![i] = [state |-> "live", all |-> all, repos |-> rs]] /\ gh[i].state = "new"
      /\ UNCHANGED <<installed, hooks, link, cached, behind, raced>>
    BY DEF I!Install
<1>3. InstallTypes'
    BY <1>1, <1>2 DEF InstallTypes, I!Stored, OnGitHub
<1>4. \A j \in Installs : gh[j].state # "new" => gh'[j] = gh[j]
    BY <1>1, <1>2 DEF InstallTypes
<1>5. LinksAreFresh'
    BY <1>1, <1>2, <1>4 DEF LinksAreFresh, I!Pending
<1>6. Unraced'
    BY <1>1, <1>2 DEF Unraced
<1>7. RowsFollow'
    <2> SUFFICES ASSUME NEW j \in Installs, I!Stored(j)', j \notin behind' PROVE Follows(j)'
        BY DEF RowsFollow
    <2>1. Follows(j)
        BY <1>1, <1>2 DEF RowsFollow, I!Stored
    <2>2. CASE Narrowing(j)
        BY <1>2, <2>2 DEF Follows, Narrowing
    <2>3. CASE ~Narrowing(j)
        <3>1. PICK t \in [0 .. Len(hooks) -> InstallRow] : Replay(j, t) /\ Agrees(t[Len(hooks)], gh[j])
            BY <2>1, <2>3 DEF Follows
        <3>2. gh'[j] = gh[j]
            BY <1>4, <3>1 DEF Agrees
        <3>3. Replay(j, t)'
            BY <1>2, <3>1 DEF Replay
        <3> QED  BY <1>2, <3>1, <3>2, <3>3 DEF Follows, Agrees
    <2> QED  BY <2>2, <2>3
<1> QED  BY <1>3, <1>5, <1>6, <1>7 DEF InstallInv

LEMMA TokensCome ==
    ASSUME InstallInv, cached' \subseteq Installs, UNCHANGED <<gh, installed, hooks, link, behind, raced>>
    PROVE  InstallInv'
<1>1. InstallTypes /\ LinksAreFresh /\ Unraced /\ RowsFollow
    BY DEF InstallInv
<1>2. InstallTypes'
    BY <1>1 DEF InstallTypes, I!Stored
<1>3. LinksAreFresh' /\ Unraced'
    BY <1>1 DEF LinksAreFresh, I!Pending, Unraced
<1> QED  BY <1>1, <1>2, <1>3, RowsRest DEF InstallInv

\* Link requests.
LEMMA NoLinkIs ==
    /\ I!NoLink \in Linking /\ I!NoLink.org = NoOrg /\ I!NoLink.inst = {} /\ I!NoLink.all = {}
    /\ I!NoLink.stale = FALSE
BY DEF I!NoLink, Linking

LEMMA LinkBegins ==
    ASSUME InstallInv, NEW a \in Admins, NEW i \in Installs, NEW o \in Orgs, I!LinkBegin(a, o, i)
    PROVE  InstallInv'
<1>1. InstallTypes /\ LinksAreFresh /\ Unraced /\ RowsFollow
    BY DEF InstallInv
<1> DEFINE new == [I!NoLink EXCEPT !.org = o, !.inst = {i}]
<1>2. new \in Linking /\ new.org = o /\ new.inst = {i} /\ new.all = {}
    <2>1. \A w \in Linking : [w EXCEPT !.org = o, !.inst = {i}] \in Linking
        BY DEF Linking
    <2> QED  BY <2>1, NoLinkIs DEF Linking
<1>3. /\ link[a] = I!NoLink /\ link' = [link EXCEPT ![a] = new] /\ I!OfOrg(o) = {}
      /\ raced' = raced \cup {p \in {o} : \E b \in Admins : link[b].org = o}
      /\ UNCHANGED <<gh, installed, hooks, cached, behind>>
    BY DEF I!LinkBegin, I!MayLink
<1> HIDE DEF new
<1>5. link'[a] = new /\ \A b \in Admins \ {a} : link'[b] = link[b]
    BY <1>1, <1>3 DEF InstallTypes
<1>6. InstallTypes'
    BY <1>1, <1>3, <1>2 DEF InstallTypes, I!Stored
<1>7. LinksAreFresh'
    <2>1. \A b \in Admins : (link'[b].inst # {} => link'[b].org \in Orgs) /\ \A j, k \in link'[b].inst : j = k
        BY <1>1, <1>2, <1>5 DEF LinksAreFresh
    <2>2. \A b \in Admins, j \in Installs :
            (j \in link'[b].inst /\ link'[b].all # {} /\ ~link'[b].stale /\ ~I!Pending(j)') =>
                gh'[j].state = "live" /\ gh'[j].repos = {} /\ link'[b].all = {gh'[j].all}
        BY <1>1, <1>2, <1>3, <1>5 DEF LinksAreFresh, I!Pending
    <2> QED  BY <2>1, <2>2 DEF LinksAreFresh
<1>8. Unraced'
    <2> SUFFICES ASSUME NEW p \in Orgs \ raced'
                 PROVE  /\ \A b, c \in Admins : link'[b].org = p /\ link'[c].org = p => b = c
                        /\ \A j, k \in Installs : installed'[j].org = p /\ installed'[k].org = p => j = k
                        /\ (\E b \in Admins : link'[b].org = p) => \A j \in Installs : installed'[j].org # p
        BY DEF Unraced
    <2>1. p \in Orgs \ raced
        BY <1>3
    <2>2. CASE p = o
        <3>1. \A b \in Admins : link[b].org # o
            BY <1>3, <2>2
        <3>2. \A j \in Installs : installed[j].org # o
            BY <1>3 DEF I!OfOrg
        <3> QED  BY <1>2, <1>3, <1>5, <2>2, <3>1, <3>2
    <2>3. CASE p # o
        BY <1>1, <1>2, <1>3, <1>5, <2>1, <2>3 DEF Unraced
    <2> QED  BY <2>2, <2>3
<1> QED  BY <1>1, <1>3, <1>6, <1>7, <1>8, RowsRest DEF InstallInv

LEMMA LinkVerifies ==
    ASSUME InstallInv, NEW a \in Admins, NEW i \in Installs, I!LinkVerify(a, i)
    PROVE  InstallInv'
<1>1. InstallTypes /\ LinksAreFresh /\ Unraced /\ RowsFollow
    BY DEF InstallInv
<1> DEFINE new == [link[a] EXCEPT !.all = {gh[i].all}, !.stale = ~I!Live(i) \/ gh[i].repos # {}]
<1>2. /\ i \in link[a].inst /\ link' = [link EXCEPT ![a] = new]
      /\ UNCHANGED <<gh, installed, hooks, cached, behind, raced>>
    BY DEF I!LinkVerify
<1>3. link[a] \in Linking /\ gh[i] \in OnGitHub
    BY <1>1 DEF InstallTypes
<1>4. /\ new.org = link[a].org /\ new.inst = link[a].inst /\ new.all = {gh[i].all}
      /\ new.stale <=> (~I!Live(i) \/ gh[i].repos # {})
    BY <1>3 DEF Linking
<1>5. new \in Linking
    <2>1. \A w \in Linking, l \in SUBSET BOOLEAN, t \in BOOLEAN : [w EXCEPT !.all = l, !.stale = t] \in Linking
        BY DEF Linking
    <2>2. {gh[i].all} \in SUBSET BOOLEAN
        BY <1>3 DEF OnGitHub
    <2> QED  BY <1>3, <2>1, <2>2
<1> HIDE DEF new
<1>6. link'[a] = new /\ \A b \in Admins \ {a} : link'[b] = link[b]
    BY <1>1, <1>2 DEF InstallTypes
<1>7. InstallTypes'
    BY <1>1, <1>2, <1>5 DEF InstallTypes, I!Stored
<1>8. LinksAreFresh'
    <2>1. \A b \in Admins : (link'[b].inst # {} => link'[b].org \in Orgs) /\ \A j, k \in link'[b].inst : j = k
        BY <1>1, <1>4, <1>6 DEF LinksAreFresh
    <2>2. ASSUME NEW b \in Admins, NEW j \in Installs, j \in link'[b].inst, link'[b].all # {},
                 ~link'[b].stale, ~I!Pending(j)'
          PROVE  gh'[j].state = "live" /\ gh'[j].repos = {} /\ link'[b].all = {gh'[j].all}
        <3>1. CASE b # a
            BY <1>1, <1>2, <1>6, <2>2, <3>1 DEF LinksAreFresh, I!Pending
        <3>2. CASE b = a
            <4>1. j = i
                BY <1>1, <1>2, <1>4, <1>6, <2>2, <3>2 DEF LinksAreFresh
            <4>2. I!Live(i) /\ gh[i].repos = {} /\ link'[b].all = {gh[i].all}
                BY <1>4, <1>6, <2>2, <3>2
            <4> QED  BY <1>2, <4>1, <4>2 DEF I!Live
        <3> QED  BY <3>1, <3>2
    <2> QED  BY <2>1, <2>2 DEF LinksAreFresh
<1>9. Unraced'
    BY <1>1, <1>2, <1>4, <1>6 DEF Unraced
<1> QED  BY <1>1, <1>2, <1>7, <1>8, <1>9, RowsRest DEF InstallInv

LEMMA LinkEnds ==
    ASSUME InstallInv, NEW a \in Admins, NEW i \in Installs, I!LinkEnd(a, i)
    PROVE  InstallInv'
<1>1. InstallTypes /\ LinksAreFresh /\ Unraced /\ RowsFollow
    BY DEF InstallInv
<1> DEFINE new == [I!NoRow EXCEPT !.org = link[a].org, !.all = TRUE \in link[a].all]
<1>2. /\ i \in link[a].inst /\ link[a].all # {} /\ ~I!Stored(i)
      /\ installed' = [installed EXCEPT ![i] = new]
      /\ behind' = IF link[a].stale \/ I!Pending(i) THEN behind \cup {i} ELSE behind \ {i}
      /\ link' = [link EXCEPT ![a] = I!NoLink]
      /\ UNCHANGED <<gh, hooks, cached, raced>>
    BY DEF I!LinkEnd
<1>3. link[a].org \in Orgs /\ link[a].org # NoOrg
    BY <1>1, <1>2, GitHubConstants DEF LinksAreFresh
<1>4. I!NoRow \in InstallRow /\ I!NoRow.repos = {} /\ I!NoRow.suspended = FALSE
    BY DEF I!NoRow, InstallRow
<1>5. /\ new \in InstallRow /\ new.org = link[a].org /\ new.suspended = FALSE /\ new.repos = {}
      /\ new.all <=> TRUE \in link[a].all
    <2>1. \A w \in InstallRow, o \in Orgs, b \in BOOLEAN : [w EXCEPT !.org = o, !.all = b] \in InstallRow
        BY DEF InstallRow
    <2>2. (TRUE \in link[a].all) \in BOOLEAN
        OBVIOUS
    <2>3. new \in InstallRow
        BY <1>3, <1>4, <2>1, <2>2
    <2> QED  BY <1>4, <2>3 DEF InstallRow
<1> HIDE DEF new
<1>6. installed'[i] = new /\ \A j \in Installs \ {i} : installed'[j] = installed[j]
    BY <1>1, <1>2 DEF InstallTypes
<1>7. link'[a] = I!NoLink /\ \A b \in Admins \ {a} : link'[b] = link[b]
    BY <1>1, <1>2 DEF InstallTypes
<1>8. InstallTypes'
    <2>1. \A j \in Installs : ~I!Stored(j)' => installed'[j] = I!NoRow
        BY <1>1, <1>3, <1>5, <1>6 DEF InstallTypes, I!Stored
    <2> QED  BY <1>1, <1>2, <1>5, <2>1, NoLinkIs DEF InstallTypes
<1>9. LinksAreFresh'
    <2> SUFFICES ASSUME NEW b \in Admins
                 PROVE  /\ link'[b].inst # {} => link'[b].org \in Orgs
                        /\ \A j, k \in link'[b].inst : j = k
                        /\ \A j \in Installs :
                             (j \in link'[b].inst /\ link'[b].all # {} /\ ~link'[b].stale /\ ~I!Pending(j)') =>
                                 gh'[j].state = "live" /\ gh'[j].repos = {} /\ link'[b].all = {gh'[j].all}
        BY DEF LinksAreFresh
    <2>1. CASE b = a
        BY <1>7, <2>1, NoLinkIs
    <2>2. CASE b # a
        BY <1>1, <1>2, <1>7, <2>2 DEF LinksAreFresh, I!Pending
    <2> QED  BY <2>1, <2>2
<1>10. Unraced'
    <2> SUFFICES ASSUME NEW o \in Orgs \ raced
                 PROVE  /\ \A b, c \in Admins : link'[b].org = o /\ link'[c].org = o => b = c
                        /\ \A j, k \in Installs : installed'[j].org = o /\ installed'[k].org = o => j = k
                        /\ (\E b \in Admins : link'[b].org = o) => \A j \in Installs : installed'[j].org # o
        BY <1>2 DEF Unraced
    <2>1. CASE link[a].org = o
        <3>1. \A j \in Installs : installed[j].org # o
            BY <1>1, <2>1 DEF Unraced
        <3>2. \A b \in Admins : link'[b].org # o
            BY <1>1, <1>7, <2>1, NoLinkIs, GitHubConstants DEF Unraced
        <3> QED  BY <1>6, <3>1, <3>2
    <2>2. CASE link[a].org # o
        BY <1>1, <1>5, <1>6, <1>7, <2>2, NoLinkIs, GitHubConstants DEF Unraced
    <2> QED  BY <2>1, <2>2
<1>11. RowsFollow'
    <2> SUFFICES ASSUME NEW j \in Installs, I!Stored(j)', j \notin behind' PROVE Follows(j)'
        BY DEF RowsFollow
    <2>1. CASE j # i
        <3>1. I!Stored(j) /\ j \notin behind
            BY <1>2, <1>6, <2>1 DEF I!Stored
        <3>2. Follows(j)
            BY <1>1, <3>1 DEF RowsFollow
        <3>3. installed'[j] = installed[j]
            BY <1>6, <2>1
        <3> QED  BY <1>2, <3>2, <3>3 DEF Follows, Narrowing, Replay
    <2>2. CASE j = i
        <3>1. ~link[a].stale /\ ~I!Pending(i)
            BY <1>2, <2>2
        <3>2. gh[i].state = "live" /\ gh[i].repos = {} /\ link[a].all = {gh[i].all}
            BY <1>1, <1>2, <3>1 DEF LinksAreFresh
        <3>3. new.all = gh[i].all
            <4>1. gh[i].all \in BOOLEAN /\ new.all \in BOOLEAN
                BY <1>1, <1>5 DEF InstallTypes, OnGitHub, InstallRow
            <4>2. TRUE \in link[a].all <=> gh[i].all
                BY <3>2, <4>1
            <4> QED  BY <1>5, <4>1, <4>2
        <3>4. Agrees(new, gh[i])
            BY <1>3, <1>5, <3>2, <3>3 DEF Agrees
        <3>5. Len(hooks) \in Nat /\ DOMAIN hooks = 1 .. Len(hooks)
            BY <1>1 DEF InstallTypes
        <3> DEFINE still == [n \in 0 .. Len(hooks) |-> new]
        <3>6. PICK t \in [0 .. Len(hooks) -> InstallRow] : \A n \in 0 .. Len(hooks) : t[n] = new
            <4>1. still \in [0 .. Len(hooks) -> InstallRow] /\ \A n \in 0 .. Len(hooks) : still[n] = new
                BY <1>5
            <4> QED  BY <4>1
        <3>7. Replay(i, t)'
            <4>1. \A n \in 1 .. Len(hooks) : hooks[n].inst # i /\ n \in 0 .. Len(hooks) /\ n - 1 \in 0 .. Len(hooks)
                BY <3>1, <3>5 DEF I!Pending
            <4>2. t[0] = installed'[i]
                BY <1>6, <3>5, <3>6
            <4>3. \A n \in 0 .. Len(hooks) : t[n].org = NoOrg \/ t[n].all = installed'[i].all
                BY <1>6, <3>6
            <4> QED  BY <1>2, <3>6, <4>1, <4>2, <4>3 DEF Replay
        <3>8. t[Len(hooks)] = new
            BY <3>5, <3>6
        <3> QED  BY <1>2, <2>2, <3>4, <3>7, <3>8 DEF Follows, Agrees
    <2> QED  BY <2>1, <2>2
<1> QED  BY <1>8, <1>9, <1>10, <1>11 DEF InstallInv

LEMMA LinkStops ==
    ASSUME InstallInv, NEW a \in Admins, I!LinkFails(a)
    PROVE  InstallInv'
<1>1. InstallTypes /\ LinksAreFresh /\ Unraced /\ RowsFollow
    BY DEF InstallInv
<1>2. link' = [link EXCEPT ![a] = I!NoLink] /\ UNCHANGED <<gh, installed, hooks, cached, behind, raced>>
    BY DEF I!LinkFails
<1>3. link'[a] = I!NoLink /\ \A b \in Admins \ {a} : link'[b] = link[b]
    BY <1>1, <1>2 DEF InstallTypes
<1>4. InstallTypes'
    BY <1>1, <1>2, NoLinkIs DEF InstallTypes, I!Stored
<1>5. LinksAreFresh'
    <2> SUFFICES ASSUME NEW b \in Admins
                 PROVE  /\ link'[b].inst # {} => link'[b].org \in Orgs
                        /\ \A j, k \in link'[b].inst : j = k
                        /\ \A j \in Installs :
                             (j \in link'[b].inst /\ link'[b].all # {} /\ ~link'[b].stale /\ ~I!Pending(j)') =>
                                 gh'[j].state = "live" /\ gh'[j].repos = {} /\ link'[b].all = {gh'[j].all}
        BY DEF LinksAreFresh
    <2>1. CASE b = a
        BY <1>3, <2>1, NoLinkIs
    <2>2. CASE b # a
        BY <1>1, <1>2, <1>3, <2>2 DEF LinksAreFresh, I!Pending
    <2> QED  BY <2>1, <2>2
<1>6. Unraced'
    BY <1>1, <1>2, <1>3, NoLinkIs, GitHubConstants DEF Unraced
<1> QED  BY <1>1, <1>2, <1>4, <1>5, <1>6, RowsRest DEF InstallInv

LEMMA InstallGoes ==
    ASSUME InstallInv, NEW o \in Orgs, I!RemoveInstallation(o)
    PROVE  InstallInv'
<1>1. InstallTypes /\ LinksAreFresh /\ Unraced /\ RowsFollow
    BY DEF InstallInv
<1>2. /\ installed' = [i \in Installs |-> IF i \in I!OfOrg(o) THEN I!Deleted(installed[i]) ELSE installed[i]]
      /\ UNCHANGED <<gh, hooks, link, cached, behind, raced>>
    BY DEF I!RemoveInstallation
<1>3. ASSUME NEW w \in InstallRow PROVE I!Deleted(w) = I!NoRow
    <2> DEFINE h == [inst |-> {}, kind |-> "deleted", repos |-> {}]
    <2>1. h.kind = "deleted"
        OBVIOUS
    <2> HIDE DEF h
    <2>2. I!After(w, h) = I!Deleted(w)
        BY <2>1 DEF I!After
    <2>3. I!After(w, h) = I!NoRow
        BY <2>1 DEF I!After, I!Deleted, I!NoRow, InstallRow
    <2> QED  BY <2>2, <2>3
<1>4. I!NoRow \in InstallRow /\ I!NoRow.org = NoOrg
    BY DEF I!NoRow, InstallRow
<1>5. \A i \in Installs : installed'[i] = I!NoRow \/ installed'[i] = installed[i]
    BY <1>1, <1>2, <1>3 DEF InstallTypes
<1>6. installed' \in [Installs -> InstallRow]
    BY <1>1, <1>2, <1>3, <1>4 DEF InstallTypes
<1>7. InstallTypes'
    BY <1>1, <1>2, <1>5, <1>6 DEF InstallTypes, I!Stored
<1>8. LinksAreFresh'
    BY <1>1, <1>2 DEF LinksAreFresh, I!Pending
<1>9. Unraced'
    BY <1>1, <1>2, <1>4, <1>5, GitHubConstants DEF Unraced
<1>10. RowsFollow'
    <2> SUFFICES ASSUME NEW j \in Installs, I!Stored(j)', j \notin behind' PROVE Follows(j)'
        BY DEF RowsFollow
    <2>1. installed'[j] = installed[j]
        BY <1>4, <1>5 DEF I!Stored
    <2>2. Follows(j)
        BY <1>1, <1>2, <2>1 DEF RowsFollow, I!Stored
    <2> QED  BY <1>2, <2>1, <2>2 DEF Follows, Narrowing, Replay
<1> QED  BY <1>7, <1>8, <1>9, <1>10 DEF InstallInv

LEMMA InstallsStay == InstallInv /\ I!Next => InstallInv'
<1> SUFFICES ASSUME InstallInv, I!Next PROVE InstallInv'
    OBVIOUS
<1>1. ASSUME NEW o \in Orgs, NEW r \in AppRepos, I!ResolveToken(o, r) PROVE InstallInv'
    <2>1. cached' \subseteq Installs
        BY <1>1 DEF InstallInv, InstallTypes, I!ResolveToken, I!Chosen, I!OfOrg
    <2> QED  BY <1>1, <2>1, TokensCome DEF I!ResolveToken
<1>2. ASSUME NEW i \in Installs, I!ExpireToken(i) PROVE InstallInv'
    <2>1. cached' \subseteq Installs
        BY <1>2 DEF InstallInv, InstallTypes, I!ExpireToken
    <2> QED  BY <1>2, <2>1, TokensCome DEF I!ExpireToken
<1> QED  BY <1>1, <1>2, GitHubMoves, InstallComes, HookHandled, HookLost, LinkVerifies, LinkEnds,
            LinkBegins, LinkStops, InstallGoes
         DEF I!Next

LEMMA InstallsBegin == I!Init => InstallInv
<1> SUFFICES ASSUME I!Init PROVE InstallInv
    OBVIOUS
<1>1. \A i \in Installs : installed[i].org = NoOrg
    BY DEF I!Init, I!NoRow
<1>2. hooks \in Seq(Hook) /\ I!NoRow \in InstallRow /\ I!NoLink \in Linking
    BY NoLinkIs DEF I!Init, I!NoRow, InstallRow
<1>3. InstallTypes
    BY <1>2 DEF I!Init, InstallTypes, OnGitHub
<1>4. LinksAreFresh
    BY NoLinkIs DEF I!Init, LinksAreFresh
<1>5. Unraced
    BY <1>1, NoLinkIs, GitHubConstants DEF I!Init, Unraced
<1>6. RowsFollow
    BY <1>1 DEF RowsFollow, I!Stored
<1> QED  BY <1>3, <1>4, <1>5, <1>6 DEF InstallInv

LEMMA InstallsRest == InstallInv /\ UNCHANGED installations => InstallInv'
<1> SUFFICES ASSUME InstallInv, UNCHANGED installations PROVE InstallInv'
    OBVIOUS
<1>1. UNCHANGED <<gh, installed, hooks, link, cached, behind, raced>>
    BY DEF installations
<1>2. cached' \subseteq Installs
    BY <1>1 DEF InstallInv, InstallTypes
<1> QED  BY <1>1, <1>2, TokensCome

\* With nothing on its way and nothing lost, the row says what GitHub says.
LEMMA CalmRows ==
    ASSUME InstallInv, NEW i \in Installs, I!Stored(i), I!Calm(i)
    PROVE  Agrees(installed[i], gh[i])
<1>1. hooks \in Seq(Hook) /\ Len(hooks) \in Nat /\ DOMAIN hooks = 1 .. Len(hooks)
    BY DEF InstallInv, InstallTypes
<1>2. \A k \in 1 .. Len(hooks) : hooks[k].inst # i
    BY <1>1 DEF I!Calm, I!Pending
<1>3. PICK t \in [0 .. Len(hooks) -> InstallRow] : Replay(i, t) /\ Agrees(t[Len(hooks)], gh[i])
    BY <1>1, <1>2 DEF InstallInv, RowsFollow, Follows, Narrowing, I!Calm
<1>4. t[Len(hooks)] = t[0]
    <2>1. 0 \in 0 .. Len(hooks) /\ Len(hooks) \in 0 .. Len(hooks) /\ 0 <= Len(hooks)
          /\ \A k \in 0 + 1 .. Len(hooks) : hooks[k].inst # i
        BY <1>1, <1>2
    <2> QED  BY <1>3, <2>1 DEF Replay
<1> QED  BY <1>3, <1>4 DEF Replay

LEMMA InstallsHold ==
    InstallInv => I!TypeOK /\ I!TwoInstallationsNeedARace /\ I!CalmRowsFollowGitHub /\ I!CalmAnswersWork
<1> SUFFICES ASSUME InstallInv
             PROVE  I!TypeOK /\ I!TwoInstallationsNeedARace /\ I!CalmRowsFollowGitHub /\ I!CalmAnswersWork
    OBVIOUS
<1>1. I!TypeOK
    BY DEF InstallInv, InstallTypes, OnGitHub, InstallRow, Linking, I!TypeOK
<1>2. ASSUME NEW o \in Orgs \ raced PROVE ~(I!Cardinality(I!OfOrg(o)) > 1)
    <2>1. \A i, j \in I!OfOrg(o) : i = j
        BY DEF InstallInv, Unraced, I!OfOrg
    <2>2. I!Cardinality(I!OfOrg(o)) = Cardinality(I!OfOrg(o))
        BY DEF I!Cardinality, Cardinality, I!IsFiniteSet, IsFiniteSet
    <2>3. Cardinality(I!OfOrg(o)) \in {0, 1}
        <3>1. CASE I!OfOrg(o) = {}
            BY <3>1, FS_EmptySet
        <3>2. ASSUME NEW i \in I!OfOrg(o) PROVE Cardinality(I!OfOrg(o)) = 1
            <4>1. I!OfOrg(o) = {i}
                BY <2>1, <3>2
            <4> QED  BY <4>1, FS_Singleton
        <3> QED  BY <3>1, <3>2
    <2> QED  BY <2>2, <2>3
<1>3. I!TwoInstallationsNeedARace
    BY <1>2 DEF I!TwoInstallationsNeedARace
<1>4. I!CalmRowsFollowGitHub
    <2> SUFFICES ASSUME NEW i \in Installs, I!Stored(i), I!Calm(i)
                 PROVE  /\ gh[i].state # "gone"
                        /\ installed[i].suspended <=> gh[i].state = "suspended"
                        /\ installed[i].all = gh[i].all /\ installed[i].repos = gh[i].repos
        BY DEF I!CalmRowsFollowGitHub
    <2> QED  BY CalmRows DEF Agrees, I!Stored
<1>5. I!CalmAnswersWork
    <2> SUFFICES ASSUME NEW o \in Orgs, NEW r \in AppRepos, NEW i \in Installs, I!OfOrg(o) = {i}, I!Calm(i)
                 PROVE  I!Grants(i, r) <=> i \in I!Chosen(o, r)
        BY DEF I!CalmAnswersWork
    <2>1. I!Stored(i)
        BY GitHubConstants DEF I!OfOrg, I!Stored
    <2>2. /\ gh[i].state \in {"live", "suspended"}
          /\ installed[i].suspended <=> gh[i].state = "suspended"
          /\ installed[i].all = gh[i].all /\ installed[i].repos = gh[i].repos
        BY <2>1, CalmRows DEF Agrees, I!Stored
    <2>3. i \in I!Chosen(o, r) <=> I!Usable(i, r) /\ (i \in cached \/ I!Live(i))
        BY DEF I!Chosen
    <2>4. I!Usable(i, r) <=> gh[i].state = "live" /\ (gh[i].all \/ r \in gh[i].repos)
        BY <2>2 DEF I!Usable
    <2> QED  BY <2>3, <2>4 DEF I!Grants, I!Live
<1> QED  BY <1>1, <1>3, <1>4, <1>5

\* For any installations, organizations, administrators and webhooks: an
\* organization gets two installations only by racing link requests, a linked
\* installation whose webhooks were all handled in order has the row GitHub
\* would write, and the resolver then takes the app's token exactly when
\* GitHub accepts it.
THEOREM InstallationsFollow == Spec => []InstallationsFollowGitHub
<1>1. Init => InstallInv
    BY InstallsBegin DEF Init
<1>2. InstallInv /\ [Next]_Vars => InstallInv'
    <2>1. InstallInv /\ I!Next => InstallInv'
        BY InstallsStay
    <2>2. InstallInv /\ UNCHANGED installations => InstallInv'
        BY InstallsRest
    <2>3. [Next]_Vars => I!Next \/ UNCHANGED installations
        BY DEF Next, Vars
    <2> QED  BY <2>1, <2>2, <2>3
<1>3. InstallInv => InstallationsFollowGitHub
    BY InstallsHold DEF InstallationsFollowGitHub
<1> QED  BY <1>1, <1>2, <1>3, PTL DEF Spec, Vars

-----------------------------------------------------------------------------
(* Repositories: the two instances are one module with other requests,      *)
(* names and bounds on what GitHub does.  Q are the requests, N the names,  *)
(* m bounds renamings and changes.                                          *)

R(Q, N, m) == INSTANCE Repositories WITH
    Requests <- Q, Names <- N, MaxRenames <- m, MaxMeta <- m

Answer(N, m) == [gid: Gids, name: N, meta: 0 .. m]
Entry(N, m) == [product: Products, gid: Gids, name: N, meta: 0 .. m]
RepoRow(N, m) == [id: 1 .. MaxRows, product: Products, gid: Gids, name: N, meta: 0 .. m]
RepoRequest(N, m) ==
    [op: {"idle", "import", "linking", "link", "create", "refresh"},
     product: Products \cup {NoProduct}, todo: SUBSET (Gids \cup RepoRow(N, m)),
     count: 0 .. MaxRows, made: SUBSET (Entry(N, m) \cup RepoRow(N, m)), calm: BOOLEAN]

\* The name n belongs to g now, or g has left it: nobody else had it.
Had(g, n) == names[g] = n \/ left[n] = g

NamesOK(N, m) ==
    /\ names \in [Gids -> N \cup {NoName}] /\ left \in [N -> Gids \cup {NoGid}]
    /\ meta \in [Gids -> 0 .. m]
    /\ \A n \in N : \A g, h \in Gids : Had(g, n) /\ Had(h, n) => g = h

CacheOK(N, m) ==
    /\ cache \in [N -> SUBSET Answer(N, m)]
    /\ \A n \in N : /\ \A d \in cache[n] : d.name = n /\ Had(d.gid, n)
                    /\ \A d, e \in cache[n] : d = e

TableOK(N, m) ==
    /\ rows \subseteq RepoRow(N, m) /\ lastId \in 0 .. MaxRows /\ billed \in 0 .. 2 * MaxRows
    /\ strayed \subseteq {"overlap", "create", "lost"}
    /\ \A w \in rows : w.id <= lastId /\ Had(w.gid, w.name)
    /\ \A v, w \in rows : v.id = w.id => v = w

RequestOK(c, N, m) ==
    /\ c \in RepoRequest(N, m) /\ IsFiniteSet(c.made)
    /\ c.op = "idle" => c.product = NoProduct
    /\ c.op = "import" => c.todo \subseteq Gids
    /\ c.op = "linking" => c.made = {}
    /\ c.op \in {"import", "linking", "link", "create"} =>
          c.product \in Products /\ c.made \subseteq Entry(N, m)
    /\ c.op \in {"link", "create"} => \E w : c.made = {w}
    /\ c.op = "refresh" => c.todo \subseteq RepoRow(N, m) /\ c.made \subseteq RepoRow(N, m)
    /\ \A w \in c.made : Had(w.gid, w.name)

\* What a refresh read and will write are rows with numbers of their own, each
\* of the product and repository of the row that has its number now.
RefreshOK(c) ==
    c.op = "refresh" =>
      /\ \A w \in c.todo \cup c.made : w.id <= lastId /\ Had(w.gid, w.name)
      /\ \A v, w \in c.todo : v.id = w.id => v = w
      /\ \A v, w \in c.made : v.id = w.id => v = w
      /\ \A v \in c.todo, w \in c.made : v.id # w.id
      /\ \A w \in c.todo \cup c.made, v \in rows :
            v.id = w.id => v.product = w.product /\ v.gid = w.gid

RequestsFit(Q, N, m) == \A r \in Q : RequestOK(call[r], N, m) /\ RefreshOK(call[r])

Writes(c) == c.op \in {"import", "linking", "link", "create"}
Twins(v, w) == v.product = w.product /\ v.gid = w.gid
Over(k) == IF k > BaseLimit THEN k - BaseLimit ELSE 0

\* Additions that did not overlap: one request adds, ...
OneWriter(Q) ==
    "overlap" \notin strayed => \A q, r \in Q : Writes(call[q]) /\ Writes(call[r]) => q = r

\* ... it counted the rows there are, and their overage is billed, ...
Billing(Q) ==
    strayed \cap {"overlap", "lost"} = {} =>
        /\ Over(billed) = Over(Cardinality(rows))
        /\ \A r \in Q : Writes(call[r]) => call[r].count = Cardinality(rows)

\* ... and what it adds is not there yet.
Alone(c) ==
    /\ \A v, w \in c.made : Twins(v, w) => v = w
    /\ \A v \in rows, w \in c.made : ~Twins(v, w)

NoTwins(Q) ==
    strayed \cap {"overlap", "create"} = {} =>
        /\ \A v, w \in rows : Twins(v, w) => v = w
        /\ \A r \in Q : Writes(call[r]) => Alone(call[r])

\* A refresh nobody disturbed writes to rows that are there, what GitHub has.
FreshOK(c) ==
    c.op = "refresh" /\ c.calm =>
        /\ \A w \in c.todo : \A d \in cache[w.name] : names[d.gid] = w.name /\ d.meta = meta[d.gid]
        /\ \A w \in c.made : w.meta = meta[w.gid]
        /\ \A w \in c.todo \cup c.made : \E v \in rows : v.id = w.id

RepoInv(Q, N, m) ==
    /\ call \in [Q -> RepoRequest(N, m)]
    /\ NamesOK(N, m) /\ CacheOK(N, m) /\ TableOK(N, m) /\ RequestsFit(Q, N, m)
    /\ OneWriter(Q) /\ Billing(Q) /\ NoTwins(Q) /\ \A r \in Q : FreshOK(call[r])

LEMMA CountIs == ASSUME NEW Q, NEW N, NEW m, NEW S PROVE R(Q, N, m)!Cardinality(S) = Cardinality(S)
BY DEF R!Cardinality, R!IsFiniteSet, Cardinality, IsFiniteSet

LEMMA OverIs == ASSUME NEW Q, NEW N, NEW m, NEW k \in Nat PROVE R(Q, N, m)!Overage(k) = Over(k)
<1>1. PICK x \in {0, k - BaseLimit} : \A y \in {0, k - BaseLimit} : x >= y
    BY RepositoryConstants
<1>2. \A z \in {0, k - BaseLimit} : (\A y \in {0, k - BaseLimit} : z >= y) => z = Over(k)
    BY RepositoryConstants DEF Over
<1> QED  BY <1>1, <1>2 DEF R!Overage, R!Max

\* The table is no larger than the numbers given.
LEMMA RowsAreFew ==
    ASSUME NEW N, NEW m, TableOK(N, m)
    PROVE  IsFiniteSet(rows) /\ Cardinality(rows) \in 0 .. MaxRows /\ Cardinality(rows) <= lastId
<1> DEFINE f == [w \in rows |-> w.id]
<1>1. f \in Injection(rows, 1 .. lastId)
    BY RepositoryConstants DEF TableOK, RepoRow, Injection, IsInjective
<1>2. IsFiniteSet(1 .. lastId) /\ Cardinality(1 .. lastId) = lastId
    BY FS_Interval, RepositoryConstants DEF TableOK
<1> HIDE DEF f
<1>3. IsFiniteSet(rows) /\ Cardinality(rows) <= lastId
    BY <1>1, <1>2, FS_Injection
<1> QED  BY <1>3, FS_CardinalityType, RepositoryConstants DEF TableOK

\* What get_repo_details answers is one thing about one repository.
LEMMA DetailsAre ==
    ASSUME NEW Q, NEW N, NEW m \in Nat, NamesOK(N, m), CacheOK(N, m), NEW n \in N,
           NEW S \in {R(Q, N, m)!Details(n), R(Q, N, m)!Fresh(n)}
    PROVE  /\ S \subseteq Answer(N, m)
           /\ \A d \in S : d.name = n /\ Had(d.gid, n)
           /\ \A d, e \in S : d = e
           /\ \A d \in S : d \in cache[n] \/ (names[d.gid] = n /\ d.meta = meta[d.gid])
           /\ cache[n] = {} => \A d \in S : names[d.gid] = n /\ d.meta = meta[d.gid]
<1>1. \A d \in R(Q, N, m)!Fresh(n) : \E g \in Gids : names[g] = n /\ d = [gid |-> g, name |-> n, meta |-> meta[g]]
    BY DEF R!Fresh
<1>2. \A d \in R(Q, N, m)!Fresh(n) :
        d \in Answer(N, m) /\ d.name = n /\ Had(d.gid, n) /\ names[d.gid] = n /\ d.meta = meta[d.gid]
    BY <1>1 DEF NamesOK, Had, Answer
<1>3. \A d, e \in R(Q, N, m)!Fresh(n) : d = e
    <2> SUFFICES ASSUME NEW d \in R(Q, N, m)!Fresh(n), NEW e \in R(Q, N, m)!Fresh(n) PROVE d = e
        OBVIOUS
    <2>1. PICK g \in Gids : names[g] = n /\ d = [gid |-> g, name |-> n, meta |-> meta[g]]
        BY <1>1
    <2>2. PICK h \in Gids : names[h] = n /\ e = [gid |-> h, name |-> n, meta |-> meta[h]]
        BY <1>1
    <2>3. g = h
        BY <2>1, <2>2 DEF NamesOK, Had
    <2> QED  BY <2>1, <2>2, <2>3
<1>4. CASE S = R(Q, N, m)!Fresh(n)
    BY <1>2, <1>3, <1>4
<1>5. CASE S = cache[n] /\ cache[n] # {}
    BY <1>5 DEF CacheOK
<1> QED  BY <1>4, <1>5 DEF R!Details

LEMMA AnswerIs ==
    ASSUME NEW Q, NEW N, NEW m \in Nat, NamesOK(N, m), CacheOK(N, m), NEW n \in N,
           NEW d \in R(Q, N, m)!Details(n) \cup R(Q, N, m)!Fresh(n)
    PROVE  d \in Answer(N, m) /\ d.name = n /\ Had(d.gid, n)
<1> DEFINE S == R(Q, N, m)!Details(n)
           F == R(Q, N, m)!Fresh(n)
<1>1. /\ S \subseteq Answer(N, m) /\ \A e \in S : e.name = n /\ Had(e.gid, n)
      /\ F \subseteq Answer(N, m) /\ \A e \in F : e.name = n /\ Had(e.gid, n)
    BY DetailsAre
<1> QED  BY <1>1

\* A request under way goes on with what is left to do and what it made.
GoesOn(w, t, s) == [w EXCEPT !.todo = t, !.made = s]
Links(w, s) == [w EXCEPT !.op = "link", !.made = s]

LEMMA RequestGoesOn ==
    ASSUME NEW N, NEW m, NEW w \in RepoRequest(N, m), NEW t \in SUBSET (Gids \cup RepoRow(N, m)),
           NEW s \in SUBSET (Entry(N, m) \cup RepoRow(N, m))
    PROVE  /\ GoesOn(w, t, s) \in RepoRequest(N, m)
           /\ GoesOn(w, t, s).op = w.op /\ GoesOn(w, t, s).todo = t /\ GoesOn(w, t, s).made = s
           /\ GoesOn(w, t, s).product = w.product /\ GoesOn(w, t, s).count = w.count
           /\ GoesOn(w, t, s).calm = w.calm
<1>1. GoesOn(w, t, s) \in RepoRequest(N, m)
    BY DEF GoesOn, RepoRequest
<1> QED  BY <1>1 DEF GoesOn, RepoRequest

LEMMA RequestLinks ==
    ASSUME NEW N, NEW m, NEW w \in RepoRequest(N, m), NEW s \in SUBSET (Entry(N, m) \cup RepoRow(N, m))
    PROVE  /\ Links(w, s) \in RepoRequest(N, m)
           /\ Links(w, s).op = "link" /\ Links(w, s).todo = w.todo /\ Links(w, s).made = s
           /\ Links(w, s).product = w.product /\ Links(w, s).count = w.count
<1>1. Links(w, s) \in RepoRequest(N, m)
    BY DEF Links, RepoRequest
<1> QED  BY <1>1 DEF Links, RepoRequest

LEMMA KeptIs ==
    ASSUME NEW Q, NEW N, NEW m \in Nat, NamesOK(N, m), CacheOK(N, m), NEW n \in N,
           cache' = R(Q, N, m)!Kept(n), UNCHANGED <<names, meta, left>>
    PROVE  /\ CacheOK(N, m)'
           /\ \A k \in N : \A d \in cache'[k] :
                 d \in cache[k] \/ (names[d.gid] = k /\ d.meta = meta[d.gid])
<1> DEFINE S == R(Q, N, m)!Details(n)
<1>1. cache' = [cache EXCEPT ![n] = S]
    BY DEF R!Kept
<1>2. /\ S \subseteq Answer(N, m)
      /\ \A d \in S : d.name = n /\ Had(d.gid, n)
      /\ \A d, e \in S : d = e
      /\ \A d \in S : d \in cache[n] \/ (names[d.gid] = n /\ d.meta = meta[d.gid])
    BY DetailsAre
<1> HIDE DEF S
<1>3. /\ cache' \in [N -> SUBSET Answer(N, m)] /\ cache'[n] = S
      /\ \A k \in N \ {n} : cache'[k] = cache[k]
    BY <1>1, <1>2 DEF CacheOK
<1>4. CacheOK(N, m)'
    <2>1. cache' \in [N -> SUBSET Answer(N, m)]
        BY <1>3
    <2>2. ASSUME NEW k \in N
          PROVE  (\A d \in cache'[k] : d.name = k /\ Had(d.gid, k)') /\ \A d, e \in cache'[k] : d = e
        BY <1>2, <1>3 DEF CacheOK, Had
    <2> QED  BY <2>1, <2>2 DEF CacheOK, Answer
<1> QED  BY <1>2, <1>3, <1>4

\* One request takes a step and the table stays as it is.
LEMMA Turn ==
    ASSUME NEW Q, NEW N, NEW m \in Nat, RepoInv(Q, N, m), NEW r \in Q, NEW c,
           call' = [call EXCEPT ![r] = c], RequestOK(c, N, m), RefreshOK(c), FreshOK(c)',
           UNCHANGED <<names, meta, left, rows, lastId, billed>>, CacheOK(N, m)',
           \A k \in N : \A d \in cache'[k] : d \in cache[k] \/ (names[d.gid] = k /\ d.meta = meta[d.gid]),
           strayed \subseteq strayed', strayed' \subseteq {"overlap", "create", "lost"},
           Writes(c) =>
             /\ Writes(call[r]) \/ (\A q \in Q \ {r} : ~Writes(call[q])) \/ "overlap" \in strayed'
             /\ strayed' \cap {"overlap", "lost"} = {} => c.count = Cardinality(rows)
             /\ strayed' \cap {"overlap", "create"} = {} => Alone(c)
    PROVE  RepoInv(Q, N, m)'
<1>1. /\ call \in [Q -> RepoRequest(N, m)] /\ NamesOK(N, m) /\ CacheOK(N, m) /\ TableOK(N, m)
      /\ RequestsFit(Q, N, m) /\ OneWriter(Q) /\ Billing(Q) /\ NoTwins(Q) /\ \A q \in Q : FreshOK(call[q])
    BY DEF RepoInv
<1>2. /\ call'[r] = c /\ \A q \in Q \ {r} : call'[q] = call[q]
      /\ call' \in [Q -> RepoRequest(N, m)]
    BY <1>1 DEF RequestOK
<1>3. NamesOK(N, m)' /\ TableOK(N, m)'
    BY <1>1 DEF NamesOK, TableOK, Had, RepoRow
<1>4. \A d : RequestOK(d, N, m) => RequestOK(d, N, m)'
    BY DEF RequestOK, Had, RepoRequest, RepoRow, Entry
<1>5. \A d : RefreshOK(d) => RefreshOK(d)'
    BY DEF RefreshOK, Had
<1>6. ASSUME NEW q \in Q PROVE (RequestOK(call[q], N, m) /\ RefreshOK(call[q]))'
    <2>1. RequestOK(call'[q], N, m) /\ RefreshOK(call'[q])
        BY <1>1, <1>2 DEF RequestsFit
    <2> QED  BY <2>1 DEF RequestOK, RefreshOK, Had, RepoRequest, RepoRow, Entry
<1>7. RequestsFit(Q, N, m)'
    BY <1>6 DEF RequestsFit
<1>8. OneWriter(Q)'
    BY <1>1, <1>2 DEF OneWriter
<1>9. Billing(Q)'
    <2>1. ASSUME strayed' \cap {"overlap", "lost"} = {}
          PROVE  strayed \cap {"overlap", "lost"} = {}
        BY <2>1
    <2> QED  BY <1>1, <1>2, <2>1 DEF Billing
<1>10. NoTwins(Q)'
    <2>1. ASSUME strayed' \cap {"overlap", "create"} = {}
          PROVE  strayed \cap {"overlap", "create"} = {}
        BY <2>1
    <2>2. \A q \in Q \ {r} : call'[q] = call[q] /\ rows' = rows
        BY <1>2
    <2> QED  BY <1>1, <1>2, <2>1, <2>2 DEF NoTwins, Alone
<1>11. ASSUME NEW q \in Q PROVE FreshOK(call[q])'
    <2>1. CASE q = r
        BY <1>2, <2>1 DEF FreshOK
    <2>2. CASE q # r
        <3> SUFFICES ASSUME call[q].op = "refresh", call[q].calm PROVE FreshOK(call[q])'
            BY <1>2, <2>2 DEF FreshOK
        <3>1. FreshOK(call[q]) /\ call'[q] = call[q]
            BY <1>1, <1>2, <2>2
        <3>2. \A w \in call[q].todo : w.name \in N
            BY <1>1 DEF RequestsFit, RequestOK, RepoRow
        <3>3. ASSUME NEW w \in call[q].todo, NEW d \in cache'[w.name]
              PROVE  names[d.gid] = w.name /\ d.meta = meta[d.gid]
            BY <3>1, <3>2, <3>3 DEF FreshOK
        <3> QED  BY <3>1, <3>3 DEF FreshOK
    <2> QED  BY <2>1, <2>2
<1> QED  BY <1>2, <1>3, <1>7, <1>8, <1>9, <1>10, <1>11 DEF RepoInv

LEMMA IdleIs ==
    ASSUME NEW Q, NEW N, NEW m \in Nat
    PROVE  /\ RequestOK(R(Q, N, m)!Idle, N, m) /\ RefreshOK(R(Q, N, m)!Idle)
           /\ FreshOK(R(Q, N, m)!Idle) /\ ~Writes(R(Q, N, m)!Idle)
<1>1. 0 \in 0 .. MaxRows /\ IsFiniteSet({})
    BY RepositoryConstants, FS_EmptySet
<1> QED  BY <1>1 DEF R!Idle, RequestOK, RepoRequest, RefreshOK, FreshOK, Writes

LEMMA CrowdIs ==
    ASSUME NEW Q, NEW N, NEW m \in Nat, NEW r \in Q
    PROVE  /\ R(Q, N, m)!Crowd(r) \subseteq {"overlap"}
           /\ (\A q \in Q \ {r} : ~Writes(call[q])) \/ "overlap" \in R(Q, N, m)!Crowd(r)
BY DEF R!Crowd, R!Writing, Writes

\* A request that ends, or fails, before anything is written.
LEMMA GivesUp ==
    ASSUME NEW Q, NEW N, NEW m \in Nat, RepoInv(Q, N, m), NEW r \in Q,
           call' = [call EXCEPT ![r] = R(Q, N, m)!Idle],
           UNCHANGED <<names, meta, left, rows, lastId, billed, strayed>>,
           UNCHANGED cache \/ \E n \in N : cache' = R(Q, N, m)!Kept(n)
    PROVE  RepoInv(Q, N, m)'
<1>1. NamesOK(N, m) /\ CacheOK(N, m) /\ strayed \subseteq {"overlap", "create", "lost"}
    BY DEF RepoInv, TableOK
<1>2. /\ CacheOK(N, m)'
      /\ \A k \in N : \A d \in cache'[k] : d \in cache[k] \/ (names[d.gid] = k /\ d.meta = meta[d.gid])
    <2>1. CASE UNCHANGED cache
        BY <1>1, <2>1 DEF CacheOK, Had, Answer
    <2>2. ASSUME NEW n \in N, cache' = R(Q, N, m)!Kept(n)
          PROVE  /\ CacheOK(N, m)'
                 /\ \A k \in N : \A d \in cache'[k] : d \in cache[k] \/ (names[d.gid] = k /\ d.meta = meta[d.gid])
        BY <1>1, <2>2, KeptIs
    <2> QED  BY <2>1, <2>2
<1>3. PICK c : c = R(Q, N, m)!Idle
    OBVIOUS
<1>4. RequestOK(c, N, m) /\ RefreshOK(c) /\ ~Writes(c)
    BY <1>3, IdleIs
<1>5. FreshOK(c)'
    BY <1>3 DEF FreshOK, R!Idle
<1> QED  BY <1>1, <1>2, <1>3, <1>4, <1>5, Turn

LEMMA ImportBegins ==
    ASSUME NEW Q, NEW N, NEW m \in Nat, RepoInv(Q, N, m), NEW r \in Q, NEW p \in Products,
           NEW gs \in SUBSET Gids, R(Q, N, m)!ImportBegin(r, p, gs)
    PROVE  RepoInv(Q, N, m)'
<1>1. TableOK(N, m) /\ CacheOK(N, m) /\ Cardinality(rows) \in 0 .. MaxRows /\ IsFiniteSet({})
    BY RowsAreFew, FS_EmptySet DEF RepoInv
<1>2. PICK c : c = [R(Q, N, m)!Idle EXCEPT !.op = "import", !.product = p, !.todo = gs,
                                            !.count = R(Q, N, m)!Cardinality(rows)]
    OBVIOUS
<1>3. c = [op |-> "import", product |-> p, todo |-> gs, count |-> Cardinality(rows), made |-> {}, calm |-> TRUE]
    BY <1>2, CountIs DEF R!Idle
<1>4. RequestOK(c, N, m)
    BY <1>1, <1>3 DEF RequestOK, RepoRequest
<1>5. RefreshOK(c) /\ FreshOK(c)' /\ Alone(c) /\ c.count = Cardinality(rows)
    BY <1>3 DEF RefreshOK, FreshOK, Alone
<1>6. /\ call' = [call EXCEPT ![r] = c] /\ strayed' = strayed \cup R(Q, N, m)!Crowd(r)
      /\ UNCHANGED <<names, meta, left, cache, rows, lastId, billed>>
    BY <1>2 DEF R!ImportBegin, R!gh
<1>7. /\ strayed \subseteq strayed' /\ strayed' \subseteq {"overlap", "create", "lost"}
      /\ (\A q \in Q \ {r} : ~Writes(call[q])) \/ "overlap" \in strayed'
    BY <1>1, <1>6, CrowdIs DEF TableOK
<1>8. CacheOK(N, m)'
    BY <1>1, <1>6 DEF CacheOK, Had, Answer
<1> QED  BY <1>4, <1>5, <1>6, <1>7, <1>8, Turn

LEMMA LinkRequestBegins ==
    ASSUME NEW Q, NEW N, NEW m \in Nat, RepoInv(Q, N, m), NEW r \in Q, NEW p \in Products,
           R(Q, N, m)!LinkBegin(r, p)
    PROVE  RepoInv(Q, N, m)'
<1>1. TableOK(N, m) /\ CacheOK(N, m) /\ Cardinality(rows) \in 0 .. MaxRows /\ IsFiniteSet({})
    BY RowsAreFew, FS_EmptySet DEF RepoInv
<1>2. PICK c : c = [R(Q, N, m)!Idle EXCEPT !.op = "linking", !.product = p,
                                            !.count = R(Q, N, m)!Cardinality(rows)]
    OBVIOUS
<1>3. c = [op |-> "linking", product |-> p, todo |-> {}, count |-> Cardinality(rows), made |-> {}, calm |-> TRUE]
    BY <1>2, CountIs DEF R!Idle
<1>4. RequestOK(c, N, m)
    BY <1>1, <1>3 DEF RequestOK, RepoRequest
<1>5. RefreshOK(c) /\ FreshOK(c)' /\ Alone(c) /\ c.count = Cardinality(rows)
    BY <1>3 DEF RefreshOK, FreshOK, Alone
<1>6. /\ call' = [call EXCEPT ![r] = c] /\ strayed' = strayed \cup R(Q, N, m)!Crowd(r)
      /\ UNCHANGED <<names, meta, left, cache, rows, lastId, billed>>
    BY <1>2 DEF R!LinkBegin, R!gh
<1>7. /\ strayed \subseteq strayed' /\ strayed' \subseteq {"overlap", "create", "lost"}
      /\ (\A q \in Q \ {r} : ~Writes(call[q])) \/ "overlap" \in strayed'
    BY <1>1, <1>6, CrowdIs DEF TableOK
<1>8. CacheOK(N, m)'
    BY <1>1, <1>6 DEF CacheOK, Had, Answer
<1> QED  BY <1>4, <1>5, <1>6, <1>7, <1>8, Turn

LEMMA CreateBegins ==
    ASSUME NEW Q, NEW N, NEW m \in Nat, RepoInv(Q, N, m), NEW r \in Q, NEW p \in Products,
           NEW g \in Gids, R(Q, N, m)!CreateBegin(r, p, g), NoName \notin N
    PROVE  RepoInv(Q, N, m)'
<1>1. TableOK(N, m) /\ CacheOK(N, m) /\ NamesOK(N, m) /\ Cardinality(rows) \in 0 .. MaxRows
    BY RowsAreFew DEF RepoInv
<1>2. PICK w : w = R(Q, N, m)!Of([gid |-> g, name |-> names[g], meta |-> meta[g]], p)
    OBVIOUS
<1>3. w = [product |-> p, gid |-> g, name |-> names[g], meta |-> meta[g]]
    BY <1>2 DEF R!Of
<1>4. names[g] \in N /\ w \in Entry(N, m) /\ Had(w.gid, w.name)
    BY <1>1, <1>3 DEF R!CreateBegin, NamesOK, Entry, Had
<1>5. PICK c : c = [R(Q, N, m)!Idle EXCEPT !.op = "create", !.product = p,
                        !.count = R(Q, N, m)!Cardinality(rows), !.made = {w}]
    OBVIOUS
<1>6. c = [op |-> "create", product |-> p, todo |-> {}, count |-> Cardinality(rows), made |-> {w}, calm |-> TRUE]
    BY <1>5, CountIs DEF R!Idle
<1>7. IsFiniteSet({w})
    BY FS_Singleton
<1>8. RequestOK(c, N, m)
    BY <1>1, <1>4, <1>6, <1>7 DEF RequestOK, RepoRequest
<1>9. RefreshOK(c) /\ FreshOK(c)' /\ c.count = Cardinality(rows)
    BY <1>6 DEF RefreshOK, FreshOK
<1>10. /\ call' = [call EXCEPT ![r] = c]
       /\ strayed' = strayed \cup R(Q, N, m)!Crowd(r) \cup (IF R(Q, N, m)!Found(rows, p, g) # {} THEN {"create"} ELSE {})
       /\ UNCHANGED <<names, meta, left, cache, rows, lastId, billed>>
    BY <1>2, <1>5 DEF R!CreateBegin, R!gh
<1>11. /\ strayed \subseteq strayed' /\ strayed' \subseteq {"overlap", "create", "lost"}
       /\ (\A q \in Q \ {r} : ~Writes(call[q])) \/ "overlap" \in strayed'
    BY <1>1, <1>10, CrowdIs DEF TableOK
<1>12. CacheOK(N, m)'
    BY <1>1, <1>10 DEF CacheOK, Had, Answer
<1>13. "create" \notin strayed' => Alone(c)
    BY <1>3, <1>6, <1>10 DEF Alone, Twins, R!Found
<1> QED  BY <1>8, <1>9, <1>10, <1>11, <1>12, <1>13, Turn

LEMMA ImportItemKeeps ==
    ASSUME NEW Q, NEW N, NEW m \in Nat, RepoInv(Q, N, m), NEW r \in Q, NEW g \in Gids,
           R(Q, N, m)!ImportItem(r, g)
    PROVE  RepoInv(Q, N, m)'
<1>1. /\ call \in [Q -> RepoRequest(N, m)] /\ NamesOK(N, m) /\ CacheOK(N, m) /\ TableOK(N, m)
      /\ RequestOK(call[r], N, m) /\ call[r].op = "import" /\ g \in call[r].todo
      /\ UNCHANGED <<names, meta, left, rows, lastId, billed, strayed>>
    BY DEF RepoInv, RequestsFit, R!ImportItem, R!gh
<1>2. /\ strayed \subseteq {"overlap", "create", "lost"} /\ Writes(call[r])
      /\ strayed \cap {"overlap", "lost"} = {} => call[r].count = Cardinality(rows)
      /\ strayed \cap {"overlap", "create"} = {} => Alone(call[r])
    BY <1>1 DEF TableOK, Writes, RepoInv, Billing, NoTwins
<1>3. ASSUME NEW made, call' = [call EXCEPT ![r].todo = @ \ {g}, ![r].made = made],
             made \subseteq Entry(N, m), IsFiniteSet(made), \A w \in made : Had(w.gid, w.name),
             Alone(call[r]) => Alone([call[r] EXCEPT !.made = made]),
             CacheOK(N, m)',
             \A k \in N : \A d \in cache'[k] : d \in cache[k] \/ (names[d.gid] = k /\ d.meta = meta[d.gid])
      PROVE  RepoInv(Q, N, m)'
    <2>1. PICK t : t = call[r].todo \ {g}
        OBVIOUS
    <2>2. PICK c : c = GoesOn(call[r], t, made)
        OBVIOUS
    <2>4. /\ c \in RepoRequest(N, m)
          /\ c.op = "import" /\ c.todo = t /\ c.made = made /\ c.count = call[r].count
          /\ c.product = call[r].product
        <3>1. t \in SUBSET (Gids \cup RepoRow(N, m)) /\ made \in SUBSET (Entry(N, m) \cup RepoRow(N, m))
            BY <1>1, <1>3, <2>1 DEF RequestOK
        <3>2. call[r] \in RepoRequest(N, m) /\ call[r].op = "import"
            BY <1>1
        <3> QED  BY <2>2, <3>1, <3>2, RequestGoesOn
    <2>3. call' = [call EXCEPT ![r] = c]
        BY <1>1, <1>3, <2>1, <2>2 DEF GoesOn
    <2>5. RequestOK(c, N, m)
        BY <1>1, <1>3, <2>1, <2>4 DEF RequestOK
    <2>6. RefreshOK(c) /\ FreshOK(c)'
        BY <2>4 DEF RefreshOK, FreshOK
    <2>7. Alone(call[r]) => Alone(c)
        <3>1. [call[r] EXCEPT !.made = made].made = made
            BY <1>1 DEF RepoRequest
        <3> QED  BY <1>3, <2>4, <3>1 DEF Alone
    <2>8. /\ strayed \subseteq strayed' /\ strayed' \subseteq {"overlap", "create", "lost"}
          /\ strayed' \cap {"overlap", "lost"} = {} => c.count = Cardinality(rows)
          /\ strayed' \cap {"overlap", "create"} = {} => Alone(c)
        BY <1>1, <1>2, <2>4, <2>7
    <2> QED  BY <1>1, <1>2, <1>3, <2>3, <2>5, <2>6, <2>8, Turn
<1>4. ASSUME R(Q, N, m)!NewToProduct(r, g), names[g] # NoName, cache' = R(Q, N, m)!Kept(names[g]),
             NEW d \in R(Q, N, m)!Details(names[g]),
             call' = [call EXCEPT ![r].todo = @ \ {g}, ![r].made = @ \cup {R(Q, N, m)!Of(d, call[r].product)}]
      PROVE  RepoInv(Q, N, m)'
    <2>1. PICK w : w = R(Q, N, m)!Of(d, call[r].product)
        OBVIOUS
    <2>2. w = [product |-> call[r].product, gid |-> d.gid, name |-> d.name, meta |-> d.meta]
        BY <2>1 DEF R!Of
    <2>3. names[g] \in N
        BY <1>1, <1>4 DEF NamesOK
    <2>4. d \in Answer(N, m) /\ d.name = names[g] /\ Had(d.gid, names[g])
        BY <1>1, <1>4, <2>3, AnswerIs
    <2>5. d.gid = g
        BY <1>1, <2>3, <2>4 DEF NamesOK, Had, Answer
    <2>6. w \in Entry(N, m) /\ Had(w.gid, w.name) /\ w.product = call[r].product /\ w.gid = g
        BY <1>1, <2>2, <2>4, <2>5 DEF RequestOK, Entry, Answer
    <2>7. PICK made : made = call[r].made \cup {w}
        OBVIOUS
    <2>8. call' = [call EXCEPT ![r].todo = @ \ {g}, ![r].made = made]
        BY <1>1, <1>4, <2>1, <2>7
    <2>9. made \subseteq Entry(N, m) /\ IsFiniteSet(made) /\ \A v \in made : Had(v.gid, v.name)
        BY <1>1, <2>6, <2>7, FS_AddElement DEF RequestOK
    <2>10. \A v \in rows \cup call[r].made : v.product = call[r].product => v.gid # g
        BY <1>4 DEF R!NewToProduct, R!Found
    <2>11. Alone(call[r]) => Alone([call[r] EXCEPT !.made = made])
        <3>1. [call[r] EXCEPT !.made = made].made = made
            BY <1>1 DEF RepoRequest
        <3>2. ASSUME Alone(call[r]) PROVE \A v, u \in made : Twins(v, u) => v = u
            BY <2>6, <2>7, <2>10, <3>2 DEF Alone, Twins
        <3>3. ASSUME Alone(call[r]) PROVE \A v \in rows, u \in made : ~Twins(v, u)
            BY <2>6, <2>7, <2>10, <3>3 DEF Alone, Twins
        <3> QED  BY <3>1, <3>2, <3>3 DEF Alone
    <2>12. /\ CacheOK(N, m)'
           /\ \A k \in N : \A e \in cache'[k] : e \in cache[k] \/ (names[e.gid] = k /\ e.meta = meta[e.gid])
        <3>1. PICK n \in N : n = names[g]
            BY <2>3
        <3>2. cache' = R(Q, N, m)!Kept(n) /\ UNCHANGED <<names, meta, left>>
            BY <1>1, <1>4, <3>1
        <3> QED  BY <1>1, <3>2, KeptIs
    <2> QED  BY <1>3, <2>8, <2>9, <2>11, <2>12
<1>5. ASSUME call' = [call EXCEPT ![r].todo = @ \ {g}], UNCHANGED cache
      PROVE  RepoInv(Q, N, m)'
    <2>1. PICK made : made = call[r].made
        OBVIOUS
    <2>2. call' = [call EXCEPT ![r].todo = @ \ {g}, ![r].made = made]
        BY <1>1, <1>5, <2>1 DEF RepoRequest
    <2>3. made \subseteq Entry(N, m) /\ IsFiniteSet(made) /\ \A v \in made : Had(v.gid, v.name)
        BY <1>1, <2>1 DEF RequestOK
    <2>4. Alone(call[r]) => Alone([call[r] EXCEPT !.made = made])
        BY <1>1, <2>1 DEF Alone, RepoRequest
    <2>5. CacheOK(N, m)'
        BY <1>1, <1>5 DEF CacheOK, Had, Answer
    <2> QED  BY <1>1, <1>3, <1>5, <2>2, <2>3, <2>4, <2>5
<1> QED  BY <1>4, <1>5 DEF R!ImportItem

LEMMA LinkFetches ==
    ASSUME NEW Q, NEW N, NEW m \in Nat, RepoInv(Q, N, m), NEW r \in Q, NEW n \in N,
           R(Q, N, m)!LinkFetched(r, n)
    PROVE  RepoInv(Q, N, m)'
<1>1. /\ call \in [Q -> RepoRequest(N, m)] /\ NamesOK(N, m) /\ CacheOK(N, m) /\ TableOK(N, m)
      /\ RequestOK(call[r], N, m) /\ call[r].op = "linking"
      /\ UNCHANGED <<names, meta, left, rows, lastId, billed, strayed>>
      /\ cache' = R(Q, N, m)!Kept(n) \/ UNCHANGED cache
    BY DEF RepoInv, RequestsFit, R!LinkFetched, R!gh
<1>2. /\ strayed \subseteq {"overlap", "create", "lost"} /\ Writes(call[r])
      /\ strayed \cap {"overlap", "lost"} = {} => call[r].count = Cardinality(rows)
    BY <1>1 DEF TableOK, Writes, RepoInv, Billing
<1>3. /\ CacheOK(N, m)'
      /\ \A k \in N : \A d \in cache'[k] : d \in cache[k] \/ (names[d.gid] = k /\ d.meta = meta[d.gid])
    <2>1. CASE UNCHANGED cache
        BY <1>1, <2>1 DEF CacheOK, Had, Answer
    <2>2. CASE cache' = R(Q, N, m)!Kept(n)
        BY <1>1, <2>2, KeptIs
    <2> QED  BY <1>1, <2>1, <2>2
<1>4. ASSUME NEW d \in R(Q, N, m)!Details(n) \cup R(Q, N, m)!Fresh(n),
             R(Q, N, m)!Found(rows, call[r].product, d.gid) = {},
             call' = [call EXCEPT ![r].op = "link", ![r].made = {R(Q, N, m)!Of(d, call[r].product)}]
      PROVE  RepoInv(Q, N, m)'
    <2>1. PICK w : w = R(Q, N, m)!Of(d, call[r].product)
        OBVIOUS
    <2>2. w = [product |-> call[r].product, gid |-> d.gid, name |-> d.name, meta |-> d.meta]
        BY <2>1 DEF R!Of
    <2>3. d \in Answer(N, m) /\ d.name = n /\ Had(d.gid, n)
        BY <1>1, <1>4, AnswerIs
    <2>4. w \in Entry(N, m) /\ Had(w.gid, w.name)
        BY <1>1, <2>2, <2>3 DEF RequestOK, Entry, Answer
    <2>5. PICK c : c = Links(call[r], {w})
        OBVIOUS
    <2>7. /\ c \in RepoRequest(N, m)
          /\ c.op = "link" /\ c.made = {w} /\ c.count = call[r].count /\ c.product = call[r].product
        <3>1. call[r].todo \in SUBSET (Gids \cup RepoRow(N, m)) /\ {w} \in SUBSET (Entry(N, m) \cup RepoRow(N, m))
            BY <1>1, <2>4 DEF RepoRequest
        <3>2. call[r] \in RepoRequest(N, m) 
            BY <1>1
        <3> QED  BY <2>5, <3>1, <3>2, RequestLinks
    <2>6. call' = [call EXCEPT ![r] = c]
        BY <1>1, <1>4, <2>1, <2>5 DEF Links
    <2>8. IsFiniteSet(c.made)
        BY <2>7, FS_Singleton
    <2>9. RequestOK(c, N, m)
        BY <1>1, <2>4, <2>7, <2>8 DEF RequestOK
    <2>10. RefreshOK(c) /\ FreshOK(c)'
        BY <2>7 DEF RefreshOK, FreshOK
    <2>11. Alone(c)
        BY <1>4, <2>2, <2>7 DEF Alone, Twins, R!Found
    <2> QED  BY <1>1, <1>2, <1>3, <2>6, <2>7, <2>9, <2>10, <2>11, Turn
<1>5. ASSUME call' = [call EXCEPT ![r] = R(Q, N, m)!Idle] PROVE RepoInv(Q, N, m)'
    BY <1>1, <1>5, GivesUp
<1> QED  BY <1>4, <1>5 DEF R!LinkFetched

LEMMA RefreshBegins ==
    ASSUME NEW Q, NEW N, NEW m \in Nat, RepoInv(Q, N, m), NEW r \in Q, NEW ws \in SUBSET rows,
           R(Q, N, m)!RefreshBegin(r, ws)
    PROVE  RepoInv(Q, N, m)'
<1>1. TableOK(N, m) /\ CacheOK(N, m) /\ 0 \in 0 .. MaxRows /\ IsFiniteSet({})
    BY FS_EmptySet, RepositoryConstants DEF RepoInv
<1>2. PICK b \in BOOLEAN : b <=> \A w \in ws : cache[w.name] = {}
    OBVIOUS
<1>3. PICK t : t = ws
    OBVIOUS
<1>4. PICK c : c = [R(Q, N, m)!Idle EXCEPT !.op = "refresh", !.todo = t, !.calm = b]
    OBVIOUS
<1>13. /\ c.op = "refresh" /\ c.todo = t /\ c.made = {} /\ c.count = 0 /\ c.product = NoProduct
       /\ c.calm <=> b
    BY <1>4 DEF R!Idle
<1>5. call' = [call EXCEPT ![r] = c]
    <2>1. call' = [call EXCEPT ![r] = [R(Q, N, m)!Idle EXCEPT !.op = "refresh", !.todo = t, !.calm = \A w \in t : cache[w.name] = {}]]
        BY <1>3 DEF R!RefreshBegin
    <2>2. b = (\A w \in t : cache[w.name] = {})
        BY <1>2, <1>3
    <2> QED  BY <1>4, <2>1, <2>2
<1>6. t \subseteq RepoRow(N, m) /\ \A w \in t : w.id <= lastId /\ Had(w.gid, w.name) /\ w \in rows
    BY <1>1, <1>3 DEF TableOK
<1>7. RequestOK(c, N, m)
    <2>1. R(Q, N, m)!Idle \in RepoRequest(N, m)
        BY IdleIs DEF RequestOK
    <2>2. c \in RepoRequest(N, m)
        BY <1>2, <1>4, <1>6, <2>1 DEF RepoRequest
    <2> QED  BY <1>1, <1>6, <1>13, <2>2 DEF RequestOK
<1>8. RefreshOK(c)
    BY <1>1, <1>13, <1>6 DEF RefreshOK, TableOK
<1>9. UNCHANGED <<names, meta, left, cache, rows, lastId, billed, strayed>>
    BY DEF R!RefreshBegin, R!gh
<1>10. FreshOK(c)'
    BY <1>2, <1>3, <1>13, <1>6, <1>9 DEF FreshOK
<1>11. ~Writes(c) /\ strayed \subseteq {"overlap", "create", "lost"}
    BY <1>1, <1>13 DEF Writes, TableOK
<1>12. CacheOK(N, m)'
    BY <1>1, <1>9 DEF CacheOK, Had, Answer
<1> QED  BY <1>5, <1>7, <1>8, <1>9, <1>10, <1>11, <1>12, Turn

LEMMA RefreshItemKeeps ==
    ASSUME NEW Q, NEW N, NEW m \in Nat, RepoInv(Q, N, m), NEW r \in Q, NEW w \in call[r].todo,
           R(Q, N, m)!RefreshItem(r, w)
    PROVE  RepoInv(Q, N, m)'
<1>1. /\ call \in [Q -> RepoRequest(N, m)] /\ NamesOK(N, m) /\ CacheOK(N, m) /\ TableOK(N, m)
      /\ RequestOK(call[r], N, m) /\ RefreshOK(call[r]) /\ FreshOK(call[r]) /\ call[r].op = "refresh"
      /\ UNCHANGED <<names, meta, left, rows, lastId, billed, strayed>>
      /\ cache' = R(Q, N, m)!Kept(w.name)
    BY DEF RepoInv, RequestsFit, R!RefreshItem, R!gh
<1>2. w \in RepoRow(N, m) /\ w.name \in N /\ w.gid \in Gids /\ Had(w.gid, w.name) /\ w.id <= lastId
    BY <1>1 DEF RequestOK, RefreshOK, RepoRow
<1>3. PICK U : U = {R(Q, N, m)!Updated(w, d) : d \in R(Q, N, m)!Details(w.name)}
    OBVIOUS
<1>4. PICK D : D = R(Q, N, m)!Details(w.name)
    OBVIOUS
<1>5. /\ \A d \in D : d \in Answer(N, m) /\ d.name = w.name /\ Had(d.gid, w.name)
      /\ \A d, e \in D : d = e
      /\ \A d \in D : d \in cache[w.name] \/ (names[d.gid] = w.name /\ d.meta = meta[d.gid])
    <2>1. /\ R(Q, N, m)!Details(w.name) \subseteq Answer(N, m)
          /\ \A d \in R(Q, N, m)!Details(w.name) : d.name = w.name /\ Had(d.gid, w.name)
          /\ \A d, e \in R(Q, N, m)!Details(w.name) : d = e
          /\ \A d \in R(Q, N, m)!Details(w.name) : d \in cache[w.name] \/ (names[d.gid] = w.name /\ d.meta = meta[d.gid])
        BY <1>1, <1>2, DetailsAre
    <2> QED  BY <1>4, <2>1
<1>6. \A d \in D : d.gid = w.gid
    BY <1>1, <1>2, <1>5 DEF NamesOK, Answer
<1>7. \A u \in U : \E d \in D : u = [w EXCEPT !.name = d.name, !.meta = d.meta]
    BY <1>3, <1>4 DEF R!Updated
<1>8. ASSUME NEW u \in U
      PROVE  /\ u \in RepoRow(N, m) /\ u.id = w.id /\ u.product = w.product /\ u.gid = w.gid
             /\ u.name = w.name /\ \E d \in D : u.meta = d.meta
    <2>1. PICK d \in D : u = [w EXCEPT !.name = d.name, !.meta = d.meta]
        BY <1>7
    <2>2. d.name \in N /\ d.meta \in 0 .. m /\ d.name = w.name
        BY <1>2, <1>5 DEF Answer
    <2>3. u \in RepoRow(N, m)
        BY <1>2, <2>1, <2>2 DEF RepoRow
    <2>4. u.id = w.id /\ u.product = w.product /\ u.gid = w.gid /\ u.name = d.name /\ u.meta = d.meta
        BY <1>2, <2>1 DEF RepoRow
    <2> QED  BY <2>2, <2>3, <2>4
<1>9. \A u, v \in U : u = v
    BY <1>5, <1>7
<1>10. IsFiniteSet(U)
    <2>1. U = {} \/ \E u : U = {u}
        BY <1>9
    <2> QED  BY <2>1, FS_EmptySet, FS_Singleton
<1>11. PICK t : t = call[r].todo \ {w}
    OBVIOUS
<1>12. PICK s : s = call[r].made \cup U
    OBVIOUS
<1>13. PICK c : c = GoesOn(call[r], t, s)
    OBVIOUS
<1>14. call' = [call EXCEPT ![r] = c]
    BY <1>1, <1>3, <1>11, <1>12, <1>13 DEF GoesOn, R!RefreshItem
<1>15. c \in RepoRequest(N, m) /\ c.op = "refresh" /\ c.todo = t /\ c.made = s /\ c.calm = call[r].calm
    <2>1. t \in SUBSET (Gids \cup RepoRow(N, m)) /\ s \in SUBSET (Entry(N, m) \cup RepoRow(N, m))
        BY <1>1, <1>8, <1>11, <1>12 DEF RequestOK
    <2>2. call[r] \in RepoRequest(N, m) /\ call[r].op = "refresh"
        BY <1>1
    <2> QED  BY <1>13, <2>1, <2>2, RequestGoesOn
<1>16. IsFiniteSet(s)
    <2>1. U = {} \/ \E u : U = {u}
        BY <1>9
    <2>2. IsFiniteSet(call[r].made)
        BY <1>1 DEF RequestOK
    <2> QED  BY <1>12, <2>1, <2>2, FS_AddElement
<1>17. RequestOK(c, N, m)
    BY <1>1, <1>2, <1>8, <1>11, <1>12, <1>15, <1>16 DEF RequestOK
<1>18. RefreshOK(c)
    <2>1. \A u \in t \cup s : u.id <= lastId /\ Had(u.gid, u.name)
        BY <1>1, <1>2, <1>8, <1>11, <1>12 DEF RefreshOK
    <2>2. \A v, u \in t : v.id = u.id => v = u
        BY <1>1, <1>11 DEF RefreshOK
    <2>3. \A v, u \in s : v.id = u.id => v = u
        BY <1>1, <1>8, <1>9, <1>12 DEF RefreshOK
    <2>4. \A v \in t, u \in s : v.id # u.id
        BY <1>1, <1>8, <1>11, <1>12 DEF RefreshOK
    <2>5. \A u \in t \cup s, v \in rows : v.id = u.id => v.product = u.product /\ v.gid = u.gid
        BY <1>1, <1>8, <1>11, <1>12 DEF RefreshOK
    <2> QED  BY <1>15, <2>1, <2>2, <2>3, <2>4, <2>5 DEF RefreshOK
<1>19. /\ CacheOK(N, m)'
       /\ \A k \in N : \A d \in cache'[k] : d \in cache[k] \/ (names[d.gid] = k /\ d.meta = meta[d.gid])
    <2>1. NamesOK(N, m) /\ CacheOK(N, m) /\ UNCHANGED <<names, meta, left>> /\ m \in Nat
        BY <1>1
    <2>2. ASSUME NEW n \in N, cache' = R(Q, N, m)!Kept(n)
          PROVE  /\ CacheOK(N, m)'
                 /\ \A k \in N : \A d \in cache'[k] :
                       d \in cache[k] \/ (names[d.gid] = k /\ d.meta = meta[d.gid])
        BY <2>1, <2>2, KeptIs
    <2>3. PICK n \in N : n = w.name
        BY <1>2
    <2>4. cache' = R(Q, N, m)!Kept(n)
        BY <1>1, <2>3
    <2> QED  BY <2>2, <2>4
<1>20. FreshOK(c)'
    <2> SUFFICES ASSUME c.calm PROVE FreshOK(c)'
        BY DEF FreshOK
    <2>1. call[r].calm
        BY <1>15
    <2>2. ASSUME NEW v \in t, NEW d \in cache'[v.name]
          PROVE  names[d.gid] = v.name /\ d.meta = meta[d.gid]
        <3>1. v.name \in N /\ v \in call[r].todo
            BY <1>1, <1>11 DEF RequestOK, RepoRow
        <3> QED  BY <1>1, <1>19, <2>1, <2>2, <3>1 DEF FreshOK
    <2>3. ASSUME NEW u \in s PROVE u.meta = meta[u.gid]
        <3>1. CASE u \in call[r].made
            BY <1>1, <2>1, <3>1 DEF FreshOK
        <3>2. CASE u \in U
            <4>1. PICK d \in D : u.meta = d.meta
                BY <1>8, <3>2
            <4>2. d.meta = meta[d.gid]
                BY <1>1, <1>5, <2>1 DEF FreshOK
            <4> QED  BY <1>6, <1>8, <3>2, <4>1, <4>2
        <3> QED  BY <1>12, <3>1, <3>2
    <2>4. \A u \in t \cup s : \E v \in rows : v.id = u.id
        BY <1>1, <1>8, <1>11, <1>12, <2>1 DEF FreshOK
    <2> QED  BY <1>1, <1>15, <2>2, <2>3, <2>4 DEF FreshOK
<1>21. ~Writes(c) /\ strayed \subseteq {"overlap", "create", "lost"}
    BY <1>1, <1>15 DEF Writes, TableOK
<1> QED  BY <1>1, <1>14, <1>17, <1>18, <1>19, <1>20, <1>21, Turn

\* Kept answers go, or nothing happens to the repositories.
LEMMA AnswersGo ==
    ASSUME NEW Q, NEW N, NEW m \in Nat, RepoInv(Q, N, m),
           UNCHANGED <<names, meta, left, rows, lastId, call, billed, strayed>>,
           UNCHANGED cache \/ \E n \in N : R(Q, N, m)!Expire(n)
    PROVE  RepoInv(Q, N, m)'
<1>1. /\ call \in [Q -> RepoRequest(N, m)] /\ NamesOK(N, m) /\ CacheOK(N, m) /\ TableOK(N, m)
      /\ RequestsFit(Q, N, m) /\ OneWriter(Q) /\ Billing(Q) /\ NoTwins(Q) /\ \A q \in Q : FreshOK(call[q])
    BY DEF RepoInv
<1>2. cache' \in [N -> SUBSET Answer(N, m)] /\ \A k \in N : cache'[k] \subseteq cache[k]
    <2>1. CASE UNCHANGED cache
        BY <1>1, <2>1 DEF CacheOK
    <2>2. CASE \E n \in N : R(Q, N, m)!Expire(n)
        BY <1>1, <2>2 DEF CacheOK, R!Expire
    <2> QED  BY <2>1, <2>2
<1>3. CacheOK(N, m)'
    BY <1>1, <1>2 DEF CacheOK, Had, Answer
<1>4. NamesOK(N, m)' /\ TableOK(N, m)' /\ OneWriter(Q)' /\ Billing(Q)' /\ NoTwins(Q)' /\ call' \in [Q -> RepoRequest(N, m)']
    BY <1>1 DEF NamesOK, TableOK, Had, RepoRow, OneWriter, Billing, NoTwins, Alone, RepoRequest, Entry
<1>5. RequestsFit(Q, N, m)'
    <2>1. ASSUME NEW q \in Q PROVE (RequestOK(call[q], N, m) /\ RefreshOK(call[q]))'
        <3>1. RequestOK(call[q], N, m) /\ RefreshOK(call[q])
            BY <1>1 DEF RequestsFit
        <3> QED  BY <3>1 DEF RequestOK, RefreshOK, Had, RepoRequest, RepoRow, Entry
    <2> QED  BY <2>1 DEF RequestsFit
<1>6. ASSUME NEW q \in Q PROVE FreshOK(call[q])'
    <2> SUFFICES ASSUME call[q].op = "refresh", call[q].calm PROVE FreshOK(call[q])'
        BY DEF FreshOK
    <2>1. \A w \in call[q].todo : w.name \in N
        BY <1>1 DEF RequestsFit, RequestOK, RepoRow
    <2>2. \A w \in call[q].todo : \A d \in cache'[w.name] : names[d.gid] = w.name /\ d.meta = meta[d.gid]
        BY <1>1, <1>2, <2>1 DEF FreshOK
    <2> QED  BY <1>1, <2>2 DEF FreshOK
<1> QED  BY <1>3, <1>4, <1>5, <1>6 DEF RepoInv

\* Other requests go on with what they have; a refresh has seen an older state.
LEMMA DisturbedIs ==
    ASSUME NEW Q, NEW N, NEW m \in Nat, NEW q \in Q, call[q] \in RepoRequest(N, m),
           NEW c, c = R(Q, N, m)!Disturbed[q]
    PROVE  /\ c \in RepoRequest(N, m)
           /\ c.op = call[q].op /\ c.product = call[q].product /\ c.todo = call[q].todo
           /\ c.count = call[q].count /\ c.made = call[q].made /\ (c.op = "refresh" => ~c.calm)
<1>1. \A w \in RepoRequest(N, m) : [w EXCEPT !.calm = FALSE] \in RepoRequest(N, m)
    BY DEF RepoRequest
<1>2. c = IF call[q].op = "refresh" THEN [call[q] EXCEPT !.calm = FALSE] ELSE call[q]
    BY DEF R!Disturbed
<1> QED  BY <1>1, <1>2 DEF RepoRequest

\* Everybody but r is disturbed, r has ended (or there is no r).
Disturbs(Q, N, m, r) ==
    /\ call' \in [Q -> RepoRequest(N, m)]
    /\ r \in Q => call'[r] = R(Q, N, m)!Idle
    /\ \A q \in Q \ {r} :
         /\ call'[q].op = call[q].op /\ call'[q].product = call[q].product
         /\ call'[q].todo = call[q].todo /\ call'[q].count = call[q].count
         /\ call'[q].made = call[q].made /\ (call'[q].op = "refresh" => ~call'[q].calm)

LEMMA NoRequest == ASSUME NEW Q PROVE \E r : r \notin Q
<1>1. PICK x : x = {y \in Q : y \notin y}
    OBVIOUS
<1>2. x \notin Q
    BY <1>1
<1> QED  BY <1>2

LEMMA DisturbsIs ==
    ASSUME NEW Q, NEW N, NEW m \in Nat, call \in [Q -> RepoRequest(N, m)], NEW r,
           call' = IF r \in Q THEN [R(Q, N, m)!Disturbed EXCEPT ![r] = R(Q, N, m)!Idle] ELSE R(Q, N, m)!Disturbed
    PROVE  Disturbs(Q, N, m, r)
<1>1. R(Q, N, m)!Disturbed = [q \in Q |-> R(Q, N, m)!Disturbed[q]]
    BY DEF R!Disturbed
<1>2. \A q \in Q : /\ R(Q, N, m)!Disturbed[q] \in RepoRequest(N, m)
                   /\ R(Q, N, m)!Disturbed[q].op = call[q].op
                   /\ R(Q, N, m)!Disturbed[q].product = call[q].product
                   /\ R(Q, N, m)!Disturbed[q].todo = call[q].todo
                   /\ R(Q, N, m)!Disturbed[q].count = call[q].count
                   /\ R(Q, N, m)!Disturbed[q].made = call[q].made
                   /\ (R(Q, N, m)!Disturbed[q].op = "refresh" => ~R(Q, N, m)!Disturbed[q].calm)
    <2> TAKE q \in Q
    <2>1. PICK c : c = R(Q, N, m)!Disturbed[q]
        OBVIOUS
    <2> QED  BY <2>1, DisturbedIs
<1>3. R(Q, N, m)!Idle \in RepoRequest(N, m)
    BY IdleIs DEF RequestOK
<1>4. PICK D : D = R(Q, N, m)!Disturbed
    OBVIOUS
<1>5. D = [q \in Q |-> D[q]]
    BY <1>1, <1>4
<1>6. D \in [Q -> RepoRequest(N, m)]
    BY <1>2, <1>4, <1>5
<1>7. call' = IF r \in Q THEN [D EXCEPT ![r] = R(Q, N, m)!Idle] ELSE D
    BY <1>4
<1>8. \A q \in Q \ {r} : call'[q] = D[q]
    BY <1>5, <1>7
<1> QED  BY <1>2, <1>3, <1>4, <1>6, <1>7, <1>8 DEF Disturbs

\* The table changes; numbers keep their product and repository.
LEMMA TableChanges ==
    ASSUME NEW Q, NEW N, NEW m \in Nat, RepoInv(Q, N, m), NEW r, Disturbs(Q, N, m, r),
           NamesOK(N, m)', CacheOK(N, m)', TableOK(N, m)', lastId <= lastId',
           \A g \in Gids, n \in N : Had(g, n) => Had(g, n)',
           \A v \in rows' : v.id > lastId \/ \E w \in rows : w.id = v.id /\ Twins(v, w),
           OneWriter(Q)', Billing(Q)', NoTwins(Q)'
    PROVE  RepoInv(Q, N, m)'
<1>1. call \in [Q -> RepoRequest(N, m)] /\ TableOK(N, m) /\ RequestsFit(Q, N, m)
    BY DEF RepoInv
<1>2. ASSUME NEW q \in Q PROVE (RequestOK(call[q], N, m) /\ RefreshOK(call[q]) /\ FreshOK(call[q]))'
    <2>1. CASE q = r
        <3>1. call'[q] = R(Q, N, m)!Idle
            BY <2>1 DEF Disturbs
        <3>2. PICK c : c = R(Q, N, m)!Idle
            OBVIOUS
        <3>3. c = [op |-> "idle", product |-> NoProduct, todo |-> {}, count |-> 0, made |-> {}, calm |-> TRUE]
            BY <3>2 DEF R!Idle
        <3>4. RequestOK(c, N, m) /\ c \in RepoRequest(N, m)
            BY <3>2, IdleIs DEF RequestOK
        <3> QED  BY <3>1, <3>2, <3>3, <3>4 DEF RequestOK, RefreshOK, FreshOK, RepoRequest, RepoRow, Entry
    <2>2. CASE q # r
        <3>1. RequestOK(call[q], N, m) /\ RefreshOK(call[q])
            BY <1>1 DEF RequestsFit
        <3>2. /\ call'[q].op = call[q].op /\ call'[q].product = call[q].product
              /\ call'[q].todo = call[q].todo /\ call'[q].count = call[q].count
              /\ call'[q].made = call[q].made /\ (call'[q].op = "refresh" => ~call'[q].calm)
              /\ call'[q] \in RepoRequest(N, m)
            BY <2>2 DEF Disturbs
        <3>3. \A w \in call[q].todo \cup call[q].made :
                 (call[q].op = "refresh" \/ w \in call[q].made) => (Had(w.gid, w.name) => Had(w.gid, w.name)')
            BY <3>1 DEF RequestOK, RepoRequest, RepoRow, Entry
        <3>4. RequestOK(call[q], N, m)'
            BY <3>1, <3>2, <3>3 DEF RequestOK, RepoRequest, RepoRow, Entry
        <3>5. RefreshOK(call[q])'
            <4> SUFFICES ASSUME call[q].op = "refresh" PROVE RefreshOK(call[q])'
                BY <3>2 DEF RefreshOK
            <4>1. \A w \in call[q].todo \cup call[q].made : w.id <= lastId /\ Had(w.gid, w.name) /\ w.id \in Int
                BY <3>1 DEF RefreshOK, RequestOK, RepoRow
            <4>2. \A w \in call[q].todo \cup call[q].made : w.id <= lastId' /\ Had(w.gid, w.name)'
                BY <1>1, <3>3, <4>1 DEF TableOK
            <4>3. \A w \in call[q].todo \cup call[q].made, v \in rows' :
                     v.id = w.id => v.product = w.product /\ v.gid = w.gid
                <5> SUFFICES ASSUME NEW w \in call[q].todo \cup call[q].made, NEW v \in rows', v.id = w.id
                             PROVE  v.product = w.product /\ v.gid = w.gid
                    OBVIOUS
                <5>1. PICK u \in rows : u.id = v.id /\ Twins(v, u)
                    BY <1>1, <4>1 DEF TableOK
                <5> QED  BY <3>1, <5>1 DEF RefreshOK, Twins
            <4> QED  BY <3>1, <3>2, <4>2, <4>3 DEF RefreshOK
        <3>6. FreshOK(call[q])'
            BY <3>2 DEF FreshOK
        <3> QED  BY <3>4, <3>5, <3>6
    <2> QED  BY <2>1, <2>2
<1>3. RequestsFit(Q, N, m)' /\ call' \in [Q -> RepoRequest(N, m)']
    BY <1>2 DEF RequestsFit, Disturbs, RepoRequest, RepoRow, Entry
<1> QED  BY <1>2, <1>3 DEF RepoInv

\* New rows take numbers of their own, above all others.
LEMMA NumbersExist ==
    ASSUME NEW W, IsFiniteSet(W), NEW l \in Nat
    PROVE  /\ Cardinality(W) \in Nat
           /\ \E f \in [W -> l + 1 .. l + Cardinality(W)] : \A v, w \in W : f[v] = f[w] => v = w
<1>1. Cardinality(W) \in Nat
    BY FS_CardinalityType
<1> DEFINE Above == l + 1 .. l + Cardinality(W)
<1>2. IsFiniteSet(Above) /\ Cardinality(Above) = Cardinality(W)
    <2>1. PICK a \in Int : a = l + 1
        OBVIOUS
    <2>2. PICK b \in Int : b = l + Cardinality(W)
        BY <1>1
    <2>3. IsFiniteSet(a .. b) /\ Cardinality(a .. b) = IF a > b THEN 0 ELSE b - a + 1
        BY FS_Interval
    <2>4. Above = a .. b
        BY <2>1, <2>2
    <2> HIDE DEF Above
    <2> QED  BY <1>1, <2>1, <2>2, <2>3, <2>4
<1> HIDE DEF Above
<1>3. ExistsBijection(W, Above)
    BY <1>2, FS_SameCardinalityBij
<1>4. PICK f \in [W -> Above] : \A v, w \in W : f[v] = f[w] => v = w
    BY <1>3 DEF ExistsBijection, Bijection, Injection, IsInjective
<1> QED  BY <1>1, <1>4 DEF Above

\* A row to be, under the number that f gives it; S are W's rows with numbers of
\* their own above the last one.
NewRow(f, w) == [id |-> f[w], product |-> w.product, gid |-> w.gid, name |-> w.name, meta |-> w.meta]
Numbered(W, S) ==
    \E f \in [W -> lastId + 1 .. lastId + Cardinality(W)] :
       (\A v, w \in W : f[v] = f[w] => v = w) /\ S = {NewRow(f, w) : w \in W}

LEMMA StoredIs ==
    ASSUME NEW Q, NEW N, NEW m \in Nat, NEW r \in Q, NEW W, W = call[r].made, IsFiniteSet(W), lastId \in Nat
    PROVE  Numbered(W, R(Q, N, m)!Stored(r))
<1> DEFINE P(f) == R(Q, N, m)!IsInjective(f)
           F == [W -> lastId + 1 .. lastId + R(Q, N, m)!Cardinality(W)]
<1>1. R(Q, N, m)!Cardinality(W) = Cardinality(W)
    BY CountIs
<1>2. Cardinality(W) \in Nat /\ \E f \in F : P(f)
    <2>1. Cardinality(W) \in Nat
        BY NumbersExist
    <2>2. PICK f \in [W -> lastId + 1 .. lastId + Cardinality(W)] : \A v, w \in W : f[v] = f[w] => v = w
        BY NumbersExist
    <2>3. f \in F /\ DOMAIN f = W
        BY <1>1, <2>2
    <2>4. P(f)
        BY <2>2, <2>3 DEF R!IsInjective
    <2> QED  BY <2>1, <2>3, <2>4
<1>3. R(Q, N, m)!Stored(r) = {[id |-> (CHOOSE f \in F : P(f))[w], product |-> w.product, gid |-> w.gid,
                                name |-> w.name, meta |-> w.meta] : w \in W}
    BY DEF R!Stored
<1>4. PICK g : g = (CHOOSE f \in F : P(f))
    OBVIOUS
<1>5. g \in F /\ P(g)
    BY <1>2, <1>4
<1>6. g \in [W -> lastId + 1 .. lastId + Cardinality(W)] /\ \A v, w \in W : g[v] = g[w] => v = w
    BY <1>1, <1>5 DEF R!IsInjective
<1>7. R(Q, N, m)!Stored(r) = {NewRow(g, w) : w \in W}
    BY <1>3, <1>4 DEF NewRow
<1> HIDE DEF F, P
<1> QED  BY <1>6, <1>7 DEF Numbered

LEMMA CommitIs ==
    ASSUME NEW Q, NEW N, NEW m \in Nat, RepoInv(Q, N, m), NEW r \in Q, R(Q, N, m)!Commit(r)
    PROVE  /\ Disturbs(Q, N, m, r) /\ Writes(call[r]) /\ UNCHANGED <<names, meta, left, cache>>
           /\ IsFiniteSet(call[r].made) /\ Cardinality(call[r].made) \in Nat
           /\ lastId' = lastId + Cardinality(call[r].made) /\ lastId' <= MaxRows
           /\ \E S : /\ rows' = rows \cup S /\ IsFiniteSet(S) /\ Cardinality(S) = Cardinality(call[r].made)
                     /\ S \subseteq RepoRow(N, m)
                     /\ \A v \in S : v.id > lastId /\ v.id <= lastId' /\ Had(v.gid, v.name)
                     /\ \A v, w \in S : v.id = w.id => v = w
                     /\ \A v \in S : \E w \in call[r].made : Twins(v, w)
                     /\ Alone(call[r]) => \A v, w \in S : Twins(v, w) => v = w
<1>1. /\ call \in [Q -> RepoRequest(N, m)] /\ TableOK(N, m) /\ RequestOK(call[r], N, m)
      /\ call[r].op \in {"import", "link", "create"}
    BY DEF RepoInv, RequestsFit, R!Commit
<1>2. PICK W : W = call[r].made
    OBVIOUS
<1>3. IsFiniteSet(W) /\ W \subseteq Entry(N, m) /\ (\A w \in W : Had(w.gid, w.name)) /\ lastId \in Nat
    BY <1>1, <1>2, RepositoryConstants DEF RequestOK, TableOK
<1>4. Cardinality(W) \in Nat /\ R(Q, N, m)!Cardinality(W) = Cardinality(W)
    <2>1. Cardinality(W) \in Nat
        BY <1>3, FS_CardinalityType
    <2>2. R(Q, N, m)!Cardinality(W) = Cardinality(W)
        BY CountIs
    <2> QED  BY <2>1, <2>2
<1>5. PICK f \in [W -> lastId + 1 .. lastId + Cardinality(W)] :
            /\ \A v, w \in W : f[v] = f[w] => v = w
            /\ R(Q, N, m)!Stored(r) = {NewRow(f, w) : w \in W}
    <2>1. Numbered(W, R(Q, N, m)!Stored(r))
        BY <1>2, <1>3, StoredIs
    <2> QED  BY <2>1 DEF Numbered
<1>6. PICK S : S = R(Q, N, m)!Stored(r)
    OBVIOUS
<1>7. rows' = rows \cup S /\ lastId' = lastId + Cardinality(W) /\ lastId' <= MaxRows
    BY <1>2, <1>4, <1>6 DEF R!Commit
<1> DEFINE Put(w) == NewRow(f, w)
<1>8. S = {Put(w) : w \in W}
    BY <1>5, <1>6
<1>9. \A w \in W : /\ Put(w) \in RepoRow(N, m) /\ Put(w).id = f[w] /\ f[w] > lastId /\ f[w] <= lastId'
                   /\ Had(Put(w).gid, Put(w).name) /\ Twins(Put(w), w)
    BY <1>3, <1>4, <1>5, <1>7, RepositoryConstants DEF NewRow, RepoRow, Entry, Twins
<1>10. \A v, w \in W : Put(v) = Put(w) => v = w
    BY <1>5, <1>9
<1> HIDE DEF Put
<1>11. IsFiniteSet(S) /\ Cardinality(S) = Cardinality(W)
    <2> DEFINE g == [w \in W |-> Put(w)]
    <2>1. g \in Bijection(W, S)
        BY <1>8, <1>10 DEF Bijection, Injection, Surjection, IsInjective
    <2> QED  BY <1>3, <2>1, FS_Bijection DEF ExistsBijection
<1>12. /\ S \subseteq RepoRow(N, m)
       /\ \A v \in S : v.id > lastId /\ v.id <= lastId' /\ Had(v.gid, v.name)
       /\ \A v \in S : \E w \in W : Twins(v, w)
    BY <1>8, <1>9
<1>13. \A v, w \in S : v.id = w.id => v = w
    BY <1>5, <1>8, <1>9
<1>14. Alone(call[r]) => \A v, w \in S : Twins(v, w) => v = w
    <2> SUFFICES ASSUME Alone(call[r]), NEW v \in W, NEW w \in W, Twins(Put(v), Put(w)) PROVE v = w
        BY <1>8
    <2>1. Twins(v, w)
        BY <1>9 DEF Twins
    <2> QED  BY <1>2, <2>1 DEF Alone
<1>15. Disturbs(Q, N, m, r)
    BY <1>1, DisturbsIs DEF R!Commit
<1>16. UNCHANGED <<names, meta, left, cache>> /\ Writes(call[r])
    BY <1>1 DEF R!Commit, R!gh, Writes
<1> QED  BY <1>2, <1>3, <1>4, <1>7, <1>11, <1>12, <1>13, <1>14, <1>15, <1>16


\* Rows put where no number was taken: the table grows by as many.
LEMMA CommitKeeps ==
    ASSUME NEW Q, NEW N, NEW m \in Nat, RepoInv(Q, N, m), NEW r \in Q, R(Q, N, m)!Commit(r),
           \/ /\ billed' = R(Q, N, m)!AddReport(call[r].count + Cardinality(call[r].made))
              /\ UNCHANGED strayed
           \/ UNCHANGED billed /\ strayed' = strayed \cup {"lost"}
    PROVE  RepoInv(Q, N, m)'
<1>1. /\ call \in [Q -> RepoRequest(N, m)] /\ NamesOK(N, m) /\ CacheOK(N, m) /\ TableOK(N, m)
      /\ OneWriter(Q) /\ Billing(Q) /\ NoTwins(Q)
    BY DEF RepoInv
<1>2. PICK k \in Nat : k = Cardinality(call[r].made)
    BY CommitIs
<1>3. /\ Disturbs(Q, N, m, r) /\ Writes(call[r]) /\ UNCHANGED <<names, meta, left, cache>>
      /\ lastId' = lastId + k /\ lastId' <= MaxRows
    BY <1>2, CommitIs
<1>4. PICK S : /\ rows' = rows \cup S /\ IsFiniteSet(S) /\ Cardinality(S) = k
               /\ S \subseteq RepoRow(N, m)
               /\ \A v \in S : v.id > lastId /\ v.id <= lastId' /\ Had(v.gid, v.name)
               /\ \A v, w \in S : v.id = w.id => v = w
               /\ \A v \in S : \E w \in call[r].made : Twins(v, w)
               /\ Alone(call[r]) => \A v, w \in S : Twins(v, w) => v = w
    BY <1>2, CommitIs
<1>5. PICK l \in Nat : l = Cardinality(rows) /\ l <= MaxRows /\ IsFiniteSet(rows)
    BY <1>1, RowsAreFew, RepositoryConstants
<1>6. rows \cap S = {}
    BY <1>1, <1>4, RepositoryConstants DEF TableOK, RepoRow
<1>7. Cardinality(rows') = l + k
    <2>1. Cardinality(rows \cup S) = Cardinality(rows) + Cardinality(S) - Cardinality(rows \cap S)
        BY <1>4, <1>5, FS_Union
    <2>2. Cardinality(rows \cap S) = 0
        BY <1>6, FS_EmptySet
    <2>3. Cardinality(rows \cup S) = l + k - 0
        BY <1>4, <1>5, <2>1, <2>2
    <2>4. rows' = rows \cup S
        BY <1>4
    <2> QED  BY <2>3, <2>4
<1>8. call[r].count \in 0 .. MaxRows /\ k <= MaxRows /\ lastId \in Nat /\ lastId <= lastId'
    BY <1>1, <1>3, RepositoryConstants DEF RepoRequest, TableOK
<1>9. NamesOK(N, m)' /\ CacheOK(N, m)'
    BY <1>1, <1>3 DEF NamesOK, CacheOK, Had, Answer
<1>10. \A g, n : Had(g, n)' = Had(g, n)
    BY <1>3 DEF Had
<1>11. strayed' \subseteq {"overlap", "create", "lost"} /\ strayed \subseteq strayed'
    BY <1>1 DEF TableOK
<1>12. billed' = billed \/ (billed' = call[r].count + k /\ billed' > BaseLimit)
    BY <1>2 DEF R!AddReport
<1>13. TableOK(N, m)'
    <2>1. rows' \subseteq RepoRow(N, m)' /\ lastId' \in 0 .. MaxRows /\ billed' \in 0 .. 2 * MaxRows
        BY <1>1, <1>3, <1>4, <1>8, <1>12, RepositoryConstants DEF TableOK, RepoRow
    <2>2. ASSUME NEW w \in rows' PROVE w.id <= lastId' /\ Had(w.gid, w.name)'
        BY <1>1, <1>3, <1>4, <1>8, <1>10, RepositoryConstants DEF TableOK, RepoRow
    <2>3. ASSUME NEW v \in rows', NEW w \in rows', v.id = w.id PROVE v = w
        BY <1>1, <1>4, <1>8, <2>3, RepositoryConstants DEF TableOK, RepoRow
    <2> QED  BY <1>11, <2>1, <2>2, <2>3 DEF TableOK
<1>14. OneWriter(Q)'
    <2> SUFFICES ASSUME "overlap" \notin strayed', NEW p \in Q, NEW q \in Q, Writes(call'[p]), Writes(call'[q])
                 PROVE  p = q
        BY DEF OneWriter
    <2>1. \A x \in Q : Writes(call'[x]) => Writes(call[x])
        BY <1>3 DEF Disturbs, Writes, R!Idle
    <2> QED  BY <1>1, <1>11, <2>1 DEF OneWriter
<1>15. "overlap" \notin strayed => \A q \in Q : ~Writes(call'[q])
    <2> SUFFICES ASSUME "overlap" \notin strayed, NEW q \in Q PROVE ~Writes(call'[q])
        OBVIOUS
    <2>1. CASE q = r
        BY <1>3, <2>1 DEF Disturbs, R!Idle, Writes
    <2>2. CASE q # r
        BY <1>1, <1>3, <2>2 DEF OneWriter, Writes, Disturbs
    <2> QED  BY <2>1, <2>2
<1>16. Billing(Q)'
    <2> SUFFICES ASSUME strayed' \cap {"overlap", "lost"} = {} PROVE Billing(Q)'
        BY DEF Billing
    <2>1. strayed \cap {"overlap", "lost"} = {} /\ "lost" \notin strayed'
        BY <1>11
    <2>2. Over(billed) = Over(l) /\ call[r].count = l
        BY <1>1, <1>3, <1>5, <2>1 DEF Billing
    <2>3. billed' = R(Q, N, m)!AddReport(call[r].count + k)
        BY <1>2, <2>1
    <2>4. billed' = IF l + k > BaseLimit THEN l + k ELSE billed
        BY <2>2, <2>3 DEF R!AddReport
    <2>5. Over(billed') = Over(l + k)
        <3>1. CASE l + k > BaseLimit
            BY <2>4, <3>1
        <3>2. CASE ~(l + k > BaseLimit)
            BY <2>2, <2>4, <3>2, RepositoryConstants DEF Over
        <3> QED  BY <3>1, <3>2
    <2>6. \A q \in Q : ~Writes(call'[q])
        BY <1>15, <2>1
    <2> QED  BY <1>7, <2>5, <2>6 DEF Billing, Over
<1>17. NoTwins(Q)'
    <2> SUFFICES ASSUME strayed' \cap {"overlap", "create"} = {} PROVE NoTwins(Q)'
        BY DEF NoTwins
    <2>1. strayed \cap {"overlap", "create"} = {}
        BY <1>11
    <2>2. (\A v, w \in rows : Twins(v, w) => v = w) /\ Alone(call[r])
        BY <1>1, <1>3, <2>1 DEF NoTwins
    <2>3. ASSUME NEW v \in rows, NEW w \in S PROVE ~Twins(v, w)
        BY <1>4, <2>2 DEF Alone, Twins
    <2>4. \A v, w \in rows' : Twins(v, w) => v = w
        BY <1>4, <2>2, <2>3 DEF Twins
    <2>5. \A q \in Q : ~Writes(call'[q])
        BY <1>15, <2>1
    <2> QED  BY <2>4, <2>5 DEF NoTwins
<1>18. \A v \in rows' : v.id > lastId \/ \E w \in rows : w.id = v.id /\ Twins(v, w)
    BY <1>4 DEF Twins
<1> QED  BY <1>3, <1>8, <1>9, <1>10, <1>13, <1>14, <1>16, <1>17, <1>18, TableChanges


LEMMA Commits ==
    ASSUME NEW Q, NEW N, NEW m \in Nat, RepoInv(Q, N, m), NEW r \in Q,
           \/ R(Q, N, m)!ImportCommit(r) \/ R(Q, N, m)!CrashAfterCommit(r)
           \/ R(Q, N, m)!LinkCommit(r) \/ R(Q, N, m)!CreateCommit(r)
    PROVE  RepoInv(Q, N, m)'
<1>1. R(Q, N, m)!Commit(r)
    BY DEF R!ImportCommit, R!CrashAfterCommit, R!LinkCommit, R!CreateCommit
<1>2. CASE R(Q, N, m)!CrashAfterCommit(r)
    <2>1. UNCHANGED billed /\ strayed' = strayed \cup {"lost"}
        BY <1>2 DEF R!CrashAfterCommit
    <2> QED  BY <1>1, <2>1, CommitKeeps
<1>3. CASE R(Q, N, m)!ImportCommit(r)
    <2>1. R(Q, N, m)!Cardinality(call[r].made) = Cardinality(call[r].made)
        BY CountIs
    <2>2. billed' = R(Q, N, m)!AddReport(call[r].count + Cardinality(call[r].made)) /\ UNCHANGED strayed
        BY <1>3, <2>1 DEF R!ImportCommit
    <2> QED  BY <1>1, <2>2, CommitKeeps
<1>4. CASE R(Q, N, m)!LinkCommit(r) \/ R(Q, N, m)!CreateCommit(r)
    <2>1. /\ billed' = R(Q, N, m)!AddReport(call[r].count + 1) /\ UNCHANGED strayed
          /\ call[r].op \in {"link", "create"}
        BY <1>4 DEF R!LinkCommit, R!CreateCommit
    <2>2. PICK w : call[r].made = {w}
        BY <2>1 DEF RepoInv, RequestsFit, RequestOK
    <2>3. Cardinality(call[r].made) = 1
        BY <2>2, FS_Singleton
    <2>4. billed' = R(Q, N, m)!AddReport(call[r].count + Cardinality(call[r].made)) /\ UNCHANGED strayed
        BY <2>1, <2>3
    <2> QED  BY <1>1, <2>4, CommitKeeps
<1> QED  BY <1>2, <1>3, <1>4

\* Each row is put in the place of the row with its number.
LEMMA RowsReplaced ==
    ASSUME NEW N, NEW m \in Nat, TableOK(N, m), NEW S,
           S \subseteq RepoRow(N, m), \A u, v \in S : v.id = u.id => v = u,
           \A u \in S : \E v \in rows : v.id = u.id /\ Twins(u, v),
           \A u \in S : Had(u.gid, u.name)',
           rows' = {v \in rows : \A u \in S : u.id # v.id} \cup S,
           UNCHANGED <<names, left, lastId, billed, strayed>>
    PROVE  /\ TableOK(N, m)' /\ Cardinality(rows') = Cardinality(rows)
           /\ \A v \in rows' : \E u \in rows : u.id = v.id /\ Twins(v, u)
           /\ \A u \in rows : \E v \in rows' : u.id = v.id /\ Twins(v, u)
<1>1. \A v \in rows' : \E u \in rows : u.id = v.id /\ Twins(v, u)
    BY DEF Twins
<1>2. \A u \in rows : \E v \in rows' : u.id = v.id /\ Twins(v, u)
    <2> SUFFICES ASSUME NEW u \in rows PROVE \E v \in rows' : u.id = v.id /\ Twins(v, u)
        OBVIOUS
    <2>1. CASE \A s \in S : s.id # u.id
        BY <2>1 DEF Twins
    <2>2. ASSUME NEW s \in S, s.id = u.id PROVE \E v \in rows' : u.id = v.id /\ Twins(v, u)
        <3>1. PICK v \in rows : v.id = s.id /\ Twins(s, v)
            OBVIOUS
        <3>2. v = u
            BY <2>2, <3>1 DEF TableOK
        <3> QED  BY <2>2, <3>1, <3>2
    <2> QED  BY <2>1, <2>2
<1>3. TableOK(N, m)'
    <2>1. \A v, u \in rows' : v.id = u.id => v = u
        BY DEF TableOK
    <2>2. ASSUME NEW v \in rows' PROVE v \in RepoRow(N, m) /\ v.id <= lastId /\ Had(v.gid, v.name)'
        BY <1>1 DEF TableOK, Had
    <2> QED  BY <2>1, <2>2 DEF TableOK, RepoRow
<1>4. Cardinality(rows') = Cardinality(rows)
    <2> DEFINE Same(v) == CHOOSE u \in rows : u.id = v.id
               f == [v \in rows' |-> Same(v)]
    <2>1. \A v \in rows' : Same(v) \in rows /\ Same(v).id = v.id
        BY <1>1
    <2>2. f \in [rows' -> rows] /\ \A v \in rows' : f[v].id = v.id
        BY <2>1
    <2> HIDE DEF f
    <2>3. \A u, v \in rows' : f[u] = f[v] => u = v
        BY <1>3, <2>2 DEF TableOK
    <2>4. \A u \in rows : \E v \in rows' : f[v] = u
        <3> SUFFICES ASSUME NEW u \in rows PROVE \E v \in rows' : f[v] = u
            OBVIOUS
        <3>1. PICK v \in rows' : v.id = u.id
            BY <1>2
        <3> QED  BY <2>2, <3>1 DEF TableOK
    <2>5. f \in Bijection(rows', rows)
        BY <2>2, <2>3, <2>4 DEF Bijection, Injection, Surjection, IsInjective
    <2>6. IsFiniteSet(rows) /\ IsFiniteSet(rows')
        <3>1. TableOK(N, m) /\ IsFiniteSet(rows)
            BY RowsAreFew
        <3>2. f \in Injection(rows', rows)
            BY <2>5 DEF Bijection
        <3> QED  BY <3>1, <3>2, FS_Injection
    <2> QED  BY <2>5, <2>6, FS_Bijection DEF ExistsBijection
<1> QED  BY <1>1, <1>2, <1>3, <1>4


\* One row for one, of the same product and repository: counts and twins stay.
LEMMA ReplacedKeeps ==
    ASSUME NEW Q, NEW N, NEW m \in Nat, RepoInv(Q, N, m), NEW r, Disturbs(Q, N, m, r),
           UNCHANGED <<names, meta, left, cache, lastId, billed, strayed>>, NEW S,
           S \subseteq RepoRow(N, m), \A u, v \in S : v.id = u.id => v = u,
           \A u \in S : \E v \in rows : v.id = u.id /\ Twins(u, v),
           \A u \in S : Had(u.gid, u.name),
           rows' = {v \in rows : \A u \in S : u.id # v.id} \cup S
    PROVE  RepoInv(Q, N, m)'
<1>1. /\ call \in [Q -> RepoRequest(N, m)] /\ NamesOK(N, m) /\ CacheOK(N, m) /\ TableOK(N, m)
      /\ OneWriter(Q) /\ Billing(Q) /\ NoTwins(Q)
    BY DEF RepoInv
<1>2. \A g, n : Had(g, n)' = Had(g, n)
    BY DEF Had
<1>3. /\ TableOK(N, m)' /\ Cardinality(rows') = Cardinality(rows)
      /\ \A v \in rows' : \E u \in rows : u.id = v.id /\ Twins(v, u)
    <2>1. \A u \in S : Had(u.gid, u.name)'
        BY <1>2
    <2> QED  BY <1>1, <2>1, RowsReplaced
<1>4. NamesOK(N, m)' /\ CacheOK(N, m)' /\ lastId <= lastId'
    BY <1>1, RepositoryConstants DEF NamesOK, CacheOK, Had, Answer, TableOK
<1>5. \A q \in Q : Writes(call'[q]) =>
          Writes(call[q]) /\ call'[q].count = call[q].count /\ call'[q].made = call[q].made
    <2> SUFFICES ASSUME NEW q \in Q, Writes(call'[q])
                 PROVE  Writes(call[q]) /\ call'[q].count = call[q].count /\ call'[q].made = call[q].made
        OBVIOUS
    <2>1. q # r
        BY DEF Disturbs, R!Idle, Writes
    <2> QED  BY <2>1 DEF Disturbs, Writes
<1>6. OneWriter(Q)'
    BY <1>1, <1>5 DEF OneWriter
<1>7. Billing(Q)'
    BY <1>1, <1>3, <1>5 DEF Billing
<1>8. NoTwins(Q)'
    <2> SUFFICES ASSUME strayed \cap {"overlap", "create"} = {} PROVE NoTwins(Q)'
        BY DEF NoTwins
    <2>1. ASSUME NEW v \in rows', NEW w \in rows', Twins(v, w) PROVE v = w
        <3>1. PICK a \in rows : a.id = v.id /\ Twins(v, a)
            BY <1>3
        <3>2. PICK b \in rows : b.id = w.id /\ Twins(w, b)
            BY <1>3
        <3>3. a = b
            <4>1. Twins(a, b)
                BY <2>1, <3>1, <3>2 DEF Twins
            <4> QED  BY <1>1, <4>1 DEF NoTwins
        <3> QED  BY <1>3, <3>1, <3>2, <3>3 DEF TableOK
    <2>2. ASSUME NEW q \in Q, Writes(call'[q]) PROVE Alone(call[q])'
        <3>1. Alone(call[q]) /\ call'[q].made = call[q].made
            BY <1>1, <1>5, <2>2 DEF NoTwins
        <3>2. ASSUME NEW v \in rows', NEW w \in call[q].made PROVE ~Twins(v, w)
            <4>1. PICK a \in rows : Twins(v, a)
                BY <1>3
            <4>2. ~Twins(a, w)
                BY <3>1 DEF Alone
            <4> QED  BY <4>1, <4>2 DEF Twins
        <3> QED  BY <3>1, <3>2 DEF Alone
    <2> QED  BY <2>1, <2>2 DEF NoTwins
<1>9. \A v \in rows' : v.id > lastId \/ \E w \in rows : w.id = v.id /\ Twins(v, w)
    BY <1>3
<1> QED  BY <1>2, <1>3, <1>4, <1>6, <1>7, <1>8, <1>9, TableChanges

LEMMA RefreshCommits ==
    ASSUME NEW Q, NEW N, NEW m \in Nat, RepoInv(Q, N, m), NEW r \in Q, R(Q, N, m)!RefreshCommit(r)
    PROVE  RepoInv(Q, N, m)'
<1>1. /\ call \in [Q -> RepoRequest(N, m)] /\ RequestOK(call[r], N, m) /\ RefreshOK(call[r])
      /\ call[r].op = "refresh" /\ UNCHANGED <<names, meta, left, cache, lastId, billed, strayed>>
    BY DEF RepoInv, RequestsFit, R!RefreshCommit, R!gh
<1>2. PICK S : S = IF \A w \in call[r].made : \E v \in rows : v.id = w.id THEN call[r].made ELSE {}
    OBVIOUS
<1>3. rows' = {v \in rows : \A u \in S : u.id # v.id} \cup S
    <2>1. CASE \A w \in call[r].made : \E v \in rows : v.id = w.id
        BY <1>2, <2>1 DEF R!RefreshCommit, R!Refreshed
    <2>2. CASE ~(\A w \in call[r].made : \E v \in rows : v.id = w.id)
        BY <1>2, <2>2 DEF R!RefreshCommit, R!Refreshed
    <2> QED  BY <2>1, <2>2
<1>4. /\ S \subseteq RepoRow(N, m) /\ \A u, v \in S : v.id = u.id => v = u
      /\ \A u \in S : Had(u.gid, u.name)
    BY <1>1, <1>2 DEF RequestOK, RefreshOK
<1>5. \A u \in S : \E v \in rows : v.id = u.id /\ Twins(u, v)
    BY <1>1, <1>2 DEF RefreshOK, Twins
<1>6. Disturbs(Q, N, m, r)
    BY <1>1, DisturbsIs DEF R!RefreshCommit
<1> QED  BY <1>1, <1>3, <1>4, <1>5, <1>6, ReplacedKeeps

LEMMA RenameFollowed ==
    ASSUME NEW Q, NEW N, NEW m \in Nat, NoGid \notin Gids, RepoInv(Q, N, m), NEW w \in rows,
           R(Q, N, m)!FollowRename(w)
    PROVE  RepoInv(Q, N, m)'
<1>1. /\ call \in [Q -> RepoRequest(N, m)] /\ NamesOK(N, m) /\ TableOK(N, m)
      /\ UNCHANGED <<names, meta, left, cache, lastId, billed, strayed>>
    BY DEF RepoInv, R!FollowRename, R!gh
<1>2. w \in RepoRow(N, m) /\ w.gid \in Gids /\ Had(w.gid, w.name)
    BY <1>1 DEF TableOK, RepoRow
<1>3. left[w.name] = w.gid /\ names[w.gid] \in N
    BY <1>1, <1>2 DEF Had, R!FollowRename, NamesOK
<1>4. PICK u : u = [w EXCEPT !.name = names[w.gid]]
    OBVIOUS
<1>5. u \in RepoRow(N, m) /\ u.id = w.id /\ u.product = w.product /\ u.gid = w.gid /\ u.name = names[w.gid]
    BY <1>2, <1>3, <1>4 DEF RepoRow
<1>6. rows' = (rows \ {w}) \cup {u}
    BY <1>3, <1>4 DEF R!FollowRename
<1>7. rows' = {v \in rows : \A s \in {u} : s.id # v.id} \cup {u}
    BY <1>1, <1>5, <1>6 DEF TableOK
<1>8. Twins(u, w) /\ Had(u.gid, u.name)
    BY <1>5 DEF Twins, Had
<1>10. PICK r : r \notin Q
    BY NoRequest
<1>11. Disturbs(Q, N, m, r)
    BY <1>1, <1>10, DisturbsIs DEF R!FollowRename
<1>12. PICK S : S = {u}
    OBVIOUS
<1>13. /\ S \subseteq RepoRow(N, m) /\ \A s, v \in S : v.id = s.id => v = s
       /\ \A s \in S : \E v \in rows : v.id = s.id /\ Twins(s, v)
       /\ \A s \in S : Had(s.gid, s.name)
       /\ rows' = {v \in rows : \A s \in S : s.id # v.id} \cup S
    BY <1>5, <1>7, <1>8, <1>12
<1> QED  BY <1>1, <1>11, <1>13, ReplacedKeeps

LEMMA RowDeleted ==
    ASSUME NEW Q, NEW N, NEW m \in Nat, RepoInv(Q, N, m), NEW w \in rows, R(Q, N, m)!DeleteRow(w)
    PROVE  RepoInv(Q, N, m)'
<1>1. /\ call \in [Q -> RepoRequest(N, m)] /\ NamesOK(N, m) /\ CacheOK(N, m) /\ TableOK(N, m)
      /\ OneWriter(Q) /\ Billing(Q) /\ NoTwins(Q)
      /\ rows' = rows \ {w} /\ UNCHANGED <<names, meta, left, cache, lastId>>
    BY DEF RepoInv, R!DeleteRow, R!gh
<1>2. PICK l \in Nat : l = Cardinality(rows) /\ l <= MaxRows /\ IsFiniteSet(rows)
    BY <1>1, RowsAreFew, RepositoryConstants
<1>3. Cardinality(rows') = l - 1 /\ l > 0
    <2>1. Cardinality(rows \ {w}) = Cardinality(rows) - 1
        BY <1>2, FS_RemoveElement
    <2>2. Cardinality(rows) # 0
        BY <1>2, FS_EmptySet
    <2> QED  BY <1>1, <1>2, <2>1, <2>2
<1>4. billed' = IF l - 1 >= BaseLimit THEN l - 1 ELSE billed
    BY <1>2, CountIs DEF R!DeleteRow, R!DropReport
<1>5. /\ strayed \subseteq strayed' /\ strayed' \subseteq {"overlap", "create", "lost"}
      /\ "overlap" \notin strayed' => \A q \in Q : ~Writes(call[q])
    BY <1>1 DEF R!DeleteRow, R!Writing, Writes, TableOK
<1>6. PICK r : r \notin Q
    BY NoRequest
<1>7. Disturbs(Q, N, m, r)
    BY <1>1, <1>6, DisturbsIs DEF R!DeleteRow
<1>8. /\ \A g, n : Had(g, n)' = Had(g, n)
      /\ NamesOK(N, m)' /\ CacheOK(N, m)' /\ lastId <= lastId'
    BY <1>1, RepositoryConstants DEF Had, NamesOK, CacheOK, Answer, TableOK
<1>9. TableOK(N, m)'
    <2>1. billed' \in 0 .. 2 * MaxRows
        BY <1>1, <1>2, <1>3, <1>4, RepositoryConstants DEF TableOK
    <2> QED  BY <1>1, <1>5, <1>8, <2>1 DEF TableOK, RepoRow
<1>10. \A q \in Q : /\ Writes(call'[q]) => Writes(call[q])
                    /\ call'[q].count = call[q].count /\ call'[q].made = call[q].made
    BY <1>6, <1>7 DEF Disturbs, Writes
<1>11. OneWriter(Q)'
    BY <1>5, <1>10 DEF OneWriter
<1>12. Billing(Q)'
    <2> SUFFICES ASSUME strayed' \cap {"overlap", "lost"} = {} PROVE Billing(Q)'
        BY DEF Billing
    <2>1. strayed \cap {"overlap", "lost"} = {} /\ \A q \in Q : ~Writes(call[q])
        BY <1>5
    <2>2. Over(billed) = Over(l)
        BY <1>1, <1>2, <2>1 DEF Billing
    <2>3. Over(billed') = Over(l - 1)
        <3>1. CASE l - 1 >= BaseLimit
            BY <1>4, <3>1
        <3>2. CASE ~(l - 1 >= BaseLimit)
            BY <1>4, <2>2, <3>2, RepositoryConstants DEF Over
        <3> QED  BY <3>1, <3>2
    <2> QED  BY <1>3, <1>10, <2>1, <2>3 DEF Billing
<1>13. NoTwins(Q)'
    <2> SUFFICES ASSUME strayed' \cap {"overlap", "create"} = {} PROVE NoTwins(Q)'
        BY DEF NoTwins
    <2>1. strayed \cap {"overlap", "create"} = {} /\ \A q \in Q : ~Writes(call[q])
        BY <1>5
    <2> QED  BY <1>1, <1>10, <2>1 DEF NoTwins
<1>14. \A v \in rows' : v.id > lastId \/ \E u \in rows : u.id = v.id /\ Twins(v, u)
    BY <1>1 DEF Twins
<1> QED  BY <1>7, <1>8, <1>9, <1>11, <1>12, <1>13, <1>14, TableChanges


\* A product goes with its rows: no request of its own and no refresh is there.
LEMMA ProductDeleted ==
    ASSUME NEW Q, NEW N, NEW m \in Nat, RepoInv(Q, N, m), NEW p \in Products, R(Q, N, m)!DeleteProduct(p)
    PROVE  RepoInv(Q, N, m)'
<1>1. /\ call \in [Q -> RepoRequest(N, m)] /\ NamesOK(N, m) /\ CacheOK(N, m) /\ TableOK(N, m)
      /\ RequestsFit(Q, N, m) /\ OneWriter(Q) /\ NoTwins(Q) /\ rows' \subseteq rows
      /\ strayed' = strayed \cup {"lost"} /\ UNCHANGED <<names, meta, left, cache, lastId, call, billed>>
      /\ \A q \in Q : call[q].op # "refresh"
    BY DEF RepoInv, R!DeleteProduct, R!gh
<1>2. NamesOK(N, m)' /\ CacheOK(N, m)' /\ TableOK(N, m)' /\ call' \in [Q -> RepoRequest(N, m)']
    BY <1>1 DEF NamesOK, CacheOK, Had, Answer, TableOK, RepoRow, RepoRequest, Entry
<1>3. \A q \in Q : (RequestOK(call[q], N, m) /\ RefreshOK(call[q]) /\ FreshOK(call[q]))'
    <2> TAKE q \in Q
    <2>1. RequestOK(call[q], N, m)
        BY <1>1 DEF RequestsFit
    <2>2. RequestOK(call[q], N, m)'
        BY <1>1, <2>1 DEF RequestOK, Had, RepoRequest, RepoRow, Entry
    <2> QED  BY <1>1, <2>2 DEF RefreshOK, FreshOK
<1>4. RequestsFit(Q, N, m)'
    BY <1>3 DEF RequestsFit
<1>5. OneWriter(Q)' /\ Billing(Q)'
    BY <1>1 DEF OneWriter, Billing
<1>6. NoTwins(Q)'
    <2> SUFFICES ASSUME strayed \cap {"overlap", "create"} = {} PROVE NoTwins(Q)'
        BY <1>1 DEF NoTwins
    <2>1. (\A v, w \in rows : Twins(v, w) => v = w) /\ \A r \in Q : Writes(call[r]) => Alone(call[r])
        BY <1>1 DEF NoTwins
    <2>2. \A r \in Q : Writes(call[r]) => Alone(call[r])'
        BY <1>1, <2>1 DEF Alone
    <2> QED  BY <1>1, <2>1, <2>2 DEF NoTwins
<1> QED  BY <1>2, <1>3, <1>4, <1>5, <1>6 DEF RepoInv

\* What GitHub does disturbs the refreshes; a name, once had, stays had.
LEMMA GitHubGoesOn ==
    ASSUME NEW Q, NEW N, NEW m \in Nat, RepoInv(Q, N, m),
           call' = R(Q, N, m)!Disturbed, UNCHANGED <<cache, rows, lastId, billed, strayed>>,
           NamesOK(N, m)', \A g \in Gids, n \in N : Had(g, n) => Had(g, n)'
    PROVE  RepoInv(Q, N, m)'
<1>1. /\ call \in [Q -> RepoRequest(N, m)] /\ CacheOK(N, m) /\ TableOK(N, m)
      /\ OneWriter(Q) /\ Billing(Q) /\ NoTwins(Q)
    BY DEF RepoInv
<1>2. PICK r : r \notin Q
    BY NoRequest
<1>3. Disturbs(Q, N, m, r)
    BY <1>1, <1>2, DisturbsIs
<1>4. CacheOK(N, m)'
    BY <1>1 DEF CacheOK, Answer
<1>5. TableOK(N, m)' /\ lastId <= lastId'
    BY <1>1, RepositoryConstants DEF TableOK, RepoRow
<1>6. \A q \in Q : /\ Writes(call'[q]) => Writes(call[q])
                   /\ call'[q].count = call[q].count /\ call'[q].made = call[q].made
    BY <1>2, <1>3 DEF Disturbs, Writes
<1>7. OneWriter(Q)' /\ Billing(Q)'
    BY <1>1, <1>6 DEF OneWriter, Billing
<1>8. NoTwins(Q)'
    BY <1>1, <1>6 DEF NoTwins, Alone
<1>9. \A v \in rows' : v.id > lastId \/ \E u \in rows : u.id = v.id /\ Twins(v, u)
    BY DEF Twins
<1> QED  BY <1>3, <1>4, <1>5, <1>7, <1>8, <1>9, TableChanges

LEMMA GitHubRenames ==
    ASSUME NEW Q, NEW N, NEW m \in Nat, NoGid \notin Gids, NoName \notin N, RepoInv(Q, N, m), NEW g \in Gids,
           R(Q, N, m)!Vanish(g) \/ \E n \in N : R(Q, N, m)!Rename(g, n)
    PROVE  RepoInv(Q, N, m)'
<1>1. NamesOK(N, m) /\ UNCHANGED <<meta, cache, rows, lastId, billed, strayed>>
      /\ call' = R(Q, N, m)!Disturbed
    BY DEF RepoInv, R!Vanish, R!Rename
<1>2. PICK k \in N \cup {NoName} :
           /\ names[g] # NoName /\ names' = [names EXCEPT ![g] = k] /\ left' = [left EXCEPT ![names[g]] = g]
           /\ k \in N => (\A h \in Gids : names[h] # k) /\ left[k] \in {NoGid, g}
    BY DEF R!Vanish, R!Rename
<1>3. PICK o \in N : o = names[g]
    BY <1>1, <1>2 DEF NamesOK
<1>4. /\ names' \in [Gids -> N \cup {NoName}] /\ names'[g] = k /\ \A h \in Gids \ {g} : names'[h] = names[h]
      /\ left' \in [N -> Gids \cup {NoGid}] /\ left'[o] = g /\ \A n \in N \ {o} : left'[n] = left[n]
    BY <1>1, <1>2, <1>3 DEF NamesOK
<1>5. \A h \in Gids, n \in N : Had(h, n)' <=> (Had(h, n) \/ (h = g /\ n = k))
    <2> SUFFICES ASSUME NEW h \in Gids, NEW n \in N
                 PROVE  Had(h, n)' <=> (Had(h, n) \/ (h = g /\ n = k))
        OBVIOUS
    <2>1. CASE n = o
        <3>1. Had(g, o) /\ (left[o] \in Gids => left[o] = g) /\ (h # g => names[h] # o)
            BY <1>1, <1>3 DEF NamesOK, Had
        <3> QED  BY <1>2, <1>3, <1>4, <2>1, <3>1 DEF Had
    <2>2. CASE n # o
        BY <1>3, <1>4, <2>2 DEF Had
    <2> QED  BY <2>1, <2>2
<1>6. \A h \in Gids : Had(h, k) /\ k \in N => h = g
    BY <1>2 DEF Had
<1>7. NamesOK(N, m)'
    BY <1>1, <1>4, <1>5, <1>6 DEF NamesOK
<1> QED  BY <1>1, <1>5, <1>7, GitHubGoesOn

LEMMA MetadataChanges ==
    ASSUME NEW Q, NEW N, NEW m \in Nat, RepoInv(Q, N, m), NEW g \in Gids, R(Q, N, m)!Change(g)
    PROVE  RepoInv(Q, N, m)'
<1>1. /\ NamesOK(N, m) /\ UNCHANGED <<names, left, cache, rows, lastId, billed, strayed>>
      /\ call' = R(Q, N, m)!Disturbed
    BY DEF RepoInv, R!Change
<1>2. meta' \in [Gids -> 0 .. m]
    BY <1>1 DEF NamesOK, R!Change
<1>3. \A h, n : Had(h, n)' <=> Had(h, n)
    BY <1>1 DEF Had
<1> QED  BY <1>1, <1>2, <1>3, GitHubGoesOn DEF NamesOK


LEMMA RepositoriesStay ==
    ASSUME NEW Q, NEW N, NEW m \in Nat, NoName \notin N, RepoInv(Q, N, m),
           R(Q, N, m)!Next \/ UNCHANGED repositories
    PROVE  RepoInv(Q, N, m)'
<1>1. NoGid \notin Gids
    BY RepositoryConstants
<1>2. CASE UNCHANGED repositories
    BY <1>2, AnswersGo DEF repositories
<1>3. ASSUME NEW n \in N, R(Q, N, m)!Expire(n) PROVE RepoInv(Q, N, m)'
    <2>1. UNCHANGED <<names, meta, left, rows, lastId, call, billed, strayed>>
        BY <1>3 DEF R!Expire, R!gh
    <2> QED  BY <1>3, <2>1, AnswersGo
<1>4. ASSUME NEW r \in Q,
             \/ R(Q, N, m)!ImportCommit(r) \/ R(Q, N, m)!CrashAfterCommit(r)
             \/ R(Q, N, m)!LinkCommit(r) \/ R(Q, N, m)!CreateCommit(r)
      PROVE  RepoInv(Q, N, m)'
    BY <1>4, Commits
<1>5. ASSUME NEW r \in Q, R(Q, N, m)!ImportNothing(r) PROVE RepoInv(Q, N, m)'
    <2>1. /\ call' = [call EXCEPT ![r] = R(Q, N, m)!Idle]
          /\ UNCHANGED <<names, meta, left, cache, rows, lastId, billed, strayed>>
        BY <1>5 DEF R!ImportNothing, R!gh
    <2> QED  BY <2>1, GivesUp
<1>6. ASSUME NEW r \in Q, NEW g \in Gids, R(Q, N, m)!ImportRaises(r, g) PROVE RepoInv(Q, N, m)'
    <2>1. /\ call' = [call EXCEPT ![r] = R(Q, N, m)!Idle]
          /\ UNCHANGED <<names, meta, left, cache, rows, lastId, billed, strayed>>
        BY <1>6 DEF R!ImportRaises, R!gh
    <2> QED  BY <2>1, GivesUp
<1>7. ASSUME NEW r \in Q, R(Q, N, m)!RefreshCommit(r) PROVE RepoInv(Q, N, m)'
    BY <1>7, RefreshCommits
<1>8. ASSUME NEW r \in Q, NEW p \in Products,
             \/ R(Q, N, m)!LinkBegin(r, p) \/ \E gs \in SUBSET Gids : R(Q, N, m)!ImportBegin(r, p, gs)
      PROVE  RepoInv(Q, N, m)'
    BY <1>8, LinkRequestBegins, ImportBegins
<1>9. ASSUME NEW r \in Q, NEW g \in Gids, R(Q, N, m)!ImportItem(r, g) PROVE RepoInv(Q, N, m)'
    BY <1>9, ImportItemKeeps
<1>10. ASSUME NEW r \in Q, NEW p \in Products, NEW g \in Gids, R(Q, N, m)!CreateBegin(r, p, g)
       PROVE  RepoInv(Q, N, m)'
    BY <1>10, CreateBegins
<1>11. ASSUME NEW r \in Q, NEW n \in N, R(Q, N, m)!LinkFetched(r, n) PROVE RepoInv(Q, N, m)'
    BY <1>11, LinkFetches
<1>12. ASSUME NEW r \in Q, NEW ws \in SUBSET rows, R(Q, N, m)!RefreshBegin(r, ws) PROVE RepoInv(Q, N, m)'
    BY <1>12, RefreshBegins
<1>13. ASSUME NEW r \in Q, NEW w \in call[r].todo, R(Q, N, m)!RefreshItem(r, w) PROVE RepoInv(Q, N, m)'
    BY <1>13, RefreshItemKeeps
<1>14. ASSUME NEW w \in rows, R(Q, N, m)!DeleteRow(w) \/ R(Q, N, m)!FollowRename(w) PROVE RepoInv(Q, N, m)'
    BY <1>1, <1>14, RowDeleted, RenameFollowed
<1>15. ASSUME NEW p \in Products, R(Q, N, m)!DeleteProduct(p) PROVE RepoInv(Q, N, m)'
    BY <1>15, ProductDeleted
<1>16. ASSUME NEW g \in Gids,
              \/ R(Q, N, m)!Vanish(g) \/ R(Q, N, m)!Change(g) \/ \E n \in N : R(Q, N, m)!Rename(g, n)
       PROVE  RepoInv(Q, N, m)'
    BY <1>1, <1>16, GitHubRenames, MetadataChanges
<1>17. ASSUME NEW r \in Q, NEW w \in rows, R(Q, N, m)!RefreshBegin(r, {w}) PROVE RepoInv(Q, N, m)'
    BY <1>12, <1>17
<1>18. ASSUME NEW r \in Q, NEW p \in Products, R(Q, N, m)!RefreshBegin(r, {w \in rows : w.product = p})
       PROVE  RepoInv(Q, N, m)'
    BY <1>12, <1>18
<1> QED  BY <1>2, <1>3, <1>4, <1>5, <1>6, <1>7, <1>8, <1>9, <1>10, <1>11, <1>13, <1>14, <1>15, <1>16,
            <1>17, <1>18 DEF R!Next

LEMMA RepositoriesBegin ==
    ASSUME NEW Q, NEW N, NEW m \in Nat, Names \subseteq N, NoName \notin N, R(Q, N, m)!Init
    PROVE  RepoInv(Q, N, m)
<1> DEFINE P(f) == R(Q, N, m)!IsInjective(f)
<1>1. PICK f \in [Gids -> Names] : \A g, h \in Gids : f[g] = f[h] => g = h
    BY RepositoryConstants
<1>2. f \in [Gids -> N] /\ P(f)
    BY <1>1 DEF R!IsInjective
<1>3. names = CHOOSE e \in [Gids -> N] : P(e)
    BY DEF R!Init
<1>4. names \in [Gids -> N] /\ P(names)
    BY <1>2, <1>3
<1>5. \A g, h \in Gids : names[g] = names[h] => g = h
    BY <1>4 DEF R!IsInjective
<1> HIDE DEF P
<1>6. /\ meta = [g \in Gids |-> 0] /\ left = [n \in N |-> NoGid] /\ cache = [n \in N |-> {}]
      /\ rows = {} /\ lastId = 0 /\ call = [r \in Q |-> R(Q, N, m)!Idle] /\ billed = 0 /\ strayed = {}
    BY DEF R!Init
<1>7. \A g \in Gids, n \in N : Had(g, n) <=> names[g] = n
    BY <1>6, RepositoryConstants DEF Had
<1>8. NamesOK(N, m) /\ CacheOK(N, m) /\ TableOK(N, m)
    BY <1>4, <1>5, <1>6, <1>7, RepositoryConstants DEF NamesOK, CacheOK, TableOK
<1>9. PICK c : c = R(Q, N, m)!Idle
    OBVIOUS
<1>10. RequestOK(c, N, m) /\ RefreshOK(c) /\ FreshOK(c) /\ ~Writes(c)
    BY <1>9, IdleIs
<1>11. call \in [Q -> RepoRequest(N, m)] /\ \A q \in Q : call[q] = c
    BY <1>6, <1>9, <1>10 DEF RequestOK
<1>12. Over(billed) = Over(Cardinality(rows))
    BY <1>6, FS_EmptySet
<1> QED  BY <1>6, <1>8, <1>10, <1>11, <1>12 DEF RepoInv, RequestsFit, OneWriter, Billing, NoTwins

\* What the invariant says of the table and of a refresh that commits.
LEMMA RepositoriesHold ==
    ASSUME NEW Q, NEW N, NEW m \in Nat, RepoInv(Q, N, m)
    PROVE  /\ R(Q, N, m)!TypeOK /\ R(Q, N, m)!TwinsNeedAnOverlap /\ R(Q, N, m)!CalmOverageIsBilled
           /\ \A r \in Q : R(Q, N, m)!CurrentAfter(r)
<1>1. /\ call \in [Q -> RepoRequest(N, m)] /\ NamesOK(N, m) /\ TableOK(N, m)
      /\ RequestsFit(Q, N, m) /\ Billing(Q) /\ NoTwins(Q) /\ \A r \in Q : FreshOK(call[r])
    BY DEF RepoInv
<1>2. R(Q, N, m)!TypeOK
    <2>1. \A r \in Q : /\ call[r].op \in {"idle", "import", "linking", "link", "create", "refresh"}
                       /\ call[r].op = "idle" => call[r].product = NoProduct
        BY <1>1 DEF RequestsFit, RequestOK, RepoRequest
    <2> QED  BY <1>1, <2>1 DEF R!TypeOK, R!Row, NamesOK, TableOK, RepoRow
<1>3. R(Q, N, m)!TwinsNeedAnOverlap
    BY <1>1 DEF R!TwinsNeedAnOverlap, NoTwins, Twins
<1>4. R(Q, N, m)!CalmOverageIsBilled
    <2>1. billed \in Nat /\ Cardinality(rows) \in Nat
        BY <1>1, RowsAreFew, RepositoryConstants DEF TableOK
    <2>2. /\ R(Q, N, m)!Overage(billed) = Over(billed)
          /\ R(Q, N, m)!Overage(Cardinality(rows)) = Over(Cardinality(rows))
        BY <2>1, OverIs
    <2>3. R(Q, N, m)!Cardinality(rows) = Cardinality(rows)
        BY CountIs
    <2> QED  BY <1>1, <2>2, <2>3 DEF R!CalmOverageIsBilled, Billing
<1>5. ASSUME NEW r \in Q PROVE R(Q, N, m)!CurrentAfter(r)
    <2> SUFFICES ASSUME call[r].calm, R(Q, N, m)!RefreshCommit(r), NEW w \in rows',
                        NEW v \in call[r].made, v.id = w.id
                 PROVE  w.meta = meta[w.gid]
        BY DEF R!CurrentAfter
    <2>1. call[r].op = "refresh" /\ rows' = R(Q, N, m)!Refreshed(r)
        BY DEF R!RefreshCommit
    <2>2. (\A u \in call[r].made : u.meta = meta[u.gid]) /\ \A u \in call[r].made : \E x \in rows : x.id = u.id
        BY <1>1, <2>1 DEF FreshOK
    <2>3. w \in call[r].made
        BY <2>1, <2>2 DEF R!Refreshed
    <2> QED  BY <2>2, <2>3
<1> QED  BY <1>2, <1>3, <1>4, <1>5


\* The two instances of the module are this one.
LEMMA OverlapIs ==
    /\ Overlap!Init <=> R(OneRequest \cup OtherRequests, Names, 0)!Init
    /\ Overlap!Next <=> R(OneRequest \cup OtherRequests, Names, 0)!Next
    /\ Overlap!TypeOK <=> R(OneRequest \cup OtherRequests, Names, 0)!TypeOK
    /\ Overlap!TwinsNeedAnOverlap <=> R(OneRequest \cup OtherRequests, Names, 0)!TwinsNeedAnOverlap
    /\ Overlap!CalmOverageIsBilled <=> R(OneRequest \cup OtherRequests, Names, 0)!CalmOverageIsBilled
<1>1. Overlap!Init <=> R(OneRequest \cup OtherRequests, Names, 0)!Init
    BY DEF Overlap!Init, R!Init, Overlap!Idle, R!Idle, Overlap!IsInjective, R!IsInjective
<1>2. Overlap!Next <=> R(OneRequest \cup OtherRequests, Names, 0)!Next
    BY DEF Overlap!gh, R!gh, Overlap!Idle, R!Idle, Overlap!Renamings, R!Renamings,
       Overlap!Found, R!Found, Overlap!Fresh, R!Fresh, Overlap!Details, R!Details, Overlap!Kept,
       R!Kept, Overlap!AddReport, R!AddReport, Overlap!DropReport, R!DropReport, Overlap!Of,
       R!Of, Overlap!Writing, R!Writing, Overlap!Crowd, R!Crowd, Overlap!Disturbed, R!Disturbed,
       Overlap!ImportBegin, R!ImportBegin, Overlap!NewToProduct, R!NewToProduct,
       Overlap!ImportItem, R!ImportItem, Overlap!ImportRaises, R!ImportRaises, Overlap!Stored,
       R!Stored, Overlap!Commit, R!Commit, Overlap!ImportCommit, R!ImportCommit,
       Overlap!ImportNothing, R!ImportNothing, Overlap!CrashAfterCommit, R!CrashAfterCommit,
       Overlap!LinkBegin, R!LinkBegin, Overlap!LinkFetched, R!LinkFetched, Overlap!LinkCommit,
       R!LinkCommit, Overlap!CreateBegin, R!CreateBegin, Overlap!CreateCommit, R!CreateCommit,
       Overlap!RefreshBegin, R!RefreshBegin, Overlap!Updated, R!Updated, Overlap!RefreshItem,
       R!RefreshItem, Overlap!Refreshed, R!Refreshed, Overlap!RefreshCommit, R!RefreshCommit,
       Overlap!DeleteRow, R!DeleteRow, Overlap!DeleteProduct, R!DeleteProduct,
       Overlap!FollowRename, R!FollowRename, Overlap!Rename, R!Rename, Overlap!Vanish, R!Vanish,
       Overlap!Change, R!Change, Overlap!Expire, R!Expire, Overlap!Next, R!Next,
       Overlap!Cardinality, R!Cardinality, Overlap!IsFiniteSet, R!IsFiniteSet,
       Overlap!IsInjective, R!IsInjective
<1>3. Overlap!TypeOK <=> R(OneRequest \cup OtherRequests, Names, 0)!TypeOK
    BY DEF Overlap!TypeOK, R!TypeOK, Overlap!Row, R!Row
<1>4. Overlap!TwinsNeedAnOverlap <=> R(OneRequest \cup OtherRequests, Names, 0)!TwinsNeedAnOverlap
    BY DEF Overlap!TwinsNeedAnOverlap, R!TwinsNeedAnOverlap
<1>5. Overlap!CalmOverageIsBilled <=> R(OneRequest \cup OtherRequests, Names, 0)!CalmOverageIsBilled
    BY DEF Overlap!CalmOverageIsBilled, R!CalmOverageIsBilled, Overlap!Overage, R!Overage,
       Overlap!Max, R!Max, Overlap!Cardinality, R!Cardinality, Overlap!IsFiniteSet,
       R!IsFiniteSet
<1> QED  BY <1>1, <1>2, <1>3, <1>4, <1>5

LEMMA ChangeIs ==
    /\ Change!Init <=> R(OneRequest, Names \cup OtherNames, 1)!Init
    /\ Change!Next <=> R(OneRequest, Names \cup OtherNames, 1)!Next
    /\ Change!TypeOK <=> R(OneRequest, Names \cup OtherNames, 1)!TypeOK
    /\ \A r \in OneRequest : Change!CurrentAfter(r) <=> R(OneRequest, Names \cup OtherNames, 1)!CurrentAfter(r)
<1>1. Change!Init <=> R(OneRequest, Names \cup OtherNames, 1)!Init
    BY DEF Change!Init, R!Init, Change!Idle, R!Idle, Change!IsInjective, R!IsInjective
<1>2. Change!Next <=> R(OneRequest, Names \cup OtherNames, 1)!Next
    BY DEF Change!gh, R!gh, Change!Idle, R!Idle, Change!Renamings, R!Renamings, Change!Found,
       R!Found, Change!Fresh, R!Fresh, Change!Details, R!Details, Change!Kept, R!Kept,
       Change!AddReport, R!AddReport, Change!DropReport, R!DropReport, Change!Of, R!Of,
       Change!Writing, R!Writing, Change!Crowd, R!Crowd, Change!Disturbed, R!Disturbed,
       Change!ImportBegin, R!ImportBegin, Change!NewToProduct, R!NewToProduct,
       Change!ImportItem, R!ImportItem, Change!ImportRaises, R!ImportRaises, Change!Stored,
       R!Stored, Change!Commit, R!Commit, Change!ImportCommit, R!ImportCommit,
       Change!ImportNothing, R!ImportNothing, Change!CrashAfterCommit, R!CrashAfterCommit,
       Change!LinkBegin, R!LinkBegin, Change!LinkFetched, R!LinkFetched, Change!LinkCommit,
       R!LinkCommit, Change!CreateBegin, R!CreateBegin, Change!CreateCommit, R!CreateCommit,
       Change!RefreshBegin, R!RefreshBegin, Change!Updated, R!Updated, Change!RefreshItem,
       R!RefreshItem, Change!Refreshed, R!Refreshed, Change!RefreshCommit, R!RefreshCommit,
       Change!DeleteRow, R!DeleteRow, Change!DeleteProduct, R!DeleteProduct,
       Change!FollowRename, R!FollowRename, Change!Rename, R!Rename, Change!Vanish, R!Vanish,
       Change!Change, R!Change, Change!Expire, R!Expire, Change!Next, R!Next,
       Change!Cardinality, R!Cardinality, Change!IsFiniteSet, R!IsFiniteSet, Change!IsInjective,
       R!IsInjective
<1>3. Change!TypeOK <=> R(OneRequest, Names \cup OtherNames, 1)!TypeOK
    BY DEF Change!TypeOK, R!TypeOK, Change!Row, R!Row
<1>4. ASSUME NEW r \in OneRequest PROVE Change!CurrentAfter(r) <=> R(OneRequest, Names \cup OtherNames, 1)!CurrentAfter(r)
    BY DEF Change!CurrentAfter, R!CurrentAfter, Change!RefreshCommit, R!RefreshCommit,
       Change!Refreshed, R!Refreshed, Change!Disturbed, R!Disturbed, Change!Idle, R!Idle,
       Change!gh, R!gh
<1> QED  BY <1>1, <1>2, <1>3, <1>4

\* Only the part that was chosen goes on.
RepositoriesInv ==
    /\ part = "overlap" => RepoInv(OneRequest \cup OtherRequests, Names, 0)
    /\ part = "change" => RepoInv(OneRequest, Names \cup OtherNames, 1)

LEMMA RepositoriesInvHolds == Spec => []RepositoriesInv
<1>1. Init => RepositoriesInv
    <2>1. Init /\ part = "overlap" => RepoInv(OneRequest \cup OtherRequests, Names, 0)
        BY OverlapIs, RepositoriesBegin, RepositoryConstants DEF Init
    <2>2. Init /\ part = "change" => RepoInv(OneRequest, Names \cup OtherNames, 1)
        BY ChangeIs, RepositoriesBegin, RepositoryConstants DEF Init
    <2> QED  BY <2>1, <2>2 DEF RepositoriesInv
<1>2. RepositoriesInv /\ [Next]_Vars => RepositoriesInv'
    <2> SUFFICES ASSUME RepositoriesInv, [Next]_Vars PROVE RepositoriesInv'
        OBVIOUS
    <2>1. part' = part
        BY DEF Next, Vars
    <2>2. ASSUME part = "overlap" PROVE RepoInv(OneRequest \cup OtherRequests, Names, 0)'
        <3>1. Overlap!Next \/ UNCHANGED repositories
            BY <2>2 DEF Next, Vars
        <3>2. R(OneRequest \cup OtherRequests, Names, 0)!Next \/ UNCHANGED repositories
            BY <3>1, OverlapIs
        <3>3. RepoInv(OneRequest \cup OtherRequests, Names, 0) /\ NoName \notin Names
            BY <2>2, RepositoryConstants DEF RepositoriesInv
        <3> QED  BY <3>2, <3>3, RepositoriesStay
    <2>3. ASSUME part = "change" PROVE RepoInv(OneRequest, Names \cup OtherNames, 1)'
        <3>1. Change!Next \/ UNCHANGED repositories
            BY <2>3 DEF Next, Vars
        <3>2. R(OneRequest, Names \cup OtherNames, 1)!Next \/ UNCHANGED repositories
            BY <3>1, ChangeIs
        <3>3. RepoInv(OneRequest, Names \cup OtherNames, 1) /\ NoName \notin Names \cup OtherNames
            BY <2>3, RepositoryConstants DEF RepositoriesInv
        <3> QED  BY <3>2, <3>3, RepositoriesStay
    <2> QED  BY <2>1, <2>2, <2>3 DEF RepositoriesInv
<1> QED  BY <1>1, <1>2, PTL DEF Spec, Vars

\* For any products, repositories, names and requests, however imports, links,
\* creations, refreshes, deletions and followed renamings overlap: a product has
\* a repository twice only after additions overlapped or the plain create
\* endpoint took one it had, and with nothing lost the overage reported to the
\* billing service is the overage there is.
THEOREM RepositoriesCounted == Spec => []RepositoriesAreCounted
<1>1. RepositoriesInv => RepositoriesAreCounted
    <2> SUFFICES ASSUME RepositoriesInv PROVE RepositoriesAreCounted
        OBVIOUS
    <2>1. ASSUME part = "change" PROVE Change!TypeOK
        BY <2>1, ChangeIs, RepositoriesHold DEF RepositoriesInv
    <2>2. ASSUME part = "overlap"
          PROVE  Overlap!TypeOK /\ Overlap!TwinsNeedAnOverlap /\ Overlap!CalmOverageIsBilled
        BY <2>2, OverlapIs, RepositoriesHold DEF RepositoriesInv
    <2> QED  BY <2>1, <2>2 DEF RepositoriesAreCounted
<1> QED  BY <1>1, RepositoriesInvHolds, PTL

\* A refresh that neither GitHub nor another request disturbed, and that found no
\* kept answer, leaves every row it wrote with what GitHub has of its repository.
THEOREM RefreshIsCurrent == Spec => CalmRefreshIsCurrent
<1>1. RepositoriesInv => (part = "change" => \A r \in OneRequest : Change!CurrentAfter(r))
    BY ChangeIs, RepositoriesHold DEF RepositoriesInv
<1>2. RepositoriesInv =>
        [part = "change" => \A r \in OneRequest : Change!CurrentAfter(r)]_repositories
    BY <1>1
<1> QED  BY <1>2, RepositoriesInvHolds, PTL DEF CalmRefreshIsCurrent

\* The same, and a current refresh, where any requests overlap while GitHub
\* changes and renames as often as it likes.
THEOREM RepositoriesHoldTogether ==
    ASSUME NEW Q, NEW N, NEW m \in Nat, Names \subseteq N, NoName \notin N
    PROVE  R(Q, N, m)!Spec =>
             /\ [](R(Q, N, m)!TypeOK /\ R(Q, N, m)!TwinsNeedAnOverlap /\ R(Q, N, m)!CalmOverageIsBilled)
             /\ R(Q, N, m)!CalmRefreshIsCurrent
<1> DEFINE Good == R(Q, N, m)!TypeOK /\ R(Q, N, m)!TwinsNeedAnOverlap /\ R(Q, N, m)!CalmOverageIsBilled
           Inv == RepoInv(Q, N, m)
           Current == \A r \in Q : R(Q, N, m)!CurrentAfter(r)
<1>1. R(Q, N, m)!Init => Inv
    BY RepositoriesBegin
<1>2. Inv /\ [R(Q, N, m)!Next]_(R(Q, N, m)!vars) => Inv'
    <2>1. UNCHANGED R(Q, N, m)!vars => UNCHANGED repositories
        BY DEF R!vars, repositories
    <2> QED  BY <2>1, RepositoriesStay
<1>3. Inv => Good /\ Current
    BY RepositoriesHold
<1>4. Inv => [Current]_(R(Q, N, m)!vars)
    BY <1>3
<1> HIDE DEF Good, Inv, Current
<1>5. R(Q, N, m)!Spec => []Inv
    BY <1>1, <1>2, PTL DEF R!Spec
<1>6. R(Q, N, m)!Spec => []Good /\ [][Current]_(R(Q, N, m)!vars)
    BY <1>3, <1>4, <1>5, PTL
<1> QED  BY <1>6 DEF Good, Current, R!CalmRefreshIsCurrent

-----------------------------------------------------------------------------
(* Events in a line.  A finite set that L puts in a line has a first, and   *)
(* what is ahead of an event is also ahead of those after it.               *)

Lined(V, L) ==
    /\ \A s \in V : <<s, s>> \notin L
    /\ \A s, t \in V : s = t \/ <<s, t>> \in L \/ <<t, s>> \in L
    /\ \A s, t, u \in V : <<s, t>> \in L /\ <<t, u>> \in L => <<s, u>> \in L

Ahead(V, L, t) == {u \in V : <<u, t>> \in L}

LEMMA SomethingIsFirst ==
    ASSUME NEW V, IsFiniteSet(V), V # {}, NEW L, Lined(V, L)
    PROVE  \E t \in V : \A u \in V : u = t \/ <<t, u>> \in L
<1> DEFINE B == {Ahead(V, L, t) : t \in V}
<1>1. B \subseteq SUBSET V /\ B # {}
    BY DEF Ahead
<1>2. IsWellFoundedOn(StrictSubsetOrdering(V), FiniteSubsetsOf(V)) /\ FiniteSubsetsOf(V) = SUBSET V
    BY FS_StrictSubsetOrderingWellFounded, FS_FiniteSubsetsOfFinite
<1>3. PICK M \in B : \A N \in B : <<N, M>> \notin StrictSubsetOrdering(V)
    <2> HIDE DEF B
    <2> QED  BY <1>1, <1>2, WFMin
<1>4. \A N \in B : N \subseteq M => N = M
    BY <1>1, <1>3 DEF StrictSubsetOrdering
<1>5. PICK t \in V : M = Ahead(V, L, t)
    BY <1>3
<1>6. ASSUME NEW u \in V, <<u, t>> \in L PROVE FALSE
    <2>1. Ahead(V, L, u) \subseteq M /\ u \in M /\ u \notin Ahead(V, L, u)
        BY <1>5, <1>6 DEF Lined, Ahead
    <2> QED  BY <1>4, <2>1
<1> QED  BY <1>6 DEF Lined

LEMMA SomethingIsLast ==
    ASSUME NEW V, NEW L, Lined(V, L), NEW W \in SUBSET V, IsFiniteSet(W), W # {}
    PROVE  \E t \in W : \A u \in W : u = t \/ <<u, t>> \in L
<1> DEFINE Back == {p \in W \X W : <<p[2], p[1]>> \in L}
<1>1. \A x, y \in W : <<x, y>> \in Back <=> <<y, x>> \in L
    OBVIOUS
<1> HIDE DEF Back
<1>2. \A x \in W : <<x, x>> \notin Back
    BY <1>1 DEF Lined
<1>3. \A x, y \in W : x = y \/ <<x, y>> \in Back \/ <<y, x>> \in Back
    BY <1>1 DEF Lined
<1>4. ASSUME NEW x \in W, NEW y \in W, NEW z \in W, <<x, y>> \in Back, <<y, z>> \in Back
      PROVE  <<x, z>> \in Back
    <2>1. x \in V /\ y \in V /\ z \in V /\ <<y, x>> \in L /\ <<z, y>> \in L
        BY <1>1, <1>4
    <2>2. <<z, x>> \in L
        BY <2>1 DEF Lined
    <2> QED  BY <1>1, <2>2
<1>5. Lined(W, Back)
    BY <1>2, <1>3, <1>4 DEF Lined
<1>6. PICK t \in W : \A u \in W : u = t \/ <<t, u>> \in Back
    BY <1>5, SomethingIsFirst
<1> QED  BY <1>1, <1>6

\* Fewer are ahead of an event than of those after it.
LEMMA FewerAhead ==
    ASSUME NEW V, IsFiniteSet(V), NEW L, Lined(V, L), NEW s \in V, NEW t \in V, <<s, t>> \in L
    PROVE  Cardinality(Ahead(V, L, s)) < Cardinality(Ahead(V, L, t))
<1>1. Ahead(V, L, s) \subseteq Ahead(V, L, t) /\ s \in Ahead(V, L, t) /\ s \notin Ahead(V, L, s)
    BY DEF Lined, Ahead
<1>2. IsFiniteSet(Ahead(V, L, s)) /\ IsFiniteSet(Ahead(V, L, t))
    BY FS_Subset DEF Ahead
<1>3. Cardinality(Ahead(V, L, s)) \in Nat /\ Cardinality(Ahead(V, L, t)) \in Nat
    BY <1>2, FS_CardinalityType
<1>4. Cardinality(Ahead(V, L, s)) <= Cardinality(Ahead(V, L, t))
    BY <1>1, <1>2, FS_Subset
<1>5. Cardinality(Ahead(V, L, s)) # Cardinality(Ahead(V, L, t))
    BY <1>1, <1>2, FS_Subset
<1> QED  BY <1>3, <1>4, <1>5

-----------------------------------------------------------------------------
(* The timeline.  A page takes the events from the first behind the cursor, *)
(* so the commits shown are as new as the cursor.                           *)

CommitOf == [sha: T!Sha, ts: 0 .. MaxClock]
Places == [e: CommitOf, at: T!Repos \X Nat]

\* The commits are numbered as they are pushed.
LogInv ==
    /\ log \in [T!Repos -> Seq(CommitOf)]
    /\ IsFiniteSet(T!Commits)
    /\ \A c \in T!Commits : c.sha <= Cardinality(T!Commits)
    /\ \A c, d \in T!Commits : c.sha = d.sha => c = d

\* Events the pages have passed.
Passed(x) == ended \/ (cursor # {} /\ \A k \in cursor : x.e.ts >= k.ts)

TimelineInv ==
    /\ LogInv /\ clock \in 0 .. MaxClock
    /\ cursor \subseteq T!Commits /\ \A c, d \in cursor : c = d
    /\ shown \in [T!Sha -> 0 .. 2] /\ fixed \in BOOLEAN /\ ended \in BOOLEAN
    /\ cursor = {} /\ ~ended => \A s \in T!Sha : shown[s] = 0
    /\ \A s \in T!Sha : shown[s] # 0 =>
          \E c \in T!Commits : c.sha = s /\ \A k \in cursor : c.ts >= k.ts
    /\ T!Distinct => \A s \in T!Sha : shown[s] # 2
    /\ T!Distinct /\ fixed => \A x \in T!Fetched(T!Repos) : Passed(x) => shown[x.e.sha] # 0

LEMMA TimelineCounts == \A M : T!Cardinality(M) = Cardinality(M)
BY DEF T!Cardinality, Cardinality, T!IsFiniteSet, IsFiniteSet

\* The first n of V, and the last of these.
Page(V, L, n, page, last) ==
    /\ IsFiniteSet(V) /\ Lined(V, L) /\ page \subseteq V /\ last \subseteq page
    /\ \A x \in V : x \in page <=> Cardinality(Ahead(V, L, x)) < n
    /\ \A x \in page : x \in last <=> \A y \in page : y = x \/ <<y, x>> \in L

LEMMA PageIs ==
    ASSUME NEW V, NEW L, NEW n \in Nat \ {0}, NEW page, NEW last, Page(V, L, n, page, last)
    PROVE  /\ Cardinality(V) <= n => page = V
           /\ V # {} => last # {}
           /\ \A x, y \in last : x = y
           /\ \A x \in V, y \in last : <<x, y>> \in L => x \in page
<1>0. /\ IsFiniteSet(V) /\ Lined(V, L) /\ page \subseteq V /\ last \subseteq page
      /\ \A x \in V : x \in page <=> Cardinality(Ahead(V, L, x)) < n
      /\ \A x \in page : x \in last <=> \A y \in page : y = x \/ <<y, x>> \in L
    BY DEF Page
<1>1. \A x \in V : IsFiniteSet(Ahead(V, L, x)) /\ Cardinality(Ahead(V, L, x)) \in Nat
    BY <1>0, FS_Subset, FS_CardinalityType DEF Ahead
<1>2. IsFiniteSet(page) /\ page \subseteq V
    BY <1>0, FS_Subset
<1>3. Cardinality(V) \in Nat
    BY <1>0, FS_CardinalityType
<1>4. ASSUME Cardinality(V) <= n, NEW x \in V PROVE x \in page
    <2>1. Ahead(V, L, x) \subseteq V /\ x \notin Ahead(V, L, x)
        BY <1>0 DEF Ahead, Lined
    <2>2. Cardinality(Ahead(V, L, x)) < Cardinality(V)
        BY <1>0, <1>1, <1>3, <2>1, FS_Subset
    <2> QED  BY <1>0, <1>1, <1>3, <1>4, <2>2
<1>5. ASSUME V # {} PROVE last # {}
    <2>1. PICK t \in V : \A u \in V : u = t \/ <<t, u>> \in L
        BY <1>0, <1>5, SomethingIsFirst
    <2>2. Ahead(V, L, t) = {}
        BY <1>0, <2>1 DEF Ahead, Lined
    <2>3. t \in page
        <3>1. Cardinality(Ahead(V, L, t)) = 0
            BY <1>0, <2>2, FS_EmptySet
        <3>2. Cardinality(Ahead(V, L, t)) < n
            BY <1>0, <3>1
        <3> QED  BY <1>0, <3>2
    <2>4. PICK l \in page : \A u \in page : u = l \/ <<u, l>> \in L
        BY <1>0, <1>2, <2>3, SomethingIsLast
    <2> QED  BY <1>0, <2>4
<1>6. ASSUME NEW x \in last, NEW y \in last PROVE x = y
    <2>1. x \in V /\ y \in V
        BY <1>0, <1>2
    <2> QED  BY <1>0, <2>1 DEF Lined
<1>7. ASSUME NEW x \in V, NEW y \in last, <<x, y>> \in L PROVE x \in page
    <2>1. y \in V /\ Cardinality(Ahead(V, L, y)) < n
        BY <1>0, <1>2
    <2>2. Cardinality(Ahead(V, L, x)) < Cardinality(Ahead(V, L, y))
        BY <1>0, <1>7, <2>1, FewerAhead
    <2> QED  BY <1>0, <1>1, <2>1, <2>2
<1> QED  BY <1>0, <1>2, <1>4, <1>5, <1>6, <1>7

\* What a request gets: commits there are, at places of their own.
LEMMA FetchedAre ==
    ASSUME log \in [T!Repos -> Seq(CommitOf)], NEW rs \in SUBSET T!Repos
    PROVE  /\ IsFiniteSet(T!Fetched(rs))
           /\ T!Fetched(rs) \subseteq Places
           /\ \A x \in T!Fetched(rs) : x.e \in T!Commits
           /\ \A x, y \in T!Fetched(rs) : x.at = y.at => x = y
<1> DEFINE Event(p) == [e |-> log[p[1]][p[2]], at |-> p]
           D == T!Repos \X (1 .. Limit)
           f == [p \in D |-> Event(p)]
<1>1. ASSUME NEW x \in T!Fetched(rs)
      PROVE  \E r \in T!Repos, i \in Nat :
                i \in DOMAIN log[r] /\ i \in 1 .. Limit /\ x = [e |-> log[r][i], at |-> <<r, i>>]
    <2>1. PICK r \in rs : \E i \in DOMAIN log[r] : i <= Limit /\ x = [e |-> log[r][i], at |-> <<r, i>>]
        BY DEF T!Fetched
    <2>2. log[r] \in Seq(CommitOf) /\ r \in T!Repos
        OBVIOUS
    <2>3. DOMAIN log[r] \subseteq Nat \ {0}
        BY <2>2
    <2> QED  BY <2>1, <2>2, <2>3, TimelineConstants
<1>2. ASSUME NEW r \in T!Repos, NEW i \in DOMAIN log[r] PROVE log[r][i] \in CommitOf /\ log[r][i] \in T!Commits
    <2>1. log[r] \in Seq(CommitOf)
        OBVIOUS
    <2> QED  BY <2>1 DEF T!Commits
<1>3. T!Fetched(rs) \subseteq {f[p] : p \in D}
    <2>1. ASSUME NEW x \in T!Fetched(rs) PROVE \E p \in D : x = f[p]
        <3>1. PICK r \in T!Repos, i \in 1 .. Limit : x = [e |-> log[r][i], at |-> <<r, i>>]
            BY <1>1
        <3>2. <<r, i>> \in D /\ f[<<r, i>>] = [e |-> log[r][i], at |-> <<r, i>>]
            OBVIOUS
        <3> QED  BY <3>1, <3>2
    <2> QED  BY <2>1
<1>4. IsFiniteSet(D)
    <2>1. IsFiniteSet(1 .. NRepos) /\ IsFiniteSet(1 .. Limit)
        BY TimelineConstants, FS_Interval
    <2> QED  BY <2>1, FS_Product DEF T!Repos
<1>5. IsFiniteSet({f[p] : p \in D})
    <2>1. PICK g, E : g = f /\ E = D
        OBVIOUS
    <2>2. g \in Surjection(E, {g[p] : p \in E})
        <3>1. g = [p \in E |-> g[p]]
            BY <2>1
        <3> QED  BY <3>1 DEF Surjection
    <2>3. IsFiniteSet({g[p] : p \in E})
        BY <1>4, <2>1, <2>2, FS_Surjection
    <2> QED  BY <2>1, <2>3
<1>6. IsFiniteSet(T!Fetched(rs))
    BY <1>3, <1>5, FS_Subset
<1>7. ASSUME NEW x \in T!Fetched(rs) PROVE x \in Places /\ x.e \in T!Commits
    <2>1. PICK r \in T!Repos, i \in Nat : i \in DOMAIN log[r] /\ x = [e |-> log[r][i], at |-> <<r, i>>]
        BY <1>1
    <2> QED  BY <1>2, <2>1 DEF Places
<1>8. ASSUME NEW x \in T!Fetched(rs), NEW y \in T!Fetched(rs), x.at = y.at PROVE x = y
    <2>1. PICK r \in T!Repos, i \in Nat : x = [e |-> log[r][i], at |-> <<r, i>>]
        BY <1>1
    <2>2. PICK s \in T!Repos, j \in Nat : y = [e |-> log[s][j], at |-> <<s, j>>]
        BY <1>1
    <2>3. r = s /\ i = j
        BY <1>8, <2>1, <2>2
    <2> QED  BY <2>1, <2>2, <2>3
<1> QED  BY <1>6, <1>7, <1>8

Line(V) == {p \in V \X V : T!Before(p[1], p[2])}

LEMMA LineIs ==
    ASSUME NEW V, V \subseteq Places, \A x, y \in V : x.at = y.at => x = y
    PROVE  Lined(V, Line(V)) /\ \A x, y \in V : <<x, y>> \in Line(V) <=> T!Before(x, y)
<1>1. \A x, y \in V : <<x, y>> \in Line(V) <=> T!Before(x, y)
    BY DEF Line
<1>2. ASSUME NEW x \in V
      PROVE  x.e.ts \in Nat /\ x.at[1] \in Nat /\ x.at[2] \in Nat /\ x.at = <<x.at[1], x.at[2]>>
    BY DEF Places, CommitOf, T!Repos
<1>3. \A x \in V : ~T!Before(x, x)
    BY <1>2 DEF T!Before
<1>4. ASSUME NEW x \in V, NEW y \in V PROVE x = y \/ T!Before(x, y) \/ T!Before(y, x)
    <2>1. CASE x.at[1] = y.at[1] /\ x.at[2] = y.at[2]
        BY <1>2, <2>1
    <2>2. CASE x.at[1] # y.at[1] \/ x.at[2] # y.at[2]
        BY <1>2, <2>2 DEF T!Before
    <2> QED  BY <2>1, <2>2
<1>5. \A x, y, z \in V : T!Before(x, y) /\ T!Before(y, z) => T!Before(x, z)
    BY <1>2 DEF T!Before
<1> QED  BY <1>1, <1>3, <1>4, <1>5 DEF Lined

\* The events from the first behind the cursor on: none newer than it and, as
\* long as no two commits have the same time, all that are older.
LEMMA FromIs ==
    ASSUME TimelineInv, NEW rs \in SUBSET T!Repos, NEW V, V = T!From(T!Fetched(rs))
    PROVE  /\ V \subseteq T!Fetched(rs)
           /\ \A x \in V, c \in cursor : x.e.ts <= c.ts /\ (T!Distinct => x.e.ts < c.ts)
           /\ T!Distinct =>
                 \A x \in T!Fetched(rs) \ V : cursor # {} /\ \A c \in cursor : x.e.ts >= c.ts
<1>1. V = {x \in T!Fetched(rs) :
             \A c \in cursor : \E y \in T!Fetched(rs) : T!Behind(y, c) /\ (y = x \/ T!Before(y, x))}
    BY DEF T!From
<1>2. \A x \in T!Fetched(rs) : x.e \in T!Commits /\ x.e.ts \in Nat
    <2>1. /\ T!Fetched(rs) \subseteq Places
          /\ \A x \in T!Fetched(rs) : x.e \in T!Commits
        BY FetchedAre DEF TimelineInv, LogInv
    <2> QED  BY <2>1 DEF Places, CommitOf
<1>3. cursor \subseteq T!Commits /\ \A c \in T!Commits : c.ts \in Nat /\ c.sha \in Nat
    <2>1. ASSUME NEW c \in T!Commits PROVE c \in CommitOf
        <3>1. PICK r \in T!Repos : \E i \in DOMAIN log[r] : c = log[r][i]
            BY DEF T!Commits
        <3>2. log[r] \in Seq(CommitOf)
            BY DEF TimelineInv, LogInv
        <3> QED  BY <3>1, <3>2
    <2> QED  BY <2>1 DEF TimelineInv, CommitOf, T!Sha
<1>4. ASSUME NEW y \in T!Fetched(rs), NEW c \in cursor, T!Behind(y, c)
      PROVE  y.e.ts <= c.ts /\ (T!Distinct => y.e.ts < c.ts)
    <2>1. y.e.ts <= c.ts /\ y.e # c
        BY <1>4 DEF T!Behind
    <2> QED  BY <1>2, <1>3, <2>1 DEF T!Distinct
<1>5. ASSUME NEW x \in V, NEW c \in cursor PROVE x.e.ts <= c.ts /\ (T!Distinct => x.e.ts < c.ts)
    <2>1. PICK y \in T!Fetched(rs) : T!Behind(y, c) /\ (y = x \/ T!Before(y, x))
        BY <1>1
    <2>2. y.e.ts >= x.e.ts /\ x \in T!Fetched(rs)
        BY <1>1, <1>2, <2>1 DEF T!Before
    <2> QED  BY <1>2, <1>3, <1>4, <2>1, <2>2
<1>6. ASSUME T!Distinct, NEW x \in T!Fetched(rs) \ V
      PROVE  cursor # {} /\ \A c \in cursor : x.e.ts >= c.ts
    <2>1. PICK c \in cursor : \A y \in T!Fetched(rs) : ~(T!Behind(y, c) /\ (y = x \/ T!Before(y, x)))
        BY <1>1
    <2>2. ~T!Behind(x, c)
        BY <2>1
    <2>3. x.e.ts >= c.ts
        <3>1. x.e.ts > c.ts \/ x.e.sha = c.sha
            BY <1>2, <1>3, <2>2 DEF T!Behind
        <3>2. x.e.sha = c.sha => x.e = c
            BY <1>2, <1>3 DEF TimelineInv, LogInv
        <3> QED  BY <1>2, <1>3, <3>1, <3>2
    <2> QED  BY <2>1, <2>3 DEF TimelineInv
<1> QED  BY <1>1, <1>5, <1>6

LEMMA PageShown ==
    ASSUME TimelineInv, NEW rs \in SUBSET T!Repos, T!ReadPage(rs)
    PROVE  \E V, page, last :
             /\ V = T!From(T!Fetched(rs)) /\ V \subseteq T!Fetched(rs) /\ IsFiniteSet(V)
             /\ Page(V, Line(V), Limit, page, last)
             /\ \A x, y \in V : <<x, y>> \in Line(V) <=> T!Before(x, y)
             /\ shown' = [s \in T!Sha |-> IF \A x \in page : x.e.sha # s THEN shown[s]
                                          ELSE IF shown[s] = 0 THEN 1 ELSE 2]
             /\ ended' = (Cardinality(V) <= Limit)
             /\ cursor' = IF Cardinality(V) <= Limit THEN {} ELSE {x.e : x \in last}
<1>1. PICK V : V = T!From(T!Fetched(rs))
    OBVIOUS
<1>2. V \subseteq T!Fetched(rs)
    BY <1>1, FromIs
<1>3. IsFiniteSet(V) /\ Lined(V, Line(V)) /\ \A x, y \in V : <<x, y>> \in Line(V) <=> T!Before(x, y)
    <2>1. IsFiniteSet(T!Fetched(rs)) /\ T!Fetched(rs) \subseteq Places
          /\ \A x, y \in T!Fetched(rs) : x.at = y.at => x = y
        BY FetchedAre DEF TimelineInv, LogInv
    <2>2. IsFiniteSet(V)
        BY <1>2, <2>1, FS_Subset
    <2>3. V \subseteq Places /\ \A x, y \in V : x.at = y.at => x = y
        BY <1>2, <2>1
    <2> QED  BY <2>2, <2>3, LineIs
<1>4. PICK page, last : page = T!PageOf(V) /\ last = T!LastOf(page)
    OBVIOUS
<1>5. page \subseteq V /\ \A x \in V : x \in page <=> Cardinality(Ahead(V, Line(V), x)) < Limit
    <2>1. ASSUME NEW x \in V PROVE {y \in V : T!Before(y, x)} = Ahead(V, Line(V), x)
        BY <1>3 DEF Ahead
    <2>2. page = {x \in V : Cardinality({y \in V : T!Before(y, x)}) < Limit}
        BY <1>4, TimelineCounts DEF T!PageOf
    <2> QED  BY <2>1, <2>2
<1>6. last \subseteq page /\ \A x \in page : x \in last <=> \A y \in page : y = x \/ <<y, x>> \in Line(V)
    <2>1. last = {x \in page : \A y \in page : y = x \/ T!Before(y, x)}
        BY <1>4 DEF T!LastOf
    <2> QED  BY <1>3, <1>5, <2>1
<1>7. Page(V, Line(V), Limit, page, last)
    BY <1>3, <1>5, <1>6 DEF Page
<1>8. /\ shown' = [s \in T!Sha |-> IF \A x \in page : x.e.sha # s THEN shown[s]
                                   ELSE IF shown[s] = 0 THEN 1 ELSE 2]
      /\ ended' = (Cardinality(V) <= Limit)
      /\ cursor' = IF Cardinality(V) <= Limit THEN {} ELSE {x.e : x \in last}
    BY <1>1, <1>4, TimelineCounts, Zenon DEF T!ReadPage
<1> QED  BY <1>1, <1>2, <1>3, <1>7, <1>8

\* While the commits stay, so does what is fetched.
LEMMA LogStays ==
    ASSUME UNCHANGED log
    PROVE  /\ UNCHANGED <<T!Commits, T!Distinct>> /\ T!Fetched(T!Repos)' = T!Fetched(T!Repos)
           /\ LogInv => LogInv'
<1>1. T!Commits' = T!Commits
    BY DEF T!Commits
<1>2. T!Distinct' = T!Distinct
    BY <1>1 DEF T!Distinct
<1>3. T!Fetched(T!Repos)' = T!Fetched(T!Repos)
    BY DEF T!Fetched
<1>4. LogInv => LogInv'
    BY <1>1 DEF LogInv
<1> QED  BY <1>1, <1>2, <1>3, <1>4

LEMMA PageTurned ==
    ASSUME TimelineInv, NEW rs \in SUBSET T!Repos, T!ReadPage(rs)
    PROVE  TimelineInv'
<1>1. PICK V, page, last :
         /\ V = T!From(T!Fetched(rs)) /\ V \subseteq T!Fetched(rs) /\ IsFiniteSet(V)
         /\ Page(V, Line(V), Limit, page, last)
         /\ \A x, y \in V : <<x, y>> \in Line(V) <=> T!Before(x, y)
         /\ shown' = [s \in T!Sha |-> IF \A x \in page : x.e.sha # s THEN shown[s]
                                      ELSE IF shown[s] = 0 THEN 1 ELSE 2]
         /\ ended' = (Cardinality(V) <= Limit)
         /\ cursor' = IF Cardinality(V) <= Limit THEN {} ELSE {x.e : x \in last}
    BY PageShown
<1>2. ~ended /\ fixed' = (fixed /\ rs = T!Repos) /\ log' = log /\ clock' = clock
    BY DEF T!ReadPage
<1>3. /\ Cardinality(V) <= Limit => page = V
      /\ V # {} => last # {}
      /\ \A x, y \in last : x = y
      /\ \A x \in V, y \in last : T!Before(x, y) => x \in page
      /\ page \subseteq V /\ last \subseteq page
      /\ \A x \in page, y \in last : x = y \/ T!Before(x, y)
    <2>1. page \subseteq V /\ last \subseteq page
        BY <1>1 DEF Page
    <2>2. /\ Cardinality(V) <= Limit => page = V
          /\ V # {} => last # {}
          /\ \A x, y \in last : x = y
          /\ \A x \in V, y \in last : <<x, y>> \in Line(V) => x \in page
        <3>1. Limit \in Nat \ {0} /\ Page(V, Line(V), Limit, page, last)
            BY <1>1, TimelineConstants
        <3> QED  BY <3>1, PageIs
    <2>3. \A y \in last : \A x \in page : x = y \/ <<x, y>> \in Line(V)
        BY <1>1, <2>1 DEF Page
    <2> QED  BY <1>1, <2>1, <2>2, <2>3
<1>4. /\ \A x \in V, c \in cursor : x.e.ts <= c.ts /\ (T!Distinct => x.e.ts < c.ts)
      /\ T!Distinct =>
            \A x \in T!Fetched(rs) \ V : cursor # {} /\ \A c \in cursor : x.e.ts >= c.ts
    BY <1>1, FromIs
<1>5. \A x \in T!Fetched(rs) : x.e \in T!Commits /\ x.e.ts \in Nat /\ x.e.sha \in T!Sha
    <2>1. /\ T!Fetched(rs) \subseteq Places
          /\ \A x \in T!Fetched(rs) : x.e \in T!Commits
        BY FetchedAre DEF TimelineInv, LogInv
    <2> QED  BY <2>1 DEF Places, CommitOf
<1>6. \A c \in T!Commits : c.ts \in Nat
    <2>1. ASSUME NEW c \in T!Commits PROVE c \in CommitOf
        <3>1. PICK r \in T!Repos : \E i \in DOMAIN log[r] : c = log[r][i]
            BY DEF T!Commits
        <3>2. log[r] \in Seq(CommitOf)
            BY DEF TimelineInv, LogInv
        <3> QED  BY <3>1, <3>2
    <2> QED  BY <2>1 DEF CommitOf
<1>7. /\ T!Commits' = T!Commits /\ T!Distinct' = T!Distinct
      /\ T!Fetched(T!Repos)' = T!Fetched(T!Repos) /\ LogInv'
    BY <1>2, LogStays DEF TimelineInv
<1>8. /\ cursor \subseteq T!Commits /\ shown \in [T!Sha -> 0 .. 2] /\ fixed \in BOOLEAN
      /\ cursor = {} => \A s \in T!Sha : shown[s] = 0
      /\ \A s \in T!Sha : shown[s] # 0 =>
            \E c \in T!Commits : c.sha = s /\ \A k \in cursor : c.ts >= k.ts
      /\ \A c, d \in T!Commits : c.sha = d.sha => c = d
    BY <1>2 DEF TimelineInv, LogInv
<1>9. cursor' \subseteq T!Commits /\ \A c, d \in cursor' : c = d
    BY <1>1, <1>3, <1>5
<1>10. shown' \in [T!Sha -> 0 .. 2] /\ ended' \in BOOLEAN /\ fixed' \in BOOLEAN /\ clock' \in 0 .. MaxClock
    BY <1>1, <1>2, <1>8 DEF TimelineInv
<1>11. cursor' # {} \/ ended'
    <2>1. Cardinality({}) = 0 /\ 0 <= Limit /\ Cardinality(V) \in Nat /\ Limit \in Nat
        BY <1>1, FS_EmptySet, FS_CardinalityType, TimelineConstants
    <2>2. CASE V = {}
        <3>1. Cardinality(V) <= Limit
            BY <2>1, <2>2
        <3> QED  BY <1>1, <3>1
    <2>3. CASE V # {}
        BY <1>1, <1>3, <2>3
    <2> QED  BY <2>2, <2>3
<1>12. ASSUME NEW s \in T!Sha, shown'[s] # 0
       PROVE  \E c \in T!Commits : c.sha = s /\ \A k \in cursor' : c.ts >= k.ts
    <2>1. CASE \A x \in page : x.e.sha # s
        <3>1. shown[s] # 0
            BY <1>1, <1>12, <2>1
        <3>2. PICK c \in T!Commits, o \in cursor : c.sha = s /\ c.ts >= o.ts
            BY <1>8, <3>1
        <3>3. ASSUME NEW k \in cursor' PROVE c.ts >= k.ts
            <4>1. PICK x \in last : k = x.e
                BY <1>1
            <4>2. x \in V /\ x.e.ts \in Nat
                BY <1>1, <1>3, <1>5
            <4>3. x.e.ts <= o.ts /\ o.ts \in Nat /\ c.ts \in Nat
                BY <1>4, <1>6, <1>8, <4>2
            <4> QED  BY <3>2, <4>1, <4>2, <4>3
        <3> QED  BY <3>2, <3>3
    <2>2. ASSUME NEW x \in page, x.e.sha = s PROVE \A k \in cursor' : x.e.ts >= k.ts
        <3>1. ASSUME NEW y \in last PROVE x.e.ts >= y.e.ts
            <4>1. x.e.ts \in Nat /\ y.e.ts \in Nat
                BY <1>1, <1>3, <1>5
            <4> QED  BY <1>3, <4>1 DEF T!Before
        <3> QED  BY <1>1, <3>1
    <2> QED  BY <1>1, <1>3, <1>5, <2>1, <2>2
<1>13. ASSUME T!Distinct, NEW s \in T!Sha PROVE shown'[s] # 2
    <2>1. CASE \A x \in page : x.e.sha # s
        <3>1. shown'[s] = shown[s]
            BY <1>1, <2>1
        <3> QED  BY <1>13, <3>1 DEF TimelineInv
    <2>2. ASSUME NEW x \in page, x.e.sha = s, shown[s] # 0 PROVE FALSE
        <3>1. x \in V /\ x.e \in T!Commits /\ x.e.ts \in Nat
            BY <1>1, <1>3, <1>5
        <3>2. PICK o \in cursor : x.e.ts >= o.ts
            BY <1>8, <2>2, <3>1
        <3>3. x.e.ts < o.ts /\ o.ts \in Nat
            BY <1>4, <1>6, <1>8, <1>13, <3>1
        <3> QED  BY <3>1, <3>2, <3>3
    <2> QED  BY <1>1, <2>1, <2>2
<1>14. ASSUME T!Distinct, fixed', NEW x \in T!Fetched(T!Repos), Passed(x)'
       PROVE  shown'[x.e.sha] # 0
    <2>1. rs = T!Repos /\ fixed /\ x \in T!Fetched(rs)
        BY <1>2, <1>8, <1>14
    <2>2. x.e.sha \in T!Sha /\ x.e.ts \in Nat
        BY <1>5, <2>1
    <2>3. CASE x \notin V
        <3>1. Passed(x)
            BY <1>4, <1>14, <2>1, <2>3 DEF Passed
        <3>2. shown[x.e.sha] # 0
            BY <1>14, <2>1, <3>1 DEF TimelineInv
        <3> QED  BY <1>1, <2>2, <3>2
    <2>4. ASSUME NEW y \in page, y.e.sha = x.e.sha PROVE shown'[x.e.sha] # 0
        BY <1>1, <2>2, <2>4
    <2>5. CASE x \in V /\ ended'
        BY <1>1, <1>3, <2>4, <2>5
    <2>6. CASE x \in V /\ ~ended'
        <3>1. PICK y \in last : x.e.ts >= y.e.ts
            BY <1>1, <1>14, <2>6 DEF Passed
        <3>2. y \in page /\ y.e \in T!Commits /\ y.e.ts \in Nat /\ x.e \in T!Commits
            BY <1>1, <1>3, <1>5, <2>1
        <3>3. CASE x.e.ts = y.e.ts
            <4>1. x.e = y.e
                BY <1>14, <3>2, <3>3 DEF T!Distinct
            <4> QED  BY <2>4, <3>2, <4>1
        <3>4. CASE x.e.ts > y.e.ts
            <4>1. x \in page
                BY <1>3, <2>6, <3>4 DEF T!Before
            <4> QED  BY <2>4, <4>1
        <3> QED  BY <2>2, <3>1, <3>2, <3>3, <3>4
    <2> QED  BY <2>3, <2>5, <2>6, <1>10
<1> QED  BY <1>7, <1>9, <1>10, <1>11, <1>12, <1>13, <1>14 DEF TimelineInv

\* A commit is pushed: it has the next number.
LEMMA Pushed ==
    ASSUME TimelineInv, NEW r \in T!Repos, T!Push(r)
    PROVE  TimelineInv'
<1>1. PICK new : new = [sha |-> Cardinality(T!Commits) + 1, ts |-> clock]
    OBVIOUS
<1>2. /\ Cardinality(T!Commits) < MaxCommits
      /\ log' = [log EXCEPT ![r] = <<new>> \o @]
      /\ fixed' = (cursor = {} /\ ~ended)
      /\ UNCHANGED <<clock, cursor, shown, ended>>
    BY <1>1, TimelineCounts DEF T!Push
<1>3. new \in CommitOf /\ new.sha = Cardinality(T!Commits) + 1
    <2>1. Cardinality(T!Commits) \in Nat /\ clock \in 0 .. MaxClock
        BY FS_CardinalityType DEF TimelineInv, LogInv
    <2>2. Cardinality(T!Commits) + 1 \in T!Sha
        BY <1>2, <2>1, TimelineConstants DEF T!Sha
    <2> QED  BY <1>1, <2>1, <2>2 DEF CommitOf
<1>4. log \in [T!Repos -> Seq(CommitOf)]
    BY DEF TimelineInv, LogInv
<1>5. PICK l : l = <<new>> \o log[r]
    OBVIOUS
<1>6. l \in Seq(CommitOf) /\ {l[i] : i \in DOMAIN l} = {log[r][i] : i \in DOMAIN log[r]} \cup {new}
    <2>1. log[r] \in Seq(CommitOf)
        BY <1>4
    <2>2. PICK q : q = log[r]
        OBVIOUS
    <2>3. q \in Seq(CommitOf) /\ l = <<new>> \o q
        BY <1>5, <2>1, <2>2
    <2>4. /\ l \in Seq(CommitOf) /\ Len(l) = Len(q) + 1 /\ Len(q) \in Nat
          /\ DOMAIN l = 1 .. Len(l) /\ DOMAIN q = 1 .. Len(q)
          /\ l[1] = new /\ \A i \in 1 .. Len(q) : l[i + 1] = q[i]
        BY <1>3, <2>3
    <2>5. ASSUME NEW i \in DOMAIN l PROVE l[i] = new \/ \E j \in DOMAIN q : l[i] = q[j]
        <3>1. i = 1 \/ (i - 1 \in DOMAIN q /\ (i - 1) + 1 = i)
            BY <2>4
        <3> QED  BY <2>4, <3>1
    <2>6. ASSUME NEW j \in DOMAIN q PROVE \E i \in DOMAIN l : l[i] = q[j]
        <3>1. j + 1 \in DOMAIN l
            BY <2>4
        <3> QED  BY <2>4, <3>1
    <2>7. 1 \in DOMAIN l
        BY <2>4
    <2> QED  BY <2>2, <2>4, <2>5, <2>6, <2>7
<1>7. log' = [log EXCEPT ![r] = l]
    BY <1>2, <1>5
<1>8. log' \in [T!Repos -> Seq(CommitOf)] /\ T!Commits' = T!Commits \cup {new}
    <2>1. log' \in [T!Repos -> Seq(CommitOf)] /\ log'[r] = l /\ \A s \in T!Repos : s # r => log'[s] = log[s]
        BY <1>4, <1>6, <1>7
    <2> DEFINE In(q) == {q[i] : i \in DOMAIN q}
    <2>2. \A s \in T!Repos : In(log'[s]) = IF s = r THEN In(log[s]) \cup {new} ELSE In(log[s])
        <3>1. In(l) = In(log[r]) \cup {new}
            BY <1>6
        <3>2. In(log'[r]) = In(log[r]) \cup {new} /\ \A s \in T!Repos : s # r => In(log'[s]) = In(log[s])
            BY <2>1, <3>1
        <3> HIDE DEF In
        <3> QED  BY <3>2
    <2>3. T!Commits' = UNION {In(log'[s]) : s \in T!Repos} /\ T!Commits = UNION {In(log[s]) : s \in T!Repos}
        BY DEF T!Commits
    <2> HIDE DEF In
    <2>4. T!Commits' = T!Commits \cup {new}
        <3>1. /\ \A x : x \in T!Commits' <=> \E s \in T!Repos : x \in In(log'[s])
              /\ \A x : x \in T!Commits <=> \E s \in T!Repos : x \in In(log[s])
            BY <2>3
        <3>2. ASSUME NEW s \in T!Repos, NEW x \in In(log'[s])
              PROVE  x \in T!Commits \cup {new}
            BY <2>2, <3>1
        <3>3. ASSUME NEW s \in T!Repos, NEW x \in In(log[s])
              PROVE  x \in T!Commits'
            BY <2>2, <3>1
        <3>4. new \in T!Commits'
            BY <2>2, <3>1
        <3> QED  BY <3>1, <3>2, <3>3, <3>4
    <2> QED  BY <2>1, <2>4
<1>9. LogInv'
    <2>1. IsFiniteSet(T!Commits') /\ Cardinality(T!Commits') = Cardinality(T!Commits) + 1
          /\ Cardinality(T!Commits) \in Nat
        <3>1. Cardinality(T!Commits) \in Nat
            BY FS_CardinalityType DEF TimelineInv, LogInv
        <3>2. new \notin T!Commits
            BY <1>3, <3>1 DEF TimelineInv, LogInv
        <3> QED  BY <1>8, <3>1, <3>2, FS_AddElement DEF TimelineInv, LogInv
    <2>2. \A c \in T!Commits : c.sha <= Cardinality(T!Commits) /\ c.sha \in Nat
        <3>1. ASSUME NEW c \in T!Commits PROVE c \in CommitOf
            <4>1. PICK s \in T!Repos : \E i \in DOMAIN log[s] : c = log[s][i]
                BY DEF T!Commits
            <4>2. log[s] \in Seq(CommitOf)
                BY <1>4
            <4> QED  BY <4>1, <4>2
        <3> QED  BY <3>1 DEF CommitOf, T!Sha, TimelineInv, LogInv
    <2>3. \A c \in T!Commits' : c.sha <= Cardinality(T!Commits')
        BY <1>3, <1>8, <2>1, <2>2
    <2>4. \A c, d \in T!Commits' : c.sha = d.sha => c = d
        <3>1. \A c \in T!Commits : c.sha # new.sha
            BY <1>3, <2>1, <2>2
        <3> QED  BY <1>8, <3>1 DEF TimelineInv, LogInv
    <2> QED  BY <1>8, <2>1, <2>3, <2>4 DEF LogInv
<1>10. T!Distinct' => T!Distinct
    BY <1>8 DEF T!Distinct
<1>11. ~(fixed' /\ \E x : Passed(x)')
    BY <1>2 DEF Passed
<1> QED  BY <1>2, <1>8, <1>9, <1>10, <1>11 DEF TimelineInv

LEMMA TimelineStays == TimelineInv /\ T!Next => TimelineInv'
<1> SUFFICES ASSUME TimelineInv, T!Next PROVE TimelineInv'
    OBVIOUS
<1>1. ASSUME T!Tick PROVE TimelineInv'
    <2>1. clock' \in 0 .. MaxClock /\ UNCHANGED <<log, cursor, shown, fixed, ended>>
        BY <1>1, TimelineConstants DEF TimelineInv, T!Tick
    <2>2. /\ T!Commits' = T!Commits /\ T!Distinct' = T!Distinct
          /\ T!Fetched(T!Repos)' = T!Fetched(T!Repos) /\ LogInv'
        BY <2>1, LogStays DEF TimelineInv
    <2> QED  BY <2>1, <2>2 DEF TimelineInv, Passed
<1>2. ASSUME T!Reading PROVE TimelineInv'
    BY <1>2, PageTurned DEF T!Reading
<1> QED  BY <1>1, <1>2, Pushed DEF T!Next

LEMMA TimelineRests == TimelineInv /\ UNCHANGED timeline => TimelineInv'
<1> SUFFICES ASSUME TimelineInv, UNCHANGED timeline PROVE TimelineInv'
    OBVIOUS
<1>1. UNCHANGED <<log, clock, cursor, shown, fixed, ended>>
    BY DEF timeline
<1>2. /\ T!Commits' = T!Commits /\ T!Distinct' = T!Distinct
      /\ T!Fetched(T!Repos)' = T!Fetched(T!Repos) /\ LogInv'
    BY <1>1, LogStays DEF TimelineInv
<1> QED  BY <1>1, <1>2 DEF TimelineInv, Passed

LEMMA TimelineBegins == T!Init => TimelineInv
<1> SUFFICES ASSUME T!Init PROVE TimelineInv
    OBVIOUS
<1>1. /\ log = [r \in T!Repos |-> <<>>] /\ clock = 0 /\ cursor = {}
      /\ shown = [s \in T!Sha |-> 0] /\ fixed = TRUE /\ ended = FALSE
    BY DEF T!Init
<1>2. log \in [T!Repos -> Seq(CommitOf)] /\ T!Commits = {}
    BY <1>1 DEF T!Commits
<1>3. LogInv
    BY <1>2, FS_EmptySet DEF LogInv
<1>4. /\ clock \in 0 .. MaxClock /\ fixed \in BOOLEAN /\ ended \in BOOLEAN
      /\ shown \in [T!Sha -> 0 .. 2] /\ \A s \in T!Sha : shown[s] = 0
    <2>1. clock \in 0 .. MaxClock
        BY <1>1, TimelineConstants
    <2>2. fixed \in BOOLEAN /\ ended \in BOOLEAN
        BY <1>1
    <2>3. shown \in [T!Sha -> 0 .. 2] /\ \A s \in T!Sha : shown[s] = 0
        <3>1. shown = [s \in T!Sha |-> 0] /\ 0 \in 0 .. 2
            BY <1>1
        <3> QED  BY <3>1
    <2> QED  BY <2>1, <2>2, <2>3
<1>5. \A x : ~Passed(x)
    BY <1>1 DEF Passed
<1> QED  BY <1>1, <1>3, <1>4, <1>5 DEF TimelineInv

LEMMA TimelineHolds == TimelineInv => T!TypeOK /\ T!PagesPartition
<1> SUFFICES ASSUME TimelineInv PROVE T!TypeOK /\ T!PagesPartition
    OBVIOUS
<1>1. log \in [T!Repos -> Seq(CommitOf)]
    BY DEF TimelineInv, LogInv
<1>2. cursor \subseteq CommitOf
    <2>1. ASSUME NEW c \in T!Commits PROVE c \in CommitOf
        <3>1. PICK s \in T!Repos : \E i \in DOMAIN log[s] : c = log[s][i]
            BY DEF T!Commits
        <3>2. log[s] \in Seq(CommitOf)
            BY <1>1
        <3> QED  BY <3>1, <3>2
    <2> QED  BY <2>1 DEF TimelineInv
<1>3. T!Cardinality(cursor) <= 1
    <2>1. cursor = {} \/ \E c : cursor = {c}
        BY DEF TimelineInv
    <2>2. Cardinality(cursor) <= 1
        <3>1. Cardinality({}) = 0 /\ \A c : Cardinality({c}) = 1
            BY FS_EmptySet, FS_Singleton
        <3>2. CASE cursor = {}
            <4>1. Cardinality(cursor) = 0
                BY <3>1, <3>2
            <4> QED  BY <4>1
        <3>3. ASSUME NEW c, cursor = {c} PROVE Cardinality(cursor) <= 1
            <4>1. Cardinality(cursor) = 1
                BY <3>1, <3>3
            <4> QED  BY <4>1
        <3> QED  BY <2>1, <3>2, <3>3
    <2> QED  BY <2>2, TimelineCounts
<1>4. T!TypeOK
    BY <1>1, <1>2, <1>3 DEF TimelineInv, T!TypeOK, CommitOf
<1>5. ASSUME T!Distinct, NEW s \in T!Sha PROVE shown[s] <= 1
    BY <1>5 DEF TimelineInv
<1>6. ASSUME T!Distinct, ended, fixed, NEW x \in T!Fetched(T!Repos) PROVE shown[x.e.sha] = 1
    <2>1. x.e.sha \in T!Sha
        <3>1. T!Fetched(T!Repos) \subseteq Places
            BY <1>1, FetchedAre
        <3> QED  BY <3>1 DEF Places, CommitOf
    <2>2. shown[x.e.sha] # 0 /\ shown[x.e.sha] # 2 /\ shown[x.e.sha] \in 0 .. 2
        BY <1>6, <2>1 DEF TimelineInv, Passed
    <2> QED  BY <2>2
<1> QED  BY <1>4, <1>5, <1>6 DEF T!PagesPartition

\* For any repositories, commits, page sizes and times, however commits are pushed
\* and fetches fail between the pages: as long as no two commits have the same
\* time no commit is on two pages, and a walk through a timeline that nobody
\* changes shows every commit the repositories gave.
THEOREM PagesParted == Spec => []PagesPartition
<1>1. Init => TimelineInv
    BY TimelineBegins DEF Init
<1>2. TimelineInv /\ [Next]_Vars => TimelineInv'
    BY TimelineStays, TimelineRests DEF Next, Vars
<1>3. TimelineInv => PagesPartition
    BY TimelineHolds DEF PagesPartition
<1> QED  BY <1>1, <1>2, <1>3, PTL DEF Spec, Vars
=============================================================================
