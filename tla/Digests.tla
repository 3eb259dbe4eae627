------------------------------ MODULE Digests -------------------------------
(***************************************************************************)
(* The scheduler of every server instance and the digest e-mails it sends. *)
(* Each instance fires both digest jobs every hour by its own clock, an    *)
(* advisory lock keeps two scheduled runs of a job apart, and the manual   *)
(* trigger runs the same job without it. What was sent is not recorded.    *)
(***************************************************************************)
EXTENDS Naturals, FiniteSets

CONSTANTS
    Jobs,        \* the digest jobs, of "daily" and "weekly"
    Instances,   \* server processes
    Prefs,       \* one organization's digest preference of one user each
    Day,         \* hours of a day
    LastHour,    \* bound: the hour the clock stops at
    MaxManual,   \* bound: manual triggers
    MaxCrashes   \* bound: restarts of instances

\* Each job serves one frequency; a frequency whose job is left out is as "none".
Frequencies == Jobs
Nobody == "nobody"

VARIABLES
    hour,        \* hours since a digest day began
    pref,        \* org_digest_preferences
    lock,        \* advisory locks: the instance whose session holds it
    fired,       \* jobs each scheduler has fired this hour
    batch,       \* scheduled and manual runs of an instance
    crashes,     \* restarts so far
    manual,      \* manual triggers so far
    started,     \* history: batches loaded, by job and hour
    mails        \* history: mails delivered, by preference, job and hour loaded

vars == <<hour, pref, lock, fired, batch, crashes, manual, started, mails>>

Hours == 0 .. LastHour
Kinds == {"cron", "manual"}
Runs == Instances \X Jobs \X Kinds
Job(b) == b[2]
Off == [on |-> FALSE]
Active == {b \in Runs : batch[b] # Off}

\* Types; a scheduled batch runs under its instance's lock.
TypeOK ==
    /\ hour \in Hours
    /\ pref \in [Prefs -> [freq: Frequencies \union {"none"}, hour: 0 .. Day - 1]]
    /\ lock \in [Jobs -> Instances \union {Nobody}]
    /\ fired \in [Instances -> SUBSET Jobs]
    /\ \A b \in Active :
          /\ batch[b].todo \subseteq Prefs /\ batch[b].at \in Hours
          /\ batch[b].now \in Prefs \union {Nobody}
          /\ b[3] = "cron" => lock[Job(b)] = b[1]
    /\ \A j \in Jobs, h \in Hours : started[j][h] \in Nat
    /\ \A p \in Prefs, j \in Jobs, h \in Hours : mails[p][j][h] \in Nat

-----------------------------------------------------------------------------
\* Whose local time it is: weekly digests on the digest day only.
Eligible(j) ==
    {p \in Prefs : /\ pref[p].freq = j
                   /\ pref[p].hour = hour % Day
                   /\ j = "weekly" => hour < Day}

\* What the batch will do is read once, when it begins.
Load(b) ==
    /\ batch' = [batch EXCEPT ![b] =
                   [on |-> TRUE, todo |-> Eligible(Job(b)), at |-> hour, now |-> Nobody]]
    /\ started' = [started EXCEPT ![Job(b)][hour] = @ + 1]

\* The scheduler fires: with the lock it runs the job, without it does not.
Fire(i, j) ==
    /\ j \notin fired[i]
    /\ fired' = [fired EXCEPT ![i] = @ \union {j}]
    /\ \/ /\ lock[j] = Nobody /\ batch[<<i, j, "cron">>] = Off
          /\ lock' = [lock EXCEPT ![j] = i]
          /\ Load(<<i, j, "cron">>)
       \/ /\ lock[j] # Nobody
          /\ UNCHANGED <<lock, batch, started>>
    /\ UNCHANGED <<hour, pref, crashes, manual, mails>>

Trigger(i, j) ==
    /\ batch[<<i, j, "manual">>] = Off /\ manual < MaxManual
    /\ manual' = manual + 1
    /\ Load(<<i, j, "manual">>)
    /\ UNCHANGED <<hour, pref, lock, fired, crashes, mails>>

\* The next preference: its user gets a mail, or none without a role in the
\* organization by now, accessible products or summaries.
Consider(b) ==
    /\ batch[b] # Off /\ batch[b].now = Nobody
    /\ \E p \in batch[b].todo :
       \E next \in {p, Nobody} :
         batch' = [batch EXCEPT ![b] = [batch[b] EXCEPT !.todo = @ \ {p}, !.now = next]]
    /\ UNCHANGED <<hour, pref, lock, fired, crashes, manual, started, mails>>

\* Wrong variant: what Postmark did not confirm is tried again.
Answered_Retry(b, ok) ==
    IF ok THEN batch ELSE [batch EXCEPT ![b].todo = @ \union {batch[b].now}]

\* Every preference is tried once, whatever the answer.
Answered(b, ok) == batch

\* Postmark delivers or does not; its answer may be lost all the same. That
\* another batch of the process may close the HTTP client this one sends
\* with is one more way not to be delivered.
Send(b) ==
    /\ batch[b] # Off /\ batch[b].now # Nobody
    /\ \E delivered, ok \in BOOLEAN :
         /\ ok => delivered
         /\ mails' = IF delivered
                     THEN [mails EXCEPT ![batch[b].now][Job(b)][batch[b].at] = @ + 1]
                     ELSE mails
         /\ batch' = [Answered(b, ok) EXCEPT ![b].now = Nobody]
    /\ UNCHANGED <<hour, pref, lock, fired, crashes, manual, started>>

\* Wrong variant: the end of a run keeps the lock.
Release_Kept(b) == lock

\* Wrong variant: a manual run gives back a lock it never took.
Release_Any(b) == [lock EXCEPT ![Job(b)] = Nobody]

\* The lock is given back when the batch ends.
Release(b) == IF b[3] = "cron" THEN [lock EXCEPT ![Job(b)] = Nobody] ELSE lock

Finish(b) ==
    /\ batch[b] # Off /\ batch[b].now = Nobody /\ batch[b].todo = {}
    /\ batch' = [batch EXCEPT ![b] = Off]
    /\ lock' = Release(b)
    /\ UNCHANGED <<hour, pref, fired, crashes, manual, started, mails>>

\* A restart ends the process's sessions, and their locks; jobs of this hour
\* are not fired again.
Crash(i) ==
    /\ crashes < MaxCrashes
    /\ crashes' = crashes + 1
    /\ batch' = [b \in Runs |-> IF b[1] = i THEN Off ELSE batch[b]]
    /\ lock' = [j \in Jobs |-> IF lock[j] = i THEN Nobody ELSE lock[j]]
    /\ fired' = [fired EXCEPT ![i] = Jobs]
    /\ UNCHANGED <<hour, pref, manual, started, mails>>

HourPasses ==
    /\ hour < LastHour
    /\ hour' = hour + 1
    /\ fired' = [i \in Instances |-> {}]
    /\ UNCHANGED <<pref, lock, batch, crashes, manual, started, mails>>

UpdatePreference(p) ==
    /\ \E f \in Frequencies \union {"none"}, h \in 0 .. Day - 1 :
          /\ pref[p] # [freq |-> f, hour |-> h]
          /\ pref' = [pref EXCEPT ![p] = [freq |-> f, hour |-> h]]
    /\ UNCHANGED <<hour, lock, fired, batch, crashes, manual, started, mails>>

-----------------------------------------------------------------------------
Init ==
    /\ hour = 0
    /\ pref = [p \in Prefs |-> [freq |-> "none", hour |-> 0]]
    /\ lock = [j \in Jobs |-> Nobody]
    /\ fired = [i \in Instances |-> {}]
    /\ batch = [b \in Runs |-> Off]
    /\ crashes = 0 /\ manual = 0
    /\ started = [j \in Jobs |-> [h \in Hours |-> 0]]
    /\ mails = [p \in Prefs |-> [j \in Jobs |-> [h \in Hours |-> 0]]]

Work(b) == Consider(b) \/ Send(b) \/ Finish(b)

Next ==
    \/ \E i \in Instances, j \in Jobs : Fire(i, j) \/ Trigger(i, j)
    \/ \E b \in Runs : Work(b)
    \/ \E i \in Instances : Crash(i)
    \/ HourPasses
    \/ \E p \in Prefs : UpdatePreference(p)

Spec == Init /\ [][Next]_vars

\* A batch that runs goes on until it ends or its process does.
Fairness == \A b \in Runs : WF_vars(Work(b))

-----------------------------------------------------------------------------
\* Every batch of an hour sends a preference at most one mail, lost answers
\* and late batches included.
MailsBoundedByBatches ==
    \A p \in Prefs, j \in Jobs, h \in Hours : mails[p][j][h] <= started[j][h]

\* A lock that was taken is free again at some time, whatever fails.
LocksAreReleased == \A j \in Jobs : lock[j] # Nobody ~> lock[j] = Nobody

\* What one would expect, and does not hold: nobody gets two mails of
\* one scheduled job in the same hour.
NoDuplicateDigest ==
    manual = 0 => \A p \in Prefs, j \in Jobs, h \in Hours : mails[p][j][h] <= 1
=============================================================================
