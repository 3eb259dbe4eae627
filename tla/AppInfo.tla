------------------------------ MODULE AppInfo -------------------------------
(* The variables of a product: made one at a time or in bulk, changed,       *)
(* deleted, revealed.  Values of secrets are stored encrypted.               *)
(* (src/app/api/v1/app_info.py, src/app/domain/app_info_operations.py,       *)
(* src/app/core/encryption.py)                                               *)
(*                                                                           *)
(* Every request is one transaction: what it read may have changed when it   *)
(* commits.  An encryption key is configured; tags, limits and masks are     *)
(* left out.  An entry belongs to the user who made it, whose entries alone  *)
(* are searched for a key.                                                   *)
EXTENDS Integers, FiniteSets, Sequences, SequencesExt

CONSTANTS Users,     \* editors of the product
          Keys,
          Requests,  \* overlapping requests
          MaxIds     \* bound: entries ever stored

VARIABLES entries,   \* rows [id, user, key, secret, enc]
          turned,    \* entries whose secrecy was changed
          call,
          strayed,   \* users with overlapping requests or a renamed entry
          lastId

vars == <<entries, turned, call, strayed, lastId>>
Id == 1..MaxIds

Idle == [op |-> "idle"]
Of(u) == {e \in entries : e.user = u}
Under(u, k) == {e \in Of(u) : e.key = k}
Busy(r, u) == \E q \in Requests \ {r} : call[q] # Idle /\ call[q].user = u
Crowd(r, u) == strayed \cup {x \in {u} : Busy(r, u)}

(* whether a value is encrypted at rest; one that does not decrypt is *)
(* revealed as it is                                                  *)
Encrypted(secret) == secret

Init == /\ entries = {} /\ turned = {}
        /\ call = [r \in Requests |-> Idle] /\ strayed = {} /\ lastId = 0

(* ---- POST: the caller's entries are searched for the key ---- *)
CreateBegin(r, u, k, s) ==
  /\ call[r] = Idle /\ Under(u, k) = {}
  /\ call' = [call EXCEPT ![r] =
       [op |-> "add", user |-> u, new |-> {[key |-> k, secret |-> s]}]]
  /\ strayed' = Crowd(r, u)
  /\ UNCHANGED <<entries, turned, lastId>>

(* ---- POST /bulk: keys the caller has are skipped; the last of several ---- *)
(* entries with one key counts                                                *)
Known(u, ks) == {e.key : e \in {x \in Of(u) : x.key \in ks}}
LastOf(batch) == {i \in DOMAIN batch : \A j \in DOMAIN batch : j > i => batch[j].key # batch[i].key}
\* Wrong variant: the batch is only compared with itself.
Fresh_InBatch(u, batch) == {batch[i] : i \in LastOf(batch)}
Fresh(u, batch) ==
  {batch[i] : i \in {j \in LastOf(batch) : batch[j].key \notin Known(u, {x.key : x \in Range(batch)})}}

BulkBegin(r, u, batch) ==
  /\ call[r] = Idle
  /\ call' = [call EXCEPT ![r] = [op |-> "add", user |-> u, new |-> Fresh(u, batch)]]
  /\ strayed' = Crowd(r, u)
  /\ UNCHANGED <<entries, turned, lastId>>

AddCommit(r) ==
  /\ call[r].op = "add"
  /\ lastId + Cardinality(call[r].new) <= MaxIds
  /\ LET new == SetToSeq(call[r].new)
         Entry(i) == [id |-> lastId + i, user |-> call[r].user, key |-> new[i].key,
                      secret |-> new[i].secret, enc |-> Encrypted(new[i].secret)]
     IN /\ entries' = entries \cup {Entry(i) : i \in DOMAIN new}
        /\ lastId' = lastId + Len(new)
  /\ call' = [call EXCEPT ![r] = Idle]
  /\ UNCHANGED <<turned, strayed>>

(* ---- PATCH: any editor; key, text and secrecy are each given or not ---- *)
\* Wrong variant: a text given without secrecy is stored as it is.
Hidden_IfSaid(e, secret) == TRUE \in secret
Hidden(e, secret) == IF secret = {} THEN e.secret ELSE TRUE \in secret

(* secrecy as read here decides how a new text is stored ... *)
UpdateBegin(r, e, key, text, secret) ==
  /\ call[r] = Idle /\ e \in entries /\ key # {e.key}
  /\ call' = [call EXCEPT ![r] =
       [op |-> "update", user |-> e.user, id |-> e.id, key |-> key, text |-> text,
        secret |-> secret, seen |-> e.secret, hide |-> Hidden(e, secret)]]
  /\ strayed' = Crowd(r, e.user) \cup (IF key = {} THEN {} ELSE {e.user})
  /\ UNCHANGED <<entries, turned, lastId>>

Given(set, old) == IF set = {} THEN old ELSE CHOOSE x \in set : TRUE
(* ... a stored text stays as it is when only the secrecy changes, and *)
(* what is given and equals what was read is not written              *)
Updated(e, c) ==
  [e EXCEPT !.key = Given(c.key, e.key),
            !.secret = Given(c.secret \ {c.seen}, e.secret),
            !.enc = IF c.text THEN Encrypted(c.hide) ELSE e.enc]

UpdateCommit(r) ==
  LET c == call[r] IN
  /\ c.op = "update"
  /\ \E e \in entries :
       /\ e.id = c.id
       /\ entries' = (entries \ {e}) \cup {Updated(e, c)}
       /\ turned' = IF Updated(e, c).secret # e.secret \/ c.seen # e.secret
                    THEN turned \cup {e.id} ELSE turned
  /\ call' = [call EXCEPT ![r] = Idle]
  /\ UNCHANGED <<strayed, lastId>>

Abort(r) ==
  /\ call[r] # Idle /\ call' = [call EXCEPT ![r] = Idle]
  /\ UNCHANGED <<entries, turned, strayed, lastId>>

Delete(e) ==
  /\ e \in entries /\ entries' = entries \ {e}
  /\ UNCHANGED <<turned, call, strayed, lastId>>

Option(S) == {{}} \cup {{x} : x \in S}
Batches == [1..2 -> [key: Keys, secret: BOOLEAN]]

Next ==
  \/ \E r \in Requests : AddCommit(r) \/ UpdateCommit(r) \/ Abort(r)
  \/ \E r \in Requests, u \in Users, k \in Keys, s \in BOOLEAN : CreateBegin(r, u, k, s)
  \/ \E r \in Requests, u \in Users, batch \in Batches : BulkBegin(r, u, batch)
  \/ \E r \in Requests, e \in entries, key \in Option(Keys), text \in BOOLEAN,
        secret \in Option(BOOLEAN) : UpdateBegin(r, e, key, text, secret)
  \/ \E e \in entries : Delete(e)

Spec == Init /\ [][Next]_vars

-----------------------------------------------------------------------------
TypeOK ==
  /\ entries \subseteq [id: Id, user: Users, key: Keys, secret: BOOLEAN, enc: BOOLEAN]
  /\ \A d, e \in entries : d.id = e.id => d = e
  /\ turned \subseteq Id
  /\ strayed \subseteq Users /\ lastId \in 0..MaxIds

(* A user has two entries under one key, which every later request for that  *)
(* key answers with an error, only after overlapping requests or a PATCH of  *)
(* the key: bulk and single creation never make them, alone or in turn.      *)
TwinKeysNeedAnOverlap ==
  \A d, e \in entries : (d # e /\ d.user = e.user /\ d.key = e.key) => d.user \in strayed

(* As long as nobody turned an entry into a secret or back, its value is     *)
(* encrypted exactly if it is a secret, also when texts are changed without  *)
(* saying whether they are secret.                                           *)
KeptSecretsAreEncrypted ==
  \A e \in entries : e.id \notin turned => (e.enc <=> e.secret)

(* What AppInfoOperations.update says, and does not hold: "Encrypts the      *)
(* value if: The entry is being changed to a secret (is_secret=True)".       *)
SecretsAreEncrypted == \A e \in entries : e.secret => e.enc

(* What bulk_create_app_info says, and does not hold: "Entries with          *)
(* duplicate keys (already existing in the product) are skipped."            *)
KeyOncePerProduct == \A d, e \in entries : d.key = e.key => d = e
=============================================================================
