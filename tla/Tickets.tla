------------------------------ MODULE Tickets -------------------------------
(* Tickets sent in through the public interface: the key of a request is     *)
(* validated, the request is counted against the key's limit, an open ticket *)
(* with a similar title is looked for, and a work item is made; users of the *)
(* product complete, change and delete work items meanwhile.                 *)
(* (src/app/api/v1/public_tickets.py, work_items.py, mcp.py,                 *)
(* src/app/core/rate_limit.py, src/app/services/dedup.py,                    *)
(* src/app/domain/product_api_key_operations.py, work_item_operations.py,    *)
(* src/app/api/deps/api_key_auth.py)                                         *)
(*                                                                           *)
(* One product, one process.  A request is one transaction from the          *)
(* validation of its key on; the interpreter is asked in between.  Time is   *)
(* that since the machine was started.                                       *)
EXTENDS Integers, FiniteSets

CONSTANTS ApiKeys, Titles,
          Similar,    \* set of pairs of titles the database finds similar
          Requests,   \* overlapping requests
          Window,     \* the limit's window, also that of "last used"
          Limit,      \* requests of a key within a window
          MaxTime,    \* bound
          MaxItems    \* bound: work items ever made

VARIABLES now,
          live,      \* keys not revoked
          used,      \* used[k]: when k was last used, as stored
          wrote,     \* wrote[k]: when this process last wrote that
          recent,    \* recent[k]: requests counted for k, by time and number
          counted,   \* counted[k]: all that ever were (history)
          items,     \* rows [id, title, status]
          call,
          unsaid,    \* keys whose noted use was rolled back or written over
          strayed    \* why similar tickets may be open

vars == <<now, live, used, wrote, recent, counted, items, call, unsaid, strayed>>

Idle == [op |-> "idle"]
Alike(s, t) == s = t \/ <<s, t>> \in Similar \/ <<t, s>> \in Similar
Open(w) == w.status \notin {"completed", "deleted"}
Statuses == {"reported", "completed", "deleted"}
LastId == Cardinality(items)

Init == /\ now = 0 /\ live = ApiKeys
        /\ used = [k \in ApiKeys |-> 0] /\ wrote = [k \in ApiKeys |-> 0]
        /\ recent = [k \in ApiKeys |-> {}] /\ counted = [k \in ApiKeys |-> {}]
        /\ items = {} /\ call = [r \in Requests |-> Idle]
        /\ unsaid = {} /\ strayed = {}

(* ---- the key: unknown and revoked ones are refused; the time of use is  *)
(* written when the process has not written it for a window               *)
Due(k) == now - wrote[k] > Window
\* Wrong variant: the process notes every use, written or not.
Noted_Always(k) == now
Noted(k) == IF Due(k) THEN now ELSE wrote[k]

Begin(r, k, title) ==
  /\ call[r] = Idle /\ k \in live
  /\ wrote' = [wrote EXCEPT ![k] = Noted(k)]
  /\ call' = [call EXCEPT ![r] = [op |-> "validated", key |-> k, title |-> title,
                                  began |-> now, writes |-> Due(k)]]
  /\ UNCHANGED <<now, live, used, recent, counted, items, unsaid, strayed>>

(* ---- the limit: only counted requests stay in the window ---- *)
InWindow(cs) == {c \in cs : c.at > now - Window}
\* Wrong variant: a full window still takes one.
Full_Late(k) == Cardinality(InWindow(recent[k])) > Limit
Full(k) == Cardinality(InWindow(recent[k])) >= Limit

\* One more: requests of the same time are told apart by numbers.
Another(k) == [at |-> now, no |-> Cardinality({c \in counted[k] : c.at = now}) + 1]

Count(r) ==
  LET k == call[r].key IN
  /\ call[r].op = "validated" /\ ~Full(k)
  /\ recent' = [recent EXCEPT ![k] = InWindow(@) \cup {Another(k)}]
  /\ counted' = [counted EXCEPT ![k] = @ \cup {Another(k)}]
  /\ call' = [call EXCEPT ![r].op = "counted"]
  /\ UNCHANGED <<now, live, used, wrote, items, unsaid, strayed>>

(* every error ends the transaction: over the limit, without the scope, a   *)
(* wrong type, a failing interpreter; what the process noted of the key's   *)
(* use stays noted                                                          *)
Fail(r) ==
  /\ call[r] # Idle
  /\ unsaid' = IF call[r].writes THEN unsaid \cup {call[r].key} ELSE unsaid
  /\ call' = [call EXCEPT ![r] = Idle]
  /\ UNCHANGED <<now, live, used, wrote, recent, counted, items, strayed>>

(* ---- the search for an open ticket like this one ---- *)
\* Wrong variant: tickets that are not finished are not searched.
Duplicates_Finished(t) == {w \in items : ~Open(w) /\ Alike(w.title, t)}
Duplicates(t) == {w \in items : Open(w) /\ Alike(w.title, t)}

Search(r) ==
  LET t == call[r].title IN
  /\ call[r].op = "counted"
  /\ call' = [call EXCEPT ![r].op = IF Duplicates(t) = {} THEN "new" ELSE "known"]
  /\ strayed' = IF Duplicates(t) = {} /\ \E q \in Requests \ {r} : call[q].op = "new"
                THEN strayed \cup {"overlap"} ELSE strayed
  /\ UNCHANGED <<now, live, used, wrote, recent, counted, items, unsaid>>

(* the time written is that of the validation, however late the commit is *)
Used(r) ==
  LET k == call[r].key IN
  IF call[r].writes
  THEN /\ used' = [used EXCEPT ![k] = call[r].began]
       /\ unsaid' = IF call[r].began = wrote[k] THEN unsaid \ {k} ELSE unsaid \cup {k}
  ELSE UNCHANGED <<used, unsaid>>

(* a new ticket, or the answer that there is one *)
Answer(r) ==
  /\ call[r].op \in {"new", "known"}
  /\ \/ /\ call[r].op = "new" /\ LastId < MaxItems
        /\ items' = items \cup {[id |-> LastId + 1, title |-> call[r].title, status |-> "reported"]}
     \/ call[r].op = "known" /\ UNCHANGED items
  /\ Used(r)
  /\ call' = [call EXCEPT ![r] = Idle]
  /\ UNCHANGED <<now, live, wrote, recent, counted, strayed>>

(* ---- the product's users, and the MCP interface, which does not search ---- *)
CreateItem(t) ==
  /\ LastId < MaxItems
  /\ items' = items \cup {[id |-> LastId + 1, title |-> t, status |-> "reported"]}
  /\ strayed' = strayed \cup {"direct"}
  /\ UNCHANGED <<now, live, used, wrote, recent, counted, call, unsaid>>

(* completing, deleting (a mark) and changing a work item; nobody looks for *)
(* the status it had                                                        *)
ChangeItem(w, status) ==
  /\ w \in items /\ w.status # status
  /\ items' = (items \ {w}) \cup {[w EXCEPT !.status = status]}
  /\ strayed' = IF Open(w) THEN strayed ELSE strayed \cup {"reopened"}
  /\ UNCHANGED <<now, live, used, wrote, recent, counted, call, unsaid>>

Revoke(k) ==
  /\ k \in live /\ live' = live \ {k}
  /\ UNCHANGED <<now, used, wrote, recent, counted, items, call, unsaid, strayed>>

Tick ==
  /\ now < MaxTime /\ now' = now + 1
  /\ UNCHANGED <<live, used, wrote, recent, counted, items, call, unsaid, strayed>>

Next ==
  \/ \E r \in Requests : Count(r) \/ Fail(r) \/ Search(r) \/ Answer(r)
  \/ \E r \in Requests, k \in ApiKeys, t \in Titles : Begin(r, k, t)
  \/ \E t \in Titles : CreateItem(t)
  \/ \E w \in items, s \in Statuses : ChangeItem(w, s)
  \/ \E k \in ApiKeys : Revoke(k)
  \/ Tick

Spec == Init /\ [][Next]_vars

-----------------------------------------------------------------------------
TypeOK ==
  /\ now \in 0..MaxTime /\ live \subseteq ApiKeys
  /\ used \in [ApiKeys -> 0..MaxTime] /\ wrote \in [ApiKeys -> 0..MaxTime]
  /\ \A k \in ApiKeys : recent[k] \subseteq counted[k] /\ Cardinality(recent[k]) <= Limit
  /\ items \subseteq [id: 1..MaxItems, title: Titles, status: Statuses]
  /\ unsaid \subseteq ApiKeys /\ strayed \subseteq {"overlap", "direct", "reopened"}

(* Two open tickets are alike only when requests overlapped, a work item was *)
(* made directly or a finished one was opened again.                         *)
TwinTicketsAreExplained ==
  strayed = {} => \A v, w \in items : (Open(v) /\ Open(w) /\ Alike(v.title, w.title)) => v = w

(* However requests come in and fail, no window of time, whenever it ends,   *)
(* holds more counted requests of a key than the limit.                      *)
WindowsAreBounded ==
  \A k \in ApiKeys, end \in 0..MaxTime :
    Cardinality({c \in counted[k] : c.at > end - Window /\ c.at <= end}) <= Limit

(* The stored time of a key's last use is never more than a window older     *)
(* than a use that is answered, unless the write it relies on is still under *)
(* way, was rolled back, or an older one was committed after it.             *)
UnderWay(k) == \E q \in Requests : call[q] # Idle /\ call[q].key = k /\ call[q].writes
LastUseIsRecent ==
  [][\A r \in Requests : \A k \in ApiKeys :
       (call[r] # Idle /\ Answer(r) /\ k = call[r].key /\ k \notin unsaid' /\ ~UnderWay(k)')
         => used'[k] >= call[r].began - Window]_vars
=============================================================================
