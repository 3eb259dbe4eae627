------------------------------ MODULE JobView ------------------------------
(***************************************************************************)
(* What custom document generation promises to somebody who polls a job:   *)
(* the abstract specification that CustomDocJobs implements.  Workers, the *)
(* stages of their work and their crashes are invisible here; an answer is *)
(* a status together with whether a result and an error text come with it. *)
(***************************************************************************)
CONSTANT Jobs

VARIABLE answer  \* the answer of the status request, by job

Text(status, content, error) == [status |-> status, content |-> content, error |-> error]

NotFound  == Text("absent", FALSE, FALSE)
Waiting   == Text("generating", FALSE, FALSE)
Done      == Text("completed", TRUE, FALSE)
Broken    == Text("failed", FALSE, TRUE)
Cancelled == Text("cancelled", FALSE, FALSE)

Init == answer = [j \in Jobs |-> NotFound]

Becomes(j, new) == answer' = [answer EXCEPT ![j] = new]

Accept(j) == answer[j] = NotFound /\ Becomes(j, Waiting)

\* A cancelled job may still end with a result or an error, but only once: no
\* answer leads back to Waiting, and Done and Broken are final.
Complete(j) == answer[j] \in {Waiting, Cancelled} /\ Becomes(j, Done)

Fail(j) == answer[j] \in {Waiting, Cancelled} /\ Becomes(j, Broken)

Cancel(j) == answer[j] = Waiting /\ Becomes(j, Cancelled)

\* Rows may be removed, several at a time.
Remove ==
    \E gone \in SUBSET Jobs :
        answer' = [j \in Jobs |-> IF j \in gone THEN NotFound ELSE answer[j]]

Next ==
    \/ \E j \in Jobs : Accept(j) \/ Complete(j) \/ Fail(j) \/ Cancel(j)
    \/ Remove

Spec == Init /\ [][Next]_answer
=============================================================================
