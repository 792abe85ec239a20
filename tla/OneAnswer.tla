------------------------------ MODULE OneAnswer ------------------------------
(***************************************************************************)
(* What an idempotency key promises to those who deliver under it: there   *)
(* is at most one answer, made for one body, and it is final.  Every       *)
(* delivery of that body either gets exactly this answer or an error that  *)
(* invites another try; a delivery of another body never gets it.          *)
(***************************************************************************)
CONSTANTS Deliveries, Keys, Bodies, Responses, Errors, Conflict, None

VARIABLES
  key, body,   \* what each delivery carries, None before it arrives
  answer,      \* per key: the body it was made for and the response
  reply        \* what each delivery was told

vars == <<key, body, answer, reply>>

Init ==
  /\ key = [d \in Deliveries |-> None]
  /\ body = [d \in Deliveries |-> None]
  /\ answer = [k \in Keys |-> None]
  /\ reply = [d \in Deliveries |-> None]

Ask(d) ==
  /\ key[d] = None
  /\ \E k \in Keys, b \in Bodies :
       key' = [key EXCEPT ![d] = k] /\ body' = [body EXCEPT ![d] = b]
  /\ UNCHANGED <<answer, reply>>

\* One delivery's answer becomes the answer of its key.
Decide(d) ==
  /\ key[d] \in Keys
  /\ answer[key[d]] = None
  /\ \E r \in Responses :
       answer' = [answer EXCEPT ![key[d]] =
                    [request_hash |-> body[d], response |-> r]]
  /\ UNCHANGED <<key, body, reply>>

Tell(d) ==
  /\ key[d] \in Keys
  /\ reply[d] = None
  /\ answer[key[d]] # None
  /\ answer[key[d]].request_hash = body[d]
  /\ reply' = [reply EXCEPT ![d] = answer[key[d]].response]
  /\ UNCHANGED <<key, body, answer>>

\* A conflict is only claimed when the key was used with another body.
Refuse(d) ==
  /\ key[d] \in Keys
  /\ reply[d] = None
  /\ \E e \in Errors :
       /\ e = Conflict =>
            \E other \in Deliveries : key[other] = key[d] /\ body[other] # body[d]
       /\ reply' = [reply EXCEPT ![d] = e]
  /\ UNCHANGED <<key, body, answer>>

Next == \E d \in Deliveries : Ask(d) \/ Decide(d) \/ Tell(d) \/ Refuse(d)

Spec == Init /\ [][Next]_vars

=============================================================================
