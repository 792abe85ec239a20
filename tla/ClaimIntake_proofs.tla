-------------------------- MODULE ClaimIntake_proofs --------------------------
(***************************************************************************)
(* Proofs about ClaimIntake: for any number of deliveries, keys, bodies    *)
(* and tokens, one delivery works per key, the record follows the trio,    *)
(* and the intake implements OneAnswer.                                    *)
(***************************************************************************)
EXTENDS ClaimIntake, TLAPS

\* An answer that the trio and the intake row stand behind.
Recorded(r) ==
  \/ r \in {Ignored, NoSigningKey}
  \/ /\ r.claim \in Claims
     /\ trio[r.claim] = r.outcome /\ r.outcome \in Verdicts
     /\ claims_intake[r.claim] # None
     /\ claims_intake[r.claim].verdict = r.outcome

\* A delivery carries a key and a body from its arrival on, and is told
\* something once, at its end.
Arrived ==
  \A d \in Deliveries :
    /\ pc[d] = "idle" => key[d] = None /\ body[d] = None
    /\ pc[d] # "idle" => key[d] \in Keys /\ body[d] \in Bodies
    /\ pc[d] # "done" => reply[d] = None

\* The row of a key belongs to the delivery that works under it; a row was
\* made for a body delivered under its key.
Reserved ==
  /\ \A d \in Deliveries :
       /\ Working(d) => /\ Row(d) # None
                        /\ Row(d).request_hash = body[d]
                        /\ Row(d).response = None
       /\ pc[d] = "reply" => /\ Row(d) # None
                             /\ Row(d).request_hash = body[d]
                             /\ Row(d).response = result[d]
  /\ \A k \in Keys : idempotency_keys[k] # None =>
       \E e \in Deliveries :
         key[e] = k /\ body[e] = idempotency_keys[k].request_hash

\* A claim is recorded, and announced if its token can be decoded, before it
\* goes to the trio.
Announced ==
  /\ \A c \in wire : claims_intake[c] # None
  /\ \A d \in Deliveries : pc[d] \in {"submit", "await", "record"} =>
       claims_intake[ClaimOf(d)] # None
  /\ \A c \in Claims :
       claims_intake[c] # None /\ claims_intake[c].token \notin Garbage
         => c \in claimed

\* Whatever is on its way to a caller is recorded.
Told ==
  \A d \in Deliveries :
    /\ pc[d] = "record" =>
         /\ result[d] = Response(ClaimOf(d), trio[ClaimOf(d)])
         /\ trio[ClaimOf(d)] \in Verdicts
    /\ pc[d] \in {"store", "reply"} =>
         result[d] \in Responses /\ Recorded(result[d])
    /\ reply[d] # None => reply[d] \in Errors \/ Recorded(reply[d])

StoredIsRecorded ==
  \A k \in Keys : idempotency_keys[k] # None =>
    \/ idempotency_keys[k].response = None
    \/ Recorded(idempotency_keys[k].response)

Inv ==
  /\ TypeOK /\ Arrived /\ OneWorkerPerKey /\ Reserved
  /\ IntakeFollowsTrio /\ Announced /\ Told /\ StoredIsRecorded

-----------------------------------------------------------------------------
\* Claims are deliveries or formed claims.
LEMMA ClaimType ==
  ASSUME TypeOK, Arrived, NEW d \in Deliveries, pc[d] # "idle"
  PROVE  ClaimOf(d) \in Claims
BY BodiesAssumption DEF TypeOK, Arrived, ClaimOf, Claims

\* Nothing has arrived at first.
LEMMA InvInit == Init => Inv
<1> SUFFICES ASSUME Init PROVE Inv
  OBVIOUS
<1>1. TypeOK
  BY DEF Init, TypeOK, Stages
<1>2. Arrived /\ OneWorkerPerKey /\ Reserved
  BY DEF Init, Arrived, OneWorkerPerKey, Reserved, Working
<1>3. IntakeFollowsTrio /\ Announced
  BY NoneAssumption DEF Init, IntakeFollowsTrio, Announced, Verdicts
<1>4. Told /\ StoredIsRecorded
  BY DEF Init, Told, StoredIsRecorded
<1> QED
  BY <1>1, <1>2, <1>3, <1>4 DEF Inv

\* What is recorded stays so while the intake rows and the trio stand still.
LEMMA RecordsStand ==
  ASSUME Inv, UNCHANGED <<claims_intake, claimed, trio>>
  PROVE  /\ IntakeFollowsTrio'
         /\ \A r : Recorded(r)' <=> Recorded(r)
<1>1. IntakeFollowsTrio'
  BY DEF Inv, IntakeFollowsTrio
<1>2. \A r : Recorded(r)' <=> Recorded(r)
  BY DEF Recorded
<1> QED
  BY <1>1, <1>2

\* A request arrives.
LEMMA ReceiveStep ==
  ASSUME Inv, NEW d \in Deliveries, Receive(d)
  PROVE  Inv'
<1> USE DEF Inv
<1>1. PICK k \in Keys, b \in Bodies :
        /\ pc[d] = "idle"
        /\ key' = [key EXCEPT ![d] = k] /\ body' = [body EXCEPT ![d] = b]
        /\ pc' = [pc EXCEPT ![d] = "reserve"]
        /\ UNCHANGED <<tables, wire, trio, result, reply>>
  BY DEF Receive, Goto
<1>2. TypeOK'
  BY <1>1 DEF TypeOK, tables, Stages
<1>3. Arrived'
  BY <1>1 DEF TypeOK, Arrived
<1>4. OneWorkerPerKey'
  BY <1>1 DEF TypeOK, OneWorkerPerKey, Working
<1>5. Reserved'
  BY <1>1, NoneAssumption DEF TypeOK, Arrived, Reserved, Working, Row, tables
<1>6. Announced'
  BY <1>1 DEF TypeOK, Announced, ClaimOf, tables
<1>7. IntakeFollowsTrio' /\ Told' /\ StoredIsRecorded'
  BY <1>1, RecordsStand DEF TypeOK, Told, StoredIsRecorded, ClaimOf, tables
<1> QED
  BY <1>2, <1>3, <1>4, <1>5, <1>6, <1>7

\* A delivery that only moves, and does not start to work or to return.
LEMMA MoveStep ==
  ASSUME Inv, NEW d \in Deliveries, pc[d] # "idle", pc[d] # "done",
         NEW stage \in {"reserve", "read", "release", "crashed"}, Goto(d, stage),
         stage = "release" => Working(d),
         UNCHANGED <<tables, wire, trio, key, body, result, reply>>
  PROVE  Inv'
<1> USE DEF Inv
<1>1. pc' = [pc EXCEPT ![d] = stage]
  BY DEF Goto
<1>2. TypeOK'
  BY <1>1 DEF TypeOK, tables, Stages
<1>3. Arrived'
  BY <1>1 DEF TypeOK, Arrived
<1>4. OneWorkerPerKey'
  BY <1>1 DEF TypeOK, OneWorkerPerKey, Working
<1>5. Reserved'
  BY <1>1 DEF TypeOK, Reserved, Working, Row, tables
<1>6. Announced'
  BY <1>1 DEF TypeOK, Announced, ClaimOf, tables
<1>7. IntakeFollowsTrio' /\ Told' /\ StoredIsRecorded'
  BY <1>1, RecordsStand DEF TypeOK, Told, StoredIsRecorded, ClaimOf, tables
<1> QED
  BY <1>2, <1>3, <1>4, <1>5, <1>6, <1>7

\* A delivery that ends with an error or a recorded answer and changes no row.
LEMMA AnswerStep ==
  ASSUME Inv, NEW d \in Deliveries, NEW response \in Responses \cup Errors,
         pc[d] # "idle",
         response \in Errors \/ Recorded(response),
         Answer(d, response),
         UNCHANGED <<tables, wire, trio, key, body, result>>
  PROVE  Inv'
<1> USE DEF Inv
<1>1. /\ pc' = [pc EXCEPT ![d] = "done"]
      /\ reply' = [reply EXCEPT ![d] = response]
  BY DEF Answer, Goto
<1>2. TypeOK'
  BY <1>1 DEF TypeOK, tables, Stages
<1>3. Arrived'
  BY <1>1 DEF TypeOK, Arrived
<1>4. OneWorkerPerKey'
  BY <1>1 DEF TypeOK, OneWorkerPerKey, Working
<1>5. Reserved'
  BY <1>1 DEF TypeOK, Reserved, Working, Row, tables
<1>6. Announced'
  BY <1>1 DEF TypeOK, Announced, ClaimOf, tables
<1>7. IntakeFollowsTrio' /\ StoredIsRecorded'
  BY <1>1, RecordsStand DEF StoredIsRecorded, tables
<1>8. Told'
  BY <1>1, RecordsStand DEF TypeOK, Told, ClaimOf, tables
<1> QED
  BY <1>2, <1>3, <1>4, <1>5, <1>6, <1>7, <1>8

\* The winner of the key starts to work.
LEMMA ReserveStep ==
  ASSUME Inv, NEW d \in Deliveries, Reserve(d)
  PROVE  Inv'
<1> USE DEF Inv
<1> DEFINE row == [request_hash |-> body[d], response |-> None]
<1>1. /\ pc[d] = "reserve" /\ Row(d) = None
      /\ pc' = [pc EXCEPT ![d] = "work"]
      /\ idempotency_keys' = [idempotency_keys EXCEPT ![key[d]] = row]
      /\ UNCHANGED <<claims_intake, claimed, wire, trio, key, body,
                     result, reply>>
  BY DEF Reserve, Goto, SetRow
<1>2. key[d] \in Keys /\ body[d] \in Bodies /\ row \in KeyRows /\ row # None
  BY <1>1, NoneAssumption DEF Arrived, KeyRows
<1>3. TypeOK'
  BY <1>1, <1>2 DEF TypeOK, Stages
<1>4. Arrived'
  BY <1>1 DEF TypeOK, Arrived
<1>5. \A e \in Deliveries : Working(e) \/ pc[e] = "reply" => key[e] # key[d]
  BY <1>1 DEF Reserved, Row
<1>6. OneWorkerPerKey'
  BY <1>1, <1>5 DEF TypeOK, OneWorkerPerKey, Working
<1>7. Reserved'
  BY <1>1, <1>2, <1>5 DEF TypeOK, Reserved, Working, Row
<1>8. Announced'
  BY <1>1 DEF TypeOK, Announced, ClaimOf
<1>9. IntakeFollowsTrio' /\ Told'
  BY <1>1, RecordsStand DEF TypeOK, Told, ClaimOf
<1>10. StoredIsRecorded'
  BY <1>1, <1>2, RecordsStand DEF TypeOK, StoredIsRecorded
<1> QED
  BY <1>3, <1>4, <1>6, <1>7, <1>8, <1>9, <1>10

\* work() threw, and the pending row goes.
LEMMA ReleaseStep ==
  ASSUME Inv, NEW d \in Deliveries, Release(d)
  PROVE  Inv'
<1> USE DEF Inv
<1>1. /\ pc[d] = "release" /\ Working(d)
      /\ Row(d) # None /\ Row(d).response = None
      /\ key[d] \in Keys
  BY DEF Release, Working, Reserved, Arrived
<1>2. /\ pc' = [pc EXCEPT ![d] = "done"]
      /\ reply' = [reply EXCEPT ![d] = Failed]
      /\ idempotency_keys' = [idempotency_keys EXCEPT ![key[d]] = None]
      /\ UNCHANGED <<claims_intake, claimed, wire, trio, key, body,
                     result>>
  BY <1>1 DEF Release, Answer, Goto, SetRow
<1>3. TypeOK'
  BY <1>2 DEF TypeOK, Stages, Errors
<1>4. Arrived'
  BY <1>1, <1>2 DEF TypeOK, Arrived
<1>5. OneWorkerPerKey'
  BY <1>2 DEF TypeOK, OneWorkerPerKey, Working
<1>6. \A e \in Deliveries :
        e # d /\ (Working(e) \/ pc[e] = "reply") => key[e] # key[d]
  <2>1. \A e \in Deliveries : e # d /\ Working(e) => key[e] # key[d]
    BY <1>1 DEF OneWorkerPerKey
  <2>2. \A e \in Deliveries : pc[e] = "reply" => result[e] # None
    BY NoneAssumption DEF Told
  <2>3. \A e \in Deliveries : pc[e] = "reply" => key[e] # key[d]
    BY <1>1, <2>2 DEF Reserved, Row
  <2> QED
    BY <2>1, <2>3
<1>7. Reserved'
  BY <1>1, <1>2, <1>6 DEF TypeOK, Reserved, Working, Row
<1>8. Announced'
  BY <1>2 DEF TypeOK, Announced, ClaimOf
<1>9. IntakeFollowsTrio' /\ Told'
  BY <1>2, RecordsStand DEF TypeOK, Told, ClaimOf, Errors
<1>10. StoredIsRecorded'
  BY <1>1, <1>2, RecordsStand DEF TypeOK, StoredIsRecorded
<1> QED
  BY <1>3, <1>4, <1>5, <1>7, <1>8, <1>9, <1>10

\* The winner fills its row in.
LEMMA StoreStep ==
  ASSUME Inv, NEW d \in Deliveries, StoreResponse(d)
  PROVE  Inv'
<1> USE DEF Inv
<1> DEFINE row == [Row(d) EXCEPT !.response = result[d]]
<1>1. /\ pc[d] = "store" /\ Working(d)
      /\ Row(d) # None /\ Row(d).response = None
      /\ Row(d).request_hash = body[d]
      /\ key[d] \in Keys /\ Row(d) \in KeyRows
      /\ result[d] \in Responses /\ Recorded(result[d])
  BY DEF StoreResponse, Working, Reserved, Arrived, Told, TypeOK, Row
<1>2. /\ pc' = [pc EXCEPT ![d] = "reply"]
      /\ idempotency_keys' = [idempotency_keys EXCEPT ![key[d]] = row]
      /\ UNCHANGED <<claims_intake, claimed, wire, trio, key, body,
                     result, reply>>
  BY <1>1 DEF StoreResponse, Goto, SetRow
<1>3. /\ row \in KeyRows /\ row # None
      /\ row.request_hash = body[d] /\ row.response = result[d]
  BY <1>1, NoneAssumption DEF KeyRows
<1>4. TypeOK'
  BY <1>2, <1>3 DEF TypeOK, Stages
<1>5. Arrived'
  BY <1>1, <1>2 DEF TypeOK, Arrived
<1>6. OneWorkerPerKey'
  BY <1>2 DEF TypeOK, OneWorkerPerKey, Working
<1>7. \A e \in Deliveries :
        e # d /\ (Working(e) \/ pc[e] = "reply") => key[e] # key[d]
  <2>1. \A e \in Deliveries : e # d /\ Working(e) => key[e] # key[d]
    BY <1>1 DEF OneWorkerPerKey
  <2>2. \A e \in Deliveries : pc[e] = "reply" => result[e] # None
    BY NoneAssumption DEF Told
  <2>3. \A e \in Deliveries : pc[e] = "reply" => key[e] # key[d]
    BY <1>1, <2>2 DEF Reserved, Row
  <2> QED
    BY <2>1, <2>3
<1> HIDE DEF row
<1>8. Reserved'
  BY <1>1, <1>2, <1>3, <1>7 DEF TypeOK, Reserved, Working, Row
<1>9. Announced'
  BY <1>2 DEF TypeOK, Announced, ClaimOf
<1>10. IntakeFollowsTrio' /\ Told'
  BY <1>1, <1>2, RecordsStand DEF TypeOK, Told, ClaimOf
<1>11. StoredIsRecorded'
  BY <1>1, <1>2, <1>3, RecordsStand DEF TypeOK, StoredIsRecorded
<1> QED
  BY <1>4, <1>5, <1>6, <1>8, <1>9, <1>10, <1>11

\* work() returns without a claim.
LEMMA ReturnStep ==
  ASSUME Inv, NEW d \in Deliveries, pc[d] = "work",
         NEW response \in {Ignored, NoSigningKey}, Return(d, response),
         UNCHANGED <<tables, wire, trio, key, body, reply>>
  PROVE  Inv'
<1> USE DEF Inv
<1>1. /\ pc' = [pc EXCEPT ![d] = "store"]
      /\ result' = [result EXCEPT ![d] = response]
      /\ response \in Responses /\ Recorded(response)
  BY DEF Return, Goto, Responses, Recorded
<1>2. TypeOK'
  BY <1>1 DEF TypeOK, tables, Stages
<1>3. Arrived'
  BY <1>1 DEF TypeOK, Arrived
<1>4. OneWorkerPerKey'
  BY <1>1 DEF TypeOK, OneWorkerPerKey, Working
<1>5. Reserved'
  BY <1>1 DEF TypeOK, Reserved, Working, Row, tables
<1>6. Announced'
  BY <1>1 DEF TypeOK, Announced, ClaimOf, tables
<1>7. IntakeFollowsTrio' /\ StoredIsRecorded'
  BY <1>1, RecordsStand DEF StoredIsRecorded, tables
<1>8. Told'
  BY <1>1, RecordsStand DEF TypeOK, Told, ClaimOf, tables
<1> QED
  BY <1>2, <1>3, <1>4, <1>5, <1>6, <1>7, <1>8

\* The claim is recorded and announced.
LEMMA RecordClaimStep ==
  ASSUME Inv, NEW d \in Deliveries, RecordClaim(d)
  PROVE  Inv'
<1> USE DEF Inv
<1> DEFINE c == ClaimOf(d)
           row == [token |-> body[d].token, verdict |-> "pending"]
<1>1. /\ pc[d] = "work" /\ claims_intake[c] = None
      /\ body[d].token # None
      /\ pc' = [pc EXCEPT ![d] = "submit"]
      /\ claims_intake' = [claims_intake EXCEPT ![c] = row]
      /\ claimed' = claimed \cup (IF body[d].token \in Garbage THEN {} ELSE {c})
      /\ UNCHANGED <<idempotency_keys, wire, trio, key, body,
                     result, reply>>
  BY DEF RecordClaim, Recordable, Goto
<1>2. c \in Claims
  BY <1>1, ClaimType
<1>3. row \in IntakeRows /\ row # None
  <2>1. body[d] \in Bodies
    BY <1>1 DEF Arrived
  <2>2. body[d].token \in Tokens
    BY <1>1, <2>1, BodiesAssumption
  <2> QED
    BY <2>2, NoneAssumption DEF IntakeRows
<1>4. trio[c] = None /\ c \notin wire
  BY <1>1, <1>2 DEF IntakeFollowsTrio, Announced
<1>5. \A e \in Deliveries : ClaimOf(e)' = ClaimOf(e)
  BY <1>1 DEF ClaimOf
<1>6. \A r : Recorded(r) => Recorded(r)'
  BY <1>1, <1>2 DEF Recorded, TypeOK
<1>7. row.token = body[d].token /\ row.verdict = "pending"
  OBVIOUS
<1> HIDE DEF c, row
<1>8. TypeOK'
  BY <1>1, <1>2, <1>3 DEF TypeOK, Stages
<1>9. Arrived'
  BY <1>1 DEF TypeOK, Arrived
<1>10. OneWorkerPerKey'
  BY <1>1 DEF TypeOK, OneWorkerPerKey, Working
<1>11. Reserved'
  BY <1>1 DEF TypeOK, Reserved, Working, Row
<1>12. Announced'
  <2>1. \A x \in wire' : claims_intake'[x] # None
    BY <1>1, <1>2, <1>3 DEF Announced, TypeOK
  <2>2. \A e \in Deliveries : pc'[e] \in {"submit", "await", "record"} =>
          claims_intake'[ClaimOf(e)] # None
    BY <1>1, <1>2, <1>3 DEF Announced, TypeOK, c
  <2>3. \A x \in Claims :
          claims_intake'[x] # None /\ claims_intake'[x].token \notin Garbage
            => x \in claimed'
    BY <1>1, <1>2, <1>7 DEF Announced, TypeOK
  <2> QED
    BY <2>1, <2>2, <2>3, <1>5 DEF Announced
<1>13. IntakeFollowsTrio'
  BY <1>1, <1>2, <1>3, <1>4, <1>7, NoneAssumption DEF IntakeFollowsTrio, TypeOK, Verdicts
<1>14. Told'
  BY <1>1, <1>5, <1>6 DEF Told, TypeOK
<1>15. StoredIsRecorded'
  BY <1>1, <1>6 DEF StoredIsRecorded
<1> QED
  BY <1>8, <1>9, <1>10, <1>11, <1>12, <1>13, <1>14, <1>15

\* The claim goes out.
LEMMA SubmitStep ==
  ASSUME Inv, NEW d \in Deliveries, Submit(d)
  PROVE  Inv'
<1> USE DEF Inv
<1>1. /\ pc[d] = "submit"
      /\ pc' = [pc EXCEPT ![d] = "await"]
      /\ wire' = wire \cup {ClaimOf(d)}
      /\ UNCHANGED <<tables, trio, key, body, result, reply>>
  BY DEF Submit, Goto
<1>2. ClaimOf(d) \in Claims
  BY <1>1, ClaimType
<1>3. TypeOK'
  BY <1>1, <1>2 DEF TypeOK, tables, Stages
<1>4. Arrived' /\ OneWorkerPerKey'
  BY <1>1 DEF TypeOK, Arrived, OneWorkerPerKey, Working
<1>5. Reserved'
  BY <1>1 DEF TypeOK, Reserved, Working, Row, tables
<1>6. Announced'
  BY <1>1 DEF TypeOK, Announced, ClaimOf, tables
<1>7. IntakeFollowsTrio' /\ Told' /\ StoredIsRecorded'
  BY <1>1, RecordsStand DEF TypeOK, Told, StoredIsRecorded, ClaimOf, tables
<1> QED
  BY <1>3, <1>4, <1>5, <1>6, <1>7

\* The verdict comes back in time.
LEMMA ReceiveVerdictStep ==
  ASSUME Inv, NEW d \in Deliveries, ReceiveVerdict(d)
  PROVE  Inv'
<1> USE DEF Inv
<1> DEFINE r == Response(ClaimOf(d), trio[ClaimOf(d)])
<1>1. /\ pc[d] = "await" /\ trio[ClaimOf(d)] # None
      /\ result' = [result EXCEPT ![d] = r]
      /\ pc' = [pc EXCEPT ![d] = "record"]
      /\ UNCHANGED <<tables, wire, trio, key, body, reply>>
  BY DEF ReceiveVerdict, Goto
<1>2. ClaimOf(d) \in Claims
  BY <1>1, ClaimType
<1>3. trio[ClaimOf(d)] \in Verdicts
  BY <1>1, <1>2 DEF TypeOK
<1>4. r \in Responses
  BY <1>2, <1>3 DEF Responses
<1>5. TypeOK'
  BY <1>1, <1>4 DEF TypeOK, tables, Stages
<1>6. Arrived' /\ OneWorkerPerKey'
  BY <1>1 DEF TypeOK, Arrived, OneWorkerPerKey, Working
<1>7. Reserved'
  BY <1>1 DEF TypeOK, Reserved, Working, Row, tables
<1>8. Announced'
  BY <1>1 DEF TypeOK, Announced, ClaimOf, tables
<1>9. IntakeFollowsTrio' /\ StoredIsRecorded'
  BY <1>1, RecordsStand DEF StoredIsRecorded, tables
<1>10. Told'
  BY <1>1, <1>3, RecordsStand DEF TypeOK, Told, ClaimOf, tables
<1> QED
  BY <1>5, <1>6, <1>7, <1>8, <1>9, <1>10

\* The intake row takes the verdict.
LEMMA RecordVerdictStep ==
  ASSUME Inv, NEW d \in Deliveries, RecordVerdict(d)
  PROVE  Inv'
<1> USE DEF Inv
<1> DEFINE c == ClaimOf(d)
           row == [claims_intake[c] EXCEPT !.verdict = trio[c]]
<1>1. /\ pc[d] = "record"
      /\ result[d] = Response(c, trio[c]) /\ trio[c] \in Verdicts
      /\ c \in Claims /\ claims_intake[c] # None
  BY ClaimType DEF RecordVerdict, Told, Announced
<1>2. result[d].claim = c /\ result[d].outcome = trio[c]
  BY <1>1 DEF Response
<1>3. claims_intake[c] \in IntakeRows
  BY <1>1 DEF TypeOK
<1>4. /\ row \in IntakeRows /\ row # None
      /\ row.token = claims_intake[c].token /\ row.verdict = trio[c]
  BY <1>1, <1>3, NoneAssumption DEF IntakeRows
<1>5. /\ pc' = [pc EXCEPT ![d] = "store"]
      /\ claims_intake' = [claims_intake EXCEPT ![c] = row]
      /\ UNCHANGED <<idempotency_keys, claimed, wire, trio, key,
                     body, result, reply>>
  BY <1>2 DEF RecordVerdict, Goto
<1>6. \A e \in Deliveries : ClaimOf(e)' = ClaimOf(e)
  BY <1>5 DEF ClaimOf
<1> HIDE DEF row, c
<1>7. claims_intake'[c] = row /\ \A x \in Claims : x # c => claims_intake'[x] = claims_intake[x]
  BY <1>1, <1>5 DEF TypeOK
<1>8. \A r : Recorded(r) => Recorded(r)'
  BY <1>4, <1>5, <1>7 DEF Recorded
<1>9. Recorded(result[d])'
  BY <1>1, <1>2, <1>4, <1>5, <1>7 DEF Recorded
<1>10. result[d] \in Responses
  BY <1>1 DEF Responses
<1>11. TypeOK'
  BY <1>1, <1>4, <1>5 DEF TypeOK, Stages
<1>12. Arrived' /\ OneWorkerPerKey'
  BY <1>1, <1>5 DEF TypeOK, Arrived, OneWorkerPerKey, Working
<1>13. Reserved'
  BY <1>1, <1>5 DEF TypeOK, Reserved, Working, Row
<1>14. Announced'
  <2>1. \A x \in Claims : claims_intake[x] # None => claims_intake'[x] # None
    BY <1>4, <1>7
  <2>2. \A e \in Deliveries : pc[e] # "idle" => ClaimOf(e) \in Claims
    BY ClaimType
  <2>3. \A e \in Deliveries : pc'[e] \in {"submit", "await", "record"} =>
          claims_intake'[ClaimOf(e)] # None
    BY <1>1, <1>5, <2>1, <2>2 DEF Announced, TypeOK
  <2>4. \A x \in wire' : claims_intake'[x] # None
    BY <1>5, <2>1 DEF Announced, TypeOK
  <2>5. \A x \in Claims :
          claims_intake'[x] # None /\ claims_intake'[x].token \notin Garbage
            => x \in claimed'
    BY <1>1, <1>4, <1>5, <1>7 DEF Announced
  <2> QED
    BY <2>3, <2>4, <2>5, <1>6 DEF Announced
<1>15. IntakeFollowsTrio'
  BY <1>1, <1>4, <1>5, <1>7 DEF IntakeFollowsTrio
<1>16. Told'
  BY <1>1, <1>5, <1>6, <1>8, <1>9, <1>10 DEF Told, TypeOK
<1>17. StoredIsRecorded'
  BY <1>5, <1>8 DEF StoredIsRecorded
<1> QED
  BY <1>11, <1>12, <1>13, <1>14, <1>15, <1>16, <1>17

\* The trio decides.
LEMMA TrioStep ==
  ASSUME Inv, NEW c \in Claims, TrioVerifies(c)
  PROVE  Inv'
<1> USE DEF Inv
<1>1. PICK verdict \in Verdicts :
        /\ c \in wire /\ wire' = wire \ {c}
        /\ verdict = "verified" => claims_intake[c].token \notin Garbage
        /\ trio' = [trio EXCEPT ![c] = IF @ = None THEN verdict ELSE @]
        /\ UNCHANGED <<tables, pc, key, body, result, reply>>
  BY DEF TrioVerifies
<1>2. \A x \in Claims : trio[x] # None => trio'[x] = trio[x]
  BY <1>1 DEF TypeOK
<1>3. \A r : Recorded(r) => Recorded(r)'
  BY <1>1, <1>2, NoneAssumption DEF Recorded, tables
<1>4. TypeOK'
  BY <1>1 DEF TypeOK, tables
<1>5. Arrived' /\ OneWorkerPerKey'
  BY <1>1 DEF Arrived, OneWorkerPerKey, Working
<1>6. Reserved'
  BY <1>1 DEF Reserved, Working, Row, tables
<1>7. Announced'
  BY <1>1 DEF Announced, ClaimOf, tables
<1>8. IntakeFollowsTrio'
  <2>1. claims_intake[c] # None /\ (claims_intake[c].token \notin Garbage => c \in claimed)
    BY <1>1 DEF Announced
  <2>2. trio'[c] = IF trio[c] = None THEN verdict ELSE trio[c]
    BY <1>1 DEF TypeOK
  <2>3. claims_intake[c].verdict \in {"pending"} \cup Verdicts
    BY <2>1 DEF TypeOK, IntakeRows
  <2>4. \A x \in Claims : x # c => trio'[x] = trio[x]
    BY <1>1 DEF TypeOK
  <2>5. claims_intake[c].verdict \in {"pending", trio'[c]}
    BY <2>1, <2>2, <2>3, NoneAssumption DEF IntakeFollowsTrio
  <2>6. trio'[c] = "verified" => c \in claimed
    BY <1>1, <2>1, <2>2 DEF IntakeFollowsTrio
  <2> QED
    BY <1>1, <2>1, <2>4, <2>5, <2>6 DEF IntakeFollowsTrio, tables
<1>9. Told'
  <2>1. \A e \in Deliveries : pc[e] # "idle" => ClaimOf(e) \in Claims
    BY ClaimType
  <2>2. \A e \in Deliveries : ClaimOf(e)' = ClaimOf(e)
    BY <1>1 DEF ClaimOf
  <2>3. \A e \in Deliveries : pc[e] = "record" => trio'[ClaimOf(e)] = trio[ClaimOf(e)]
    BY <1>2, <2>1, NoneAssumption DEF Told
  <2> QED
    BY <1>1, <1>3, <2>2, <2>3 DEF Told
<1>10. StoredIsRecorded'
  BY <1>1, <1>3 DEF StoredIsRecorded, tables
<1> QED
  BY <1>4, <1>5, <1>6, <1>7, <1>8, <1>9, <1>10

\* Every step of a delivery keeps the invariant.
LEMMA ServeStep ==
  ASSUME Inv, NEW d \in Deliveries, Serve(d)
  PROVE  Inv'
<1>1. CASE Reserve(d)
  BY <1>1, ReserveStep
<1>2. CASE LoseReservation(d) \/ FindReleased(d) \/ WaitForWinner(d)
  <2>1. \E stage \in {"read", "reserve"} : Goto(d, stage)
    BY <1>2 DEF LoseReservation, FindReleased, WaitForWinner
  <2>2. pc[d] \in {"reserve", "read"}
    BY <1>2 DEF LoseReservation, FindReleased, WaitForWinner, Pending
  <2>3. UNCHANGED <<tables, wire, trio, key, body, result, reply>>
    BY <1>2 DEF LoseReservation, FindReleased, WaitForWinner
  <2> QED
    BY <2>1, <2>2, <2>3, MoveStep
<1>3. CASE RefuseConflict(d) \/ GiveUp(d) \/ FailQuery(d)
  BY <1>3, AnswerStep DEF RefuseConflict, GiveUp, Pending, FailQuery, Errors
<1>4. CASE Replay(d)
  <2>1. pc[d] = "read" /\ Row(d) # None /\ Row(d).response # None
    BY <1>4 DEF Replay
  <2>2. key[d] \in Keys
    BY <2>1 DEF Inv, Arrived
  <2>3. Row(d).response \in Responses /\ Recorded(Row(d).response)
    BY <2>1, <2>2 DEF Inv, TypeOK, Row, KeyRows, StoredIsRecorded
  <2> QED
    BY <1>4, <2>3, AnswerStep DEF Replay
<1>5. CASE DropTokenless(d) \/ RefuseUnsigned(d)
  BY <1>5, ReturnStep DEF DropTokenless, RefuseUnsigned
<1>6. CASE RecordClaim(d)
  BY <1>6, RecordClaimStep
<1>7. CASE Submit(d)
  BY <1>7, SubmitStep
<1>8. CASE ReceiveVerdict(d)
  BY <1>8, ReceiveVerdictStep
<1>9. CASE RecordVerdict(d)
  BY <1>9, RecordVerdictStep
<1>10. CASE FailWork(d)
  BY <1>10, MoveStep DEF FailWork, Working
<1>11. CASE Release(d)
  BY <1>11, ReleaseStep
<1>12. CASE StoreResponse(d)
  BY <1>12, StoreStep
<1>13. CASE SendReply(d)
  BY <1>13, AnswerStep DEF SendReply, Inv, Told
<1> QED
  BY <1>1, <1>2, <1>3, <1>4, <1>5, <1>6, <1>7, <1>8, <1>9, <1>10, <1>11,
     <1>12, <1>13 DEF Serve

\* Every step keeps the invariant.
LEMMA InvNext == Inv /\ [Next]_vars => Inv'
<1> SUFFICES ASSUME Inv, [Next]_vars PROVE Inv'
  OBVIOUS
<1>1. CASE \E d \in Deliveries : Receive(d)
  BY <1>1, ReceiveStep
<1>2. CASE \E d \in Deliveries : Serve(d)
  BY <1>2, ServeStep
<1>3. CASE \E d \in Deliveries : Crash(d)
  <2>1. PICK d \in Deliveries : Crash(d)
    BY <1>3
  <2>2. pc[d] # "idle" /\ pc[d] # "done" /\ Goto(d, "crashed")
    BY <2>1 DEF Crash
  <2>3. UNCHANGED <<tables, wire, trio, key, body, result, reply>>
    BY <2>1 DEF Crash
  <2> QED
    BY <2>2, <2>3, MoveStep
<1>4. CASE \E c \in Claims : TrioVerifies(c)
  BY <1>4, TrioStep
<1>5. CASE UNCHANGED vars
  BY <1>5 DEF vars, Inv, TypeOK, Arrived, OneWorkerPerKey, Working,
     Reserved, Row, IntakeFollowsTrio, Announced, ClaimOf, Told, Recorded,
     StoredIsRecorded, tables
<1> QED
  BY <1>1, <1>2, <1>3, <1>4, <1>5 DEF Next

\* The inductive invariant holds in every reachable state.
THEOREM Invariant == Spec => []Inv
<1> QED
  BY InvInit, InvNext, PTL DEF Spec

\* Only one delivery of a key runs the funnel at a time (idempotency.ts).
THEOREM OneWorkerCorrect == Spec => []OneWorkerPerKey
<1>1. Inv => OneWorkerPerKey
  BY DEF Inv
<1> QED
  BY <1>1, Invariant, PTL

\* The tables keep their types: no error is ever stored as an answer.
THEOREM TypeCorrect == Spec => []TypeOK
<1>1. Inv => TypeOK
  BY DEF Inv
<1> QED
  BY <1>1, Invariant, PTL

\* Intake rows and ledger follow the trio, late verdicts and lost answers
\* included (processor.ts).
THEOREM IntakeCorrect == Spec => []IntakeFollowsTrio
<1>1. Inv => IntakeFollowsTrio
  BY DEF Inv
<1> QED
  BY <1>1, Invariant, PTL

\* A verdict that a caller was told is the trio's and can be read back.
THEOREM AnswersCorrect == Spec => []AnsweredIsRecorded
<1>1. Inv => AnsweredIsRecorded
  BY DEF Inv, Told, Recorded, AnsweredIsRecorded
<1> QED
  BY <1>1, Invariant, PTL

-----------------------------------------------------------------------------
(***************************************************************************)
(* The refinement.  The answer of a key is its row once it has a response. *)
(***************************************************************************)

\* Rows that are not answered yet, or are released, are no answers.
LEMMA AnswersStand ==
  ASSUME Inv, NEW d \in Deliveries, key[d] \in Keys, NEW row,
         Row(d) = None \/ Row(d).response = None,
         row = None \/ row.response = None,
         SetRow(d, row)
  PROVE  Answers' = Answers
BY DEF Answers, SetRow, Row, Inv, TypeOK

\* A delivery that reaches its end tells its caller the answer or an error.
LEMMA TellStep ==
  ASSUME Inv, NEW d \in Deliveries, pc[d] \notin {"idle", "done"},
         Row(d) # None, Row(d).response # None, Row(d).request_hash = body[d],
         Answer(d, Row(d).response), UNCHANGED <<key, body, Answers>>
  PROVE  Abstract!Next
<1>1. key[d] \in Keys /\ reply[d] = None
  BY DEF Inv, Arrived
<1>2. Answers[key[d]] = Row(d)
  BY <1>1 DEF Answers, Row
<1>3. Answers[key[d]] # None
  BY <1>2
<1>4. Abstract!Tell(d)
  BY <1>1, <1>2, <1>3 DEF Abstract!Tell, Answer
<1> QED
  BY <1>4 DEF Abstract!Next

\* An error is refused for the reason it gives.
LEMMA RefuseStep ==
  ASSUME Inv, NEW d \in Deliveries, pc[d] \notin {"idle", "done"},
         NEW error \in Errors, Answer(d, error),
         error = Conflict =>
           \E other \in Deliveries : key[other] = key[d] /\ body[other] # body[d],
         UNCHANGED <<key, body, Answers>>
  PROVE  Abstract!Next
<1>1. key[d] \in Keys /\ reply[d] = None
  BY DEF Inv, Arrived
<1>2. Abstract!Refuse(d)
  BY <1>1 DEF Abstract!Refuse, Answer
<1> QED
  BY <1>2 DEF Abstract!Next

\* Every step of a delivery is a step of OneAnswer or changes nothing there.
LEMMA ServeRefines ==
  ASSUME Inv, NEW d \in Deliveries, Serve(d)
  PROVE  [Abstract!Next]_Abstract!vars
<1>1. pc[d] # "idle" /\ pc[d] # "done"
  BY DEF Serve, Reserve, LoseReservation, FindReleased, RefuseConflict, Replay,
     WaitForWinner, GiveUp, Pending, DropTokenless, RefuseUnsigned, RecordClaim,
     Recordable, Submit, ReceiveVerdict, RecordVerdict, FailWork, Release,
     StoreResponse, SendReply, FailQuery
<1>2. key[d] \in Keys
  BY <1>1 DEF Inv, Arrived
<1>3. idempotency_keys' = idempotency_keys => Answers' = Answers
  BY DEF Answers
<1>4. CASE Reserve(d)
  <2>1. Answers' = Answers
    BY <1>2, <1>4, AnswersStand DEF Reserve
  <2> QED
    BY <1>4, <2>1 DEF Reserve, Abstract!vars
<1>5. CASE \/ LoseReservation(d) \/ FindReleased(d) \/ WaitForWinner(d)
           \/ DropTokenless(d) \/ RefuseUnsigned(d) \/ RecordClaim(d)
           \/ Submit(d) \/ ReceiveVerdict(d) \/ RecordVerdict(d) \/ FailWork(d)
  BY <1>3, <1>5 DEF LoseReservation, FindReleased, WaitForWinner, DropTokenless,
     RefuseUnsigned, RecordClaim, Submit, ReceiveVerdict, RecordVerdict,
     FailWork, tables, Abstract!vars
<1>6. CASE RefuseConflict(d)
  <2>1. Row(d) # None /\ Row(d).request_hash # body[d]
    BY <1>6 DEF RefuseConflict
  <2>2. \E other \in Deliveries : key[other] = key[d] /\ body[other] # body[d]
    BY <1>2, <2>1 DEF Inv, Reserved, Row
  <2> QED
    BY <1>1, <1>3, <1>6, <2>2, RefuseStep DEF RefuseConflict, Errors, tables
<1>7. CASE GiveUp(d) \/ FailQuery(d)
  <2>1. InProgress # Conflict /\ Failed # Conflict
    BY DEF InProgress, Failed, Conflict, Response
  <2> QED
    BY <1>1, <1>3, <1>7, <2>1, RefuseStep DEF GiveUp, FailQuery, Errors, tables
<1>8. CASE Release(d)
  <2>1. Row(d) # None /\ Row(d).response = None
    BY <1>8 DEF Release, Inv, Reserved, Working
  <2>2. Answers' = Answers
    BY <1>2, <1>8, <2>1, AnswersStand DEF Release
  <2>3. Failed # Conflict
    BY DEF Failed, Conflict, Response
  <2> QED
    BY <1>1, <1>8, <2>2, <2>3, RefuseStep DEF Release, Errors
<1>9. CASE Replay(d)
  BY <1>1, <1>3, <1>9, TellStep DEF Replay, tables
<1>10. CASE SendReply(d)
  <2>1. /\ Row(d) # None /\ Row(d).request_hash = body[d]
        /\ Row(d).response = result[d] /\ result[d] \in Responses
    BY <1>10 DEF SendReply, Inv, Reserved, Told
  <2> QED
    BY <1>1, <1>3, <1>10, <2>1, NoneAssumption, TellStep DEF SendReply, tables
<1>11. CASE StoreResponse(d)
  <2>1. /\ Row(d) # None /\ Row(d).response = None
        /\ Row(d).request_hash = body[d] /\ result[d] \in Responses
        /\ Row(d) \in KeyRows
    BY <1>2, <1>11 DEF StoreResponse, Inv, Reserved, Working, Told, TypeOK, Row
  <2> DEFINE new == [Row(d) EXCEPT !.response = result[d]]
  <2>2. new = [request_hash |-> body[d], response |-> result[d]]
    BY <2>1 DEF KeyRows
  <2>3. new # None /\ new.response # None
    BY <2>1, <2>2, NoneAssumption DEF KeyRows
  <2>4. idempotency_keys' = [idempotency_keys EXCEPT ![key[d]] = new]
    BY <1>11, <2>1 DEF StoreResponse, SetRow
  <2>5. Answers[key[d]] = None
    BY <1>2, <2>1 DEF Answers, Row
  <2> HIDE DEF new
  <2>6. Answers' = [Answers EXCEPT ![key[d]] = new]
    BY <1>2, <2>3, <2>4 DEF Answers, Inv, TypeOK
  <2>7. Abstract!Decide(d)
    BY <1>2, <1>11, <2>1, <2>2, <2>5, <2>6 DEF Abstract!Decide, StoreResponse
  <2> QED
    BY <2>7 DEF Abstract!Next
<1> QED
  BY <1>4, <1>5, <1>6, <1>7, <1>8, <1>9, <1>10, <1>11 DEF Serve

\* The intake implements OneAnswer: one final answer per key, made for one
\* body, and nothing but it or an error for anyone (idempotency.ts:37-38).
THEOREM IntakeImplementsOneAnswer == Spec => ImplementsOneAnswer
<1>1. Init => Abstract!Init
  BY DEF Init, Abstract!Init, Answers
<1>2. Inv /\ [Next]_vars => [Abstract!Next]_Abstract!vars
  <2> SUFFICES ASSUME Inv, [Next]_vars PROVE [Abstract!Next]_Abstract!vars
    OBVIOUS
  <2>1. idempotency_keys' = idempotency_keys => Answers' = Answers
    BY DEF Answers
  <2>2. CASE \E d \in Deliveries : Receive(d)
    <3>1. PICK d \in Deliveries : Receive(d)
      BY <2>2
    <3>2. key[d] = None
      BY <3>1 DEF Receive, Inv, Arrived
    <3>3. Abstract!Ask(d)
      BY <2>1, <3>1, <3>2 DEF Receive, Abstract!Ask, tables
    <3> QED
      BY <3>3 DEF Abstract!Next
  <2>3. CASE \E d \in Deliveries : Serve(d)
    BY <2>3, ServeRefines
  <2>4. CASE \/ \E d \in Deliveries : Crash(d)
             \/ \E c \in Claims : TrioVerifies(c)
    BY <2>1, <2>4 DEF Crash, TrioVerifies, tables, Abstract!vars
  <2>5. CASE UNCHANGED vars
    BY <2>1, <2>5 DEF vars, tables, Abstract!vars
  <2> QED
    BY <2>2, <2>3, <2>4, <2>5 DEF Next
<1> QED
  BY <1>1, <1>2, Invariant, PTL DEF Spec, Abstract!Spec, ImplementsOneAnswer

=============================================================================
