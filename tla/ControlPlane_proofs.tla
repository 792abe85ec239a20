------------------------- MODULE ControlPlane_proofs -------------------------
(***************************************************************************)
(* Proofs about the control plane's bookkeeping, the core's reads and      *)
(* doors, and the money behind them: the history of an offer's commitments *)
(* (Offers), the reads of offers with their quotes (OfferReading), the     *)
(* requests of agents (AgentRequests), the deliveries of merchants         *)
(* (MerchantDoors), and the netting runs and payouts (Netting, Payouts),   *)
(* for any number of offers, operators, readers, requests, merchants,      *)
(* deliveries, conversions, runs and workers, and any amounts and rates.   *)
(***************************************************************************)
EXTENDS OfferReading, AgentRequests, MerchantDoors, Payouts, DataTheorems

-----------------------------------------------------------------------------
(* Offers.                                                                 *)

Jobs(row) ==
  [step : {"idle", "create", "golive", "endold", "repoint", "write"}, offer : Offers \cup {Null},
   old : Cors \cup {Null}, cor : Cors \cup {Null}, op : {"publish", "edit", "update", Null},
   row : {row}]

OfferRows(row) == [row : {row}, cor : Cors \cup {Null}]

OffersTypeOK ==
  /\ offers = [o \in Offers |-> offers[o]]
  /\ \A o \in Offers : offers[o] \in OfferRows(offers[o].row)
  /\ cors \in [Cors -> CorRows \cup {Null}]
  /\ operators = [p \in Operators |-> operators[p]]
  /\ \A p \in Operators : operators[p] \in Jobs(operators[p].row)
  /\ offer_commitments \subseteq [offer : Offers, cor : Cors, ended : BOOLEAN]

\* The commitment c is one of the offer o.
IsFor(c, o) == c \in Cors /\ cors[c] # Null /\ cors[c].offer = o

HistoryOK ==
  \A h \in offer_commitments :
    IsFor(h.cor, h.offer) /\ (h.ended => cors[h.cor].status = "ended")

\* A request that has a new commitment in hand: its entry is not written yet.
Holds(job) == job.step \in {"golive", "repoint"} /\ job.cor # Null

\* What a request knows at each of its steps.
JobOK(job) ==
  /\ job.step # "idle" => job.offer \in Offers
  /\ job.step = "create" => job.op \in {"publish", "edit"}
  /\ job.step \in {"endold", "repoint"} => job.op = "edit"
  /\ job.step \in {"endold", "repoint"} \/ (job.step = "create" /\ job.op = "edit")
       => job.old \in Cors /\ cors[job.old] # Null
  /\ job.step = "repoint" \/ (job.step = "create" /\ job.op = "edit")
       => cors[job.old].status = "ended"
  /\ job.step = "repoint" => job.cor # Null
  /\ Holds(job) => /\ IsFor(job.cor, job.offer)
                   /\ \A h \in offer_commitments : h.cor # job.cor

JobsOK ==
  /\ \A p \in Operators : JobOK(operators[p])
  /\ \A p, q \in Operators :
       p # q /\ Holds(operators[p]) /\ Holds(operators[q]) => operators[p].cor # operators[q].cor

OffersInv == OffersTypeOK /\ HistoryIsKept /\ HistoryOK /\ JobsOK

\* In the beginning no offer has a commitment.
LEMMA OffersInvInit == OffersInit => OffersInv
<1> SUFFICES ASSUME OffersInit PROVE OffersInv
  OBVIOUS
<1>1. /\ offers = [o \in Offers |-> [row |-> InitialTerms[o], cor |-> Null]]
      /\ offer_commitments = {} /\ cors = [c \in Cors |-> Null]
      /\ operators = [p \in Operators |-> Ready]
  BY DEF OffersInit
<1>2. Ready \in Jobs(Ready.row) /\ Ready.step = "idle"
  BY DEF Ready, Jobs
<1>3. OffersTypeOK
  BY <1>1, <1>2 DEF OffersTypeOK, OfferRows
<1>4. HistoryIsKept /\ HistoryOK
  BY <1>1 DEF HistoryIsKept, HistoryOK
<1>5. JobsOK
  BY <1>1, <1>2 DEF JobsOK, JobOK, Holds
<1> QED
  BY <1>3, <1>4, <1>5 DEF OffersInv

\* A request is somewhere else, and the trio's commitments have only moved on:
\* what was recorded still stands.
CorsMoveOn ==
  /\ cors' \in [Cors -> CorRows \cup {Null}]
  /\ \A c \in Cors : cors[c] # Null =>
       /\ cors'[c] # Null /\ cors'[c].offer = cors[c].offer
       /\ cors[c].status = "ended" => cors'[c].status = "ended"

JobMoves(p, new) ==
  /\ operators' = [operators EXCEPT ![p] = new]
  /\ new \in Jobs(new.row)

\* A step of one request that writes no offer keeps the invariant.
LEMMA RequestStep ==
  ASSUME OffersInv, NEW p \in Operators, NEW new, JobMoves(p, new), CorsMoveOn,
         UNCHANGED <<offers, offer_commitments>>, JobOK(operators[p])',
         Holds(new) => \A q \in Operators : q # p /\ Holds(operators[q]) => operators[q].cor # new.cor
  PROVE  OffersInv'
<1>1. /\ operators'[p] = new /\ \A q \in Operators : q # p => operators'[q] = operators[q]
      /\ operators' = [q \in Operators |-> operators'[q]]
  BY DEF OffersInv, OffersTypeOK, JobMoves
<1>2. OffersTypeOK'
  BY <1>1 DEF OffersInv, OffersTypeOK, JobMoves, CorsMoveOn
<1>3. HistoryIsKept'
  BY DEF OffersInv, OffersTypeOK, OfferRows, HistoryIsKept, HistoryOK, IsFor, CorsMoveOn
<1>4. HistoryOK'
  BY DEF OffersInv, HistoryOK, IsFor, CorsMoveOn
<1>5. JobsOK'
  <2>1. ASSUME NEW q \in Operators PROVE JobOK(operators[q])'
    <3>1. CASE q = p
      BY <3>1
    <3>2. CASE q # p
      BY <1>1, <3>2 DEF OffersInv, JobsOK, JobOK, Holds, IsFor, CorsMoveOn
    <3> QED
      BY <3>1, <3>2
  <2>2. ASSUME NEW q \in Operators, NEW r \in Operators, q # r, Holds(operators'[q]), Holds(operators'[r])
        PROVE  operators'[q].cor # operators'[r].cor
    BY <1>1, <2>2 DEF OffersInv, JobsOK, Holds
  <2> QED
    BY <2>1, <2>2 DEF JobsOK, Holds
<1> QED
  BY <1>2, <1>3, <1>4, <1>5 DEF OffersInv

\* The trio's commitments as they are have moved on, too.
LEMMA CorsStay == OffersInv /\ UNCHANGED cors => CorsMoveOn
BY DEF OffersInv, OffersTypeOK, CorsMoveOn

\* A request begins with what it read.
LEMMA RequestsBegin ==
  ASSUME OffersInv, NEW p \in Operators, NEW o \in Offers
  PROVE  /\ \A bounty \in BOOLEAN : Publish(p, o, bounty) => OffersInv'
         /\ EditBounty(p, o) => OffersInv'
         /\ Update(p, o) => OffersInv'
<1>1. ASSUME NEW op \in {"publish", "edit", "update"}, NEW step \in {"create", "golive", "endold", "write"},
             Request(p, op, o, step), UNCHANGED <<offers, offer_commitments, cors>>,
             step = "create" => op = "publish",
             step = "endold" => op = "edit" /\ offers[o].cor # Null
      PROVE  OffersInv'
  <2> DEFINE new == [Ready EXCEPT !.step = step, !.op = op, !.offer = o, !.old = OfferRow(o).cor,
                                  !.row = OfferRow(o).row]
  <2>1. /\ new.step = step /\ new.op = op /\ new.offer = o /\ new.old = offers[o].cor
        /\ new.cor = Null /\ new \in Jobs(new.row)
    BY <1>1 DEF Ready, OfferRow, OfferRows, Jobs, OffersInv, OffersTypeOK
  <2>2. operators' = [operators EXCEPT ![p] = new]
    BY <1>1 DEF Request
  <2> HIDE DEF new
  <2>3. operators'[p] = new
    BY <2>2 DEF OffersInv, OffersTypeOK
  <2>4. ~Holds(new)
    BY <2>1 DEF Holds
  <2>5. offers[o].cor # Null => offers[o].cor \in Cors /\ cors[offers[o].cor] # Null
    BY ZenonT(30) DEF OffersInv, OffersTypeOK, HistoryIsKept, HistoryOK, IsFor
  <2>6. JobOK(operators[p])'
    BY <1>1, <2>1, <2>3, <2>4, <2>5 DEF JobOK, Holds
  <2>7. JobMoves(p, new) /\ CorsMoveOn
    BY <1>1, <2>1, <2>2, CorsStay DEF JobMoves
  <2> QED
    BY <1>1, <2>4, <2>6, <2>7, RequestStep
<1>2. ASSUME NEW bounty \in BOOLEAN, Publish(p, o, bounty) PROVE OffersInv'
  BY <1>1, <1>2 DEF Publish
<1>3. ASSUME EditBounty(p, o) PROVE OffersInv'
  BY <1>1, <1>3 DEF EditBounty
<1>4. ASSUME Update(p, o) PROVE OffersInv'
  BY <1>1, <1>4 DEF Update
<1> QED
  BY <1>2, <1>3, <1>4

\* A request that is over holds nothing.
LEMMA RequestEnds ==
  ASSUME OffersInv, NEW p \in Operators, Finish(p), CorsMoveOn, UNCHANGED <<offers, offer_commitments>>
  PROVE  OffersInv'
<1>1. JobMoves(p, Ready) /\ ~Holds(Ready) /\ Ready.step = "idle"
  BY DEF JobMoves, Finish, Ready, Jobs, Holds
<1>2. operators'[p] = Ready
  BY <1>1 DEF JobMoves, OffersInv, OffersTypeOK
<1>3. JobOK(operators[p])'
  BY <1>1, <1>2 DEF JobOK, Holds
<1> QED
  BY <1>1, <1>3, RequestStep

\* The old commitment ends: an entry may be closed from now on.
LEMMA EndOldCorKeeps ==
  ASSUME OffersInv, NEW p \in Operators, NEW answered \in BOOLEAN, EndOldCor(p, answered)
  PROVE  OffersInv' /\ CorsMoveOn
<1> DEFINE job == operators[p]
<1>1. /\ job \in Jobs(job.row) /\ JobOK(job) /\ job.step = "endold"
      /\ job.old \in Cors /\ cors[job.old] # Null
  BY DEF EndOldCor, OffersInv, OffersTypeOK, JobsOK, JobOK
<1>2. cors' = [cors EXCEPT ![job.old] = [cors[job.old] EXCEPT !.status = "ended"]]
  BY DEF EndOldCor
<1>3. cors[job.old] \in CorRows
  BY <1>1 DEF OffersInv, OffersTypeOK
<1>4. [cors[job.old] EXCEPT !.status = "ended"] \in CorRows
      /\ [cors[job.old] EXCEPT !.status = "ended"].offer = cors[job.old].offer
      /\ [cors[job.old] EXCEPT !.status = "ended"].status = "ended"
  BY <1>3 DEF CorRows
<1>5. CorsMoveOn /\ cors'[job.old] # Null /\ cors'[job.old].status = "ended"
  BY <1>1, <1>2, <1>4, OffersAssumption DEF CorsMoveOn, OffersInv, OffersTypeOK
<1>6. CASE answered
  <2> DEFINE new == [job EXCEPT !.step = "create"]
  <2>1. /\ operators' = [operators EXCEPT ![p] = new]
        /\ new.step = "create" /\ new.offer = job.offer /\ new.old = job.old /\ new.op = job.op
        /\ new \in Jobs(new.row)
    BY <1>1, <1>6 DEF EndOldCor, Goto, Jobs
  <2> HIDE DEF new
  <2>2. operators'[p] = new /\ ~Holds(new)
    BY <2>1 DEF OffersInv, OffersTypeOK, Holds
  <2>3. job.op = "edit"
    BY <1>1 DEF JobOK
  <2>4. JobOK(operators[p])'
    BY <1>1, <1>5, <2>1, <2>2, <2>3 DEF JobOK, Holds
  <2>5. JobMoves(p, new) /\ UNCHANGED <<offers, offer_commitments>>
    BY <2>1 DEF JobMoves, EndOldCor
  <2> QED
    BY <1>5, <2>2, <2>4, <2>5, RequestStep
<1>7. CASE ~answered
  BY <1>5, <1>7, RequestEnds DEF EndOldCor
<1> QED
  BY <1>5, <1>6, <1>7

\* A commitment is created that no entry and no other request has.
LEMMA CreateCorKeeps ==
  ASSUME OffersInv, NEW p \in Operators, NEW c \in Cors, NEW answered \in BOOLEAN, CreateCor(p, c, answered)
  PROVE  OffersInv' /\ CorsMoveOn
<1> DEFINE job == operators[p]
           row == [offer |-> job.offer, status |-> "live", used |-> 0, max |-> Cap, budget |-> Budget]
<1>1. /\ job \in Jobs(job.row) /\ JobOK(job) /\ job.step = "create" /\ job.offer \in Offers
      /\ job.op \in {"publish", "edit"}
      /\ job.op = "edit" => /\ job.old \in Cors /\ cors[job.old] # Null
                            /\ cors[job.old].status = "ended"
  BY DEF CreateCor, OffersInv, OffersTypeOK, JobsOK, JobOK
<1>2. cors' = [cors EXCEPT ![c] = row] /\ cors[c] = Null
  BY DEF CreateCor
<1>3. row \in CorRows /\ row.offer = job.offer /\ row # Null
  BY <1>1, OffersAssumption DEF CorRows
<1> HIDE DEF row
<1>4. CorsMoveOn /\ cors'[c] = row
  BY <1>2, <1>3 DEF CorsMoveOn, OffersInv, OffersTypeOK
<1>5. \A h \in offer_commitments : h.cor # c
  BY <1>2 DEF OffersInv, HistoryOK, IsFor
<1>6. \A q \in Operators : Holds(operators[q]) => operators[q].cor # c
  BY <1>2 DEF OffersInv, JobsOK, JobOK, IsFor
<1>7. CASE answered
  <2> DEFINE step == IF job.op = "publish" THEN "golive" ELSE "repoint"
             new == [job EXCEPT !.cor = c, !.step = step]
  <2>1. /\ operators' = [operators EXCEPT ![p] = new]
        /\ new.step = step /\ new.offer = job.offer /\ new.old = job.old /\ new.op = job.op
        /\ new.cor = c /\ new \in Jobs(new.row)
    BY <1>1, <1>7 DEF CreateCor, Jobs
  <2> HIDE DEF new
  <2>2. operators'[p] = new /\ c # Null
    BY <2>1, OffersAssumption DEF OffersInv, OffersTypeOK
  <2>3. step = "repoint" => job.op = "edit"
    BY <1>1
  <2>4. UNCHANGED <<offers, offer_commitments>>
    BY DEF CreateCor
  <2>5. JobOK(operators[p])'
    BY <1>1, <1>3, <1>4, <1>5, <2>1, <2>2, <2>3, <2>4 DEF JobOK, Holds, IsFor, CorsMoveOn
  <2> QED
    BY <1>4, <1>6, <2>1, <2>4, <2>5, RequestStep DEF JobMoves
<1>8. CASE ~answered
  BY <1>4, <1>8, RequestEnds DEF CreateCor
<1> QED
  BY <1>4, <1>7, <1>8

\* A call to the trio that fails ends the request.
LEMMA TrioUnreachableKeeps ==
  ASSUME OffersInv, NEW p \in Operators, TrioUnreachable(p) PROVE OffersInv'
BY CorsStay, RequestEnds DEF TrioUnreachable

\* Going live points the offer at the new commitment and opens its entry.
LEMMA GoLiveKeeps ==
  ASSUME OffersInv, NEW p \in Operators, GoLive(p) PROVE OffersInv'
<1> DEFINE job == operators[p]  o == job.offer  c == job.cor
           entry == [offer |-> o, cor |-> c, ended |-> FALSE]
           new == IF c = Null THEN {} ELSE {entry}
           row == [offers[o].row EXCEPT !.status = "live"]
<1>1. /\ job \in Jobs(job.row) /\ JobOK(job) /\ job.step = "golive" /\ o \in Offers
      /\ c \in Cors \cup {Null}
      /\ c # Null => IsFor(c, o) /\ \A h \in offer_commitments : h.cor # c
  BY DEF GoLive, OffersInv, OffersTypeOK, JobsOK, JobOK, Jobs, Holds
<1>2. /\ offers' = [offers EXCEPT ![o] = [offers[o] EXCEPT !.row = row, !.cor = c]]
      /\ offer_commitments' = offer_commitments \cup new
      /\ UNCHANGED cors /\ operators' = [operators EXCEPT ![p] = Ready]
  BY DEF GoLive, Finish
<1> HIDE DEF row
<1>3. /\ offers' = [a \in Offers |-> offers'[a]]
      /\ \A a \in Offers : /\ offers'[a] \in OfferRows(offers'[a].row)
                           /\ offers'[a].cor = IF a = o THEN c ELSE offers[a].cor
  <2> DEFINE changed == [offers[o] EXCEPT !.row = row, !.cor = c]
  <2>1. changed \in OfferRows(changed.row) /\ changed.cor = c
    BY <1>1 DEF OffersInv, OffersTypeOK, OfferRows
  <2>2. offers' = [offers EXCEPT ![o] = changed]
    BY <1>2
  <2> HIDE DEF changed
  <2> QED
    BY <1>1, <2>1, <2>2 DEF OffersInv, OffersTypeOK
<1>4. /\ operators' = [q \in Operators |-> operators'[q]]
      /\ operators'[p] = Ready /\ \A q \in Operators : q # p => operators'[q] = operators[q]
      /\ Ready \in Jobs(Ready.row) /\ Ready.step = "idle" /\ ~Holds(Ready)
  BY <1>2 DEF OffersInv, OffersTypeOK, Ready, Jobs, Holds
<1>5. OffersTypeOK'
  <2>1. offer_commitments' \subseteq [offer : Offers, cor : Cors, ended : BOOLEAN]
    <3>1. c # Null => entry \in [offer : Offers, cor : Cors, ended : BOOLEAN]
      BY <1>1
    <3>2. new \subseteq [offer : Offers, cor : Cors, ended : BOOLEAN]
      BY <3>1
    <3> HIDE DEF new
    <3> QED
      BY <1>2, <3>2 DEF OffersInv, OffersTypeOK
  <2>4. \A q \in Operators : operators'[q] \in Jobs(operators'[q].row)
    BY <1>4 DEF OffersInv, OffersTypeOK
  <2> QED
    BY <1>2, <1>3, <1>4, <2>1, <2>4 DEF OffersInv, OffersTypeOK
<1>6. HistoryOK' /\ HistoryIsKept'
  <2>1. \A h \in new : h.offer = o /\ h.cor = c /\ h.ended = FALSE /\ IsFor(c, o) /\ c # Null
    BY <1>1
  <2>2. c # Null => entry \in new
    OBVIOUS
  <2> HIDE DEF new
  <2>3. HistoryOK'
    BY <1>2, <2>1 DEF OffersInv, HistoryOK, IsFor
  <2>4. \A h, g \in offer_commitments' : h.cor = g.cor => h = g
    <3>1. \A h, g \in new : h = g
      BY DEF new
    <3> QED
      BY <1>1, <1>2, <2>1, <3>1 DEF OffersInv, HistoryIsKept
  <2>5. ASSUME NEW a \in Offers, offers'[a].cor # Null
        PROVE  /\ [offer |-> a, cor |-> offers'[a].cor, ended |-> FALSE] \in offer_commitments'
               /\ cors[offers'[a].cor].offer = a
    <3>1. CASE a = o
      <4>1. offers'[a].cor = c /\ c # Null
        BY <1>1, <1>3, <2>5, <3>1
      <4>2. entry = [offer |-> a, cor |-> offers'[a].cor, ended |-> FALSE] /\ entry \in offer_commitments'
        BY <1>2, <2>2, <3>1, <4>1, Zenon
      <4>3. cors[offers'[a].cor].offer = a
        BY <1>1, <3>1, <4>1 DEF IsFor
      <4> QED
        BY <4>2, <4>3
    <3>2. CASE a # o
      BY <1>2, <1>3, <2>5, <3>2 DEF OffersInv, HistoryIsKept
    <3> QED
      BY <3>1, <3>2
  <2> QED
    BY <1>2, <2>3, <2>4, <2>5 DEF HistoryIsKept, HistoryOK
<1>7. JobsOK'
  <2>1. ASSUME NEW q \in Operators PROVE JobOK(operators[q])'
    <3>1. CASE q = p
      BY <1>4, <3>1 DEF JobOK, Holds
    <3>2. CASE q # p
      <4>1. /\ operators'[q] = operators[q] /\ JobOK(operators[q])
            /\ Holds(operators[q]) /\ c # Null => operators[q].cor # c
        BY <1>1, <1>4, <3>2 DEF OffersInv, JobsOK, Holds
      <4> QED
        BY <1>2, <4>1 DEF JobOK, Holds, IsFor
    <3> QED
      BY <3>1, <3>2
  <2>2. ASSUME NEW q \in Operators, NEW r \in Operators, q # r, Holds(operators'[q]), Holds(operators'[r])
        PROVE  operators'[q].cor # operators'[r].cor
    BY <1>4, <2>2 DEF OffersInv, JobsOK, Holds
  <2> QED
    BY <2>1, <2>2 DEF JobsOK, Holds
<1> QED
  BY <1>5, <1>6, <1>7 DEF OffersInv

\* Repricing closes the entry of the commitment it ended and opens one for the new,
\* and leaves what other requests point at alone.
LEMMA RepointKeeps ==
  ASSUME OffersInv, NEW p \in Operators, Repoint(p) PROVE OffersInv'
<1> DEFINE job == operators[p]  o == job.offer  c == job.cor
           old == [offer |-> o, cor |-> job.old, ended |-> FALSE]
           closed == [old EXCEPT !.ended = TRUE]
           entry == [offer |-> o, cor |-> c, ended |-> FALSE]
           kept == {IF h = old THEN [h EXCEPT !.ended = TRUE] ELSE h : h \in offer_commitments}
<1>1. /\ job \in Jobs(job.row) /\ JobOK(job) /\ job.step = "repoint" /\ o \in Offers
      /\ c \in Cors /\ c # Null /\ IsFor(c, o)
      /\ \A h \in offer_commitments : h.cor # c
      /\ job.old \in Cors /\ cors[job.old] # Null /\ cors[job.old].status = "ended"
  BY DEF Repoint, OffersInv, OffersTypeOK, JobsOK, JobOK, Jobs, Holds, IsFor
<1>2. /\ offers' = [offers EXCEPT ![o] = [offers[o] EXCEPT !.cor = c]]
      /\ offer_commitments' = kept \cup {entry}
      /\ UNCHANGED cors /\ operators' = [operators EXCEPT ![p] = Ready]
  BY DEF Repoint, Finish
<1>3. /\ offers' = [a \in Offers |-> offers'[a]]
      /\ \A a \in Offers : /\ offers'[a] \in OfferRows(offers'[a].row)
                           /\ offers'[a].cor = IF a = o THEN c ELSE offers[a].cor
  <2> DEFINE changed == [offers[o] EXCEPT !.cor = c]
  <2>1. changed \in OfferRows(changed.row) /\ changed.cor = c
    BY <1>1 DEF OffersInv, OffersTypeOK, OfferRows
  <2>2. offers' = [offers EXCEPT ![o] = changed]
    BY <1>2
  <2> HIDE DEF changed
  <2> QED
    BY <1>1, <2>1, <2>2 DEF OffersInv, OffersTypeOK
<1>4. /\ operators' = [q \in Operators |-> operators'[q]]
      /\ operators'[p] = Ready /\ \A q \in Operators : q # p => operators'[q] = operators[q]
      /\ Ready \in Jobs(Ready.row) /\ Ready.step = "idle" /\ ~Holds(Ready)
  BY <1>2 DEF OffersInv, OffersTypeOK, Ready, Jobs, Holds
\* What is kept is what was, but for one entry, which is closed.
<1>5. /\ \A h \in kept : /\ h.offer \in Offers /\ h.cor \in Cors /\ h.ended \in BOOLEAN
                        /\ h \in [offer : Offers, cor : Cors, ended : BOOLEAN]
                        /\ \E g \in offer_commitments :
                             /\ h.offer = g.offer /\ h.cor = g.cor
                             /\ h = g \/ (g = old /\ h = closed)
      /\ \A h \in offer_commitments : h # old => h \in kept
  <2> DEFINE Moved(g) == IF g = old THEN [g EXCEPT !.ended = TRUE] ELSE g
  <2>1. ASSUME NEW g \in offer_commitments
        PROVE  /\ Moved(g) \in [offer : Offers, cor : Cors, ended : BOOLEAN]
               /\ Moved(g).offer = g.offer /\ Moved(g).cor = g.cor
               /\ Moved(g) = g \/ (g = old /\ Moved(g) = closed)
               /\ g # old => Moved(g) = g
    BY DEF OffersInv, OffersTypeOK
  <2>2. kept = {Moved(g) : g \in offer_commitments}
    OBVIOUS
  <2> HIDE DEF Moved, kept
  <2>3. ASSUME NEW h \in [offer : Offers, cor : Cors, ended : BOOLEAN]
        PROVE  h.offer \in Offers /\ h.cor \in Cors /\ h.ended \in BOOLEAN
    OBVIOUS
  <2>4. ASSUME NEW h \in kept
        PROVE  /\ h \in [offer : Offers, cor : Cors, ended : BOOLEAN]
               /\ \E g \in offer_commitments :
                    /\ h.offer = g.offer /\ h.cor = g.cor
                    /\ h = g \/ (g = old /\ h = closed)
    <3>1. PICK g \in offer_commitments : h = Moved(g)
      BY <2>2
    <3> QED
      BY <2>1, <3>1
  <2>5. ASSUME NEW h \in offer_commitments, h # old PROVE h \in kept
    BY <2>1, <2>2, <2>5
  <2> QED
    BY <2>3, <2>4, <2>5
<1>6. entry.offer = o /\ entry.cor = c /\ entry.ended = FALSE
      /\ entry \in [offer : Offers, cor : Cors, ended : BOOLEAN]
      /\ old.offer = o /\ old.cor = job.old /\ closed.ended = TRUE
      /\ closed.offer = o /\ closed.cor = job.old
  BY <1>1
<1>7. \A a \in Offers, k \in Cors :
        [offer |-> a, cor |-> k, ended |-> FALSE].offer = a /\ [offer |-> a, cor |-> k, ended |-> FALSE].cor = k
  OBVIOUS
<1> HIDE DEF kept, entry, old, closed
<1>8. OffersTypeOK'
  <2>1. offer_commitments' \subseteq [offer : Offers, cor : Cors, ended : BOOLEAN]
    BY <1>2, <1>5, <1>6
  <2>2. \A q \in Operators : operators'[q] \in Jobs(operators'[q].row)
    BY <1>4 DEF OffersInv, OffersTypeOK
  <2> QED
    BY <1>2, <1>3, <1>4, <2>1, <2>2 DEF OffersInv, OffersTypeOK
<1>9. HistoryOK'
  <2>1. ASSUME NEW h \in kept PROVE IsFor(h.cor, h.offer) /\ (h.ended => cors[h.cor].status = "ended")
    <3>1. PICK g \in offer_commitments :
            /\ h.offer = g.offer /\ h.cor = g.cor
            /\ h = g \/ (g = old /\ h = closed)
      BY <1>5
    <3>2. IsFor(g.cor, g.offer) /\ (g.ended => cors[g.cor].status = "ended")
      BY DEF OffersInv, HistoryOK
    <3> QED
      BY <1>1, <1>6, <3>1, <3>2
  <2> QED
    BY <1>1, <1>2, <1>6, <2>1 DEF HistoryOK, IsFor
<1>10. HistoryIsKept'
  <2>1. ASSUME NEW h \in offer_commitments', NEW g \in offer_commitments', h.cor = g.cor PROVE h = g
    <3>1. \A x \in kept : x.cor # c
      BY <1>1, <1>5
    <3>2. CASE h = entry \/ g = entry
      BY <1>2, <1>6, <2>1, <3>1, <3>2
    <3>3. CASE h \in kept /\ g \in kept
      <4>1. PICK x \in offer_commitments : h.cor = x.cor /\ (h = x \/ (x = old /\ h = closed))
        BY <1>5, <3>3
      <4>2. PICK y \in offer_commitments : g.cor = y.cor /\ (g = y \/ (y = old /\ g = closed))
        BY <1>5, <3>3
      <4>3. x = y
        BY <2>1, <4>1, <4>2 DEF OffersInv, HistoryIsKept
      <4>4. old \in offer_commitments => old \notin kept
        <5>1. ASSUME old \in kept PROVE FALSE
          <6>1. PICK z \in offer_commitments :
                  old = IF z = old THEN [z EXCEPT !.ended = TRUE] ELSE z
            BY <5>1 DEF kept
          <6>2. z = old /\ old = closed
            BY <6>1 DEF closed
          <6>3. old.ended = FALSE
            BY DEF old
          <6> QED
            BY <1>6, <6>2, <6>3
        <5> QED
          BY <5>1
      <4> QED
        BY <3>3, <4>1, <4>2, <4>3, <4>4
    <3> QED
      BY <1>2, <3>2, <3>3
  <2>2. ASSUME NEW a \in Offers, offers'[a].cor # Null
        PROVE  /\ [offer |-> a, cor |-> offers'[a].cor, ended |-> FALSE] \in offer_commitments'
               /\ cors[offers'[a].cor].offer = a
    <3>1. CASE a = o
      <4>1. offers'[a].cor = c
        BY <1>3, <3>1
      <4>2. entry = [offer |-> a, cor |-> offers'[a].cor, ended |-> FALSE] /\ entry \in offer_commitments'
        BY <1>2, <3>1, <4>1, Zenon DEF entry
      <4> QED
        BY <1>1, <3>1, <4>1, <4>2 DEF IsFor
    <3>2. CASE a # o
      <4> DEFINE own == [offer |-> a, cor |-> offers[a].cor, ended |-> FALSE]
      <4>1. offers'[a].cor = offers[a].cor /\ own \in offer_commitments /\ cors[offers[a].cor].offer = a
        BY <1>3, <2>2, <3>2 DEF OffersInv, HistoryIsKept
      <4>2. own.offer = a
        OBVIOUS
      <4>3. own # old
        BY <1>6, <3>2, <4>2
      <4>4. own \in offer_commitments'
        BY <1>2, <1>5, <4>1, <4>3
      <4> QED
        BY <4>1, <4>4
    <3> QED
      BY <3>1, <3>2
  <2>3. \A h \in offer_commitments' : h.ended => cors'[h.cor].status = "ended"
    BY <1>9 DEF HistoryOK
  <2> QED
    BY <1>2, <2>1, <2>2, <2>3 DEF HistoryIsKept
<1>11. JobsOK'
  <2>1. ASSUME NEW q \in Operators PROVE JobOK(operators[q])'
    <3>1. CASE q = p
      BY <1>4, <3>1 DEF JobOK, Holds
    <3>2. CASE q # p
      <4>1. /\ operators'[q] = operators[q] /\ JobOK(operators[q])
            /\ Holds(operators[q]) => operators[q].cor # c
        BY <1>1, <1>4, <3>2 DEF OffersInv, JobsOK, Holds
      <4>2. Holds(operators[q]) => \A h \in offer_commitments' : h.cor # operators[q].cor
        BY <1>2, <1>5, <1>6, <4>1 DEF JobOK
      <4> QED
        BY <1>2, <4>1, <4>2 DEF JobOK, Holds, IsFor
    <3> QED
      BY <3>1, <3>2
  <2>2. ASSUME NEW q \in Operators, NEW r \in Operators, q # r, Holds(operators'[q]), Holds(operators'[r])
        PROVE  operators'[q].cor # operators'[r].cor
    BY <1>4, <2>2 DEF OffersInv, JobsOK, Holds
  <2> QED
    BY <2>1, <2>2 DEF JobsOK, Holds
<1> QED
  BY <1>8, <1>9, <1>10, <1>11 DEF OffersInv

\* A step that writes rows but no commitment, and after which requests are where
\* they were or over.
LEMMA RowsOnly ==
  ASSUME OffersInv, UNCHANGED <<offer_commitments, cors>>, offers' = [o \in Offers |-> offers'[o]],
         \A o \in Offers : /\ offers'[o] \in OfferRows(offers'[o].row)
                          /\ offers'[o].cor = offers[o].cor,
         operators' = [p \in Operators |-> operators'[p]],
         \A p \in Operators : operators'[p] = operators[p] \/ operators'[p] = Ready
  PROVE  OffersInv'
<1>1. Ready \in Jobs(Ready.row) /\ Ready.step = "idle" /\ ~Holds(Ready)
  BY DEF Ready, Jobs, Holds
<1>2. OffersTypeOK'
  BY <1>1 DEF OffersInv, OffersTypeOK
<1>3. HistoryIsKept' /\ HistoryOK'
  BY DEF OffersInv, HistoryIsKept, HistoryOK, IsFor
<1>4. JobsOK'
  <2>1. ASSUME NEW q \in Operators PROVE JobOK(operators[q])'
    <3>1. CASE operators'[q] = Ready
      BY <1>1, <3>1 DEF JobOK, Holds
    <3>2. CASE operators'[q] = operators[q]
      BY <3>2 DEF OffersInv, JobsOK, JobOK, Holds, IsFor
    <3> QED
      BY <3>1, <3>2
  <2>2. ASSUME NEW q \in Operators, NEW r \in Operators, q # r, Holds(operators'[q]), Holds(operators'[r])
        PROVE  operators'[q].cor # operators'[r].cor
    <3>1. operators'[q] = operators[q] /\ operators'[r] = operators[r]
      BY <1>1, <2>2
    <3> QED
      BY <2>2, <3>1 DEF OffersInv, JobsOK
  <2> QED
    BY <2>1, <2>2 DEF JobsOK, Holds
<1> QED
  BY <1>2, <1>3, <1>4 DEF OffersInv

\* An edit writes back the row it read, and no commitment.
LEMMA WriteRowKeeps ==
  ASSUME OffersInv, NEW p \in Operators, NEW patch, WriteRow(p, patch) PROVE OffersInv'
<1> DEFINE o == operators[p].offer
           row == Edited(operators[p].row, patch, offers[o].row)
           changed == [offers[o] EXCEPT !.row = row]
<1>1. o \in Offers
  BY DEF WriteRow, OffersInv, JobsOK, JobOK
<1>2. offers' = [offers EXCEPT ![o] = changed] /\ operators' = [operators EXCEPT ![p] = Ready]
      /\ UNCHANGED <<offer_commitments, cors>>
  BY DEF WriteRow, Finish
<1> HIDE DEF row
<1>3. changed \in OfferRows(changed.row) /\ changed.cor = offers[o].cor
  BY <1>1 DEF OffersInv, OffersTypeOK, OfferRows
<1> HIDE DEF changed
<1>4. /\ offers' = [a \in Offers |-> offers'[a]]
      /\ \A a \in Offers : /\ offers'[a] \in OfferRows(offers'[a].row)
                           /\ offers'[a].cor = offers[a].cor
      /\ operators' = [q \in Operators |-> operators'[q]]
      /\ \A q \in Operators : operators'[q] = operators[q] \/ operators'[q] = Ready
  BY <1>1, <1>2, <1>3 DEF OffersInv, OffersTypeOK
<1> QED
  BY <1>2, <1>4, RowsOnly

\* Pausing and ending write a status.
LEMMA SetStatusKeeps ==
  ASSUME OffersInv, NEW o \in Offers, NEW next, NEW expect, SetStatus(o, next, expect) PROVE OffersInv'
<1> DEFINE row == [offers[o].row EXCEPT !.status = next]
           changed == [offers[o] EXCEPT !.row = row]
<1>1. offers' = [offers EXCEPT ![o] = changed] /\ UNCHANGED <<offer_commitments, cors, operators>>
  BY DEF SetStatus
<1> HIDE DEF row
<1>2. changed \in OfferRows(changed.row) /\ changed.cor = offers[o].cor
  BY DEF OffersInv, OffersTypeOK, OfferRows
<1> HIDE DEF changed
<1>3. /\ offers' = [a \in Offers |-> offers'[a]]
      /\ \A a \in Offers : /\ offers'[a] \in OfferRows(offers'[a].row)
                           /\ offers'[a].cor = offers[a].cor
      /\ operators' = [q \in Operators |-> operators'[q]]
  BY <1>1, <1>2 DEF OffersInv, OffersTypeOK
<1> QED
  BY <1>1, <1>3, RowsOnly

\* A conversion elsewhere uses a commitment up.
LEMMA ConvertsKeeps ==
  ASSUME OffersInv, NEW c \in Cors, Converts(c) PROVE OffersInv' /\ CorsMoveOn
<1> DEFINE row == [cors[c] EXCEPT !.used = cors[c].used + 1, !.budget = cors[c].budget - 1]
<1>1. cors[c] \in CorRows /\ cors[c].status = "live"
  BY DEF Converts, OffersInv, OffersTypeOK
<1>2. cors' = [cors EXCEPT ![c] = row] /\ UNCHANGED <<offers, offer_commitments, operators>>
  BY DEF Converts
<1>3. row \in CorRows /\ row.offer = cors[c].offer
  <2>1. cors[c].used \in Int /\ cors[c].budget \in Int
    BY <1>1 DEF CorRows
  <2>2. cors[c].used + 1 \in Int /\ cors[c].budget - 1 \in Int
    BY <2>1
  <2> DEFINE used == cors[c].used + 1  budget == cors[c].budget - 1
  <2>3. row = [cors[c] EXCEPT !.used = used, !.budget = budget]
    OBVIOUS
  <2> HIDE DEF used, budget
  <2>4. used \in Int /\ budget \in Int
    BY <2>2 DEF used, budget
  <2> QED
    BY <1>1, <2>3, <2>4 DEF CorRows
<1> HIDE DEF row
<1>4. row # Null
  BY <1>3, OffersAssumption
<1>5. CorsMoveOn
  BY <1>1, <1>2, <1>3, <1>4 DEF CorsMoveOn, OffersInv, OffersTypeOK
<1>6. OffersTypeOK'
  BY <1>2, <1>5 DEF OffersInv, OffersTypeOK, CorsMoveOn
<1>7. HistoryIsKept' /\ HistoryOK'
  BY <1>2, <1>5 DEF OffersInv, OffersTypeOK, OfferRows, HistoryIsKept, HistoryOK, IsFor, CorsMoveOn
<1>8. JobsOK'
  BY <1>2, <1>5 DEF OffersInv, JobsOK, JobOK, Holds, IsFor, CorsMoveOn
<1> QED
  BY <1>5, <1>6, <1>7, <1>8 DEF OffersInv

\* Every step of the control plane keeps what an offer points at in its history.
LEMMA OffersStep == OffersInv /\ [OffersNext]_offerVars => OffersInv'
<1> SUFFICES ASSUME OffersInv, [OffersNext]_offerVars PROVE OffersInv'
  OBVIOUS
<1>1. CASE RestartControlPlane
  <2>1. operators' = [p \in Operators |-> Ready] /\ UNCHANGED <<offers, offer_commitments, cors>>
    BY <1>1 DEF RestartControlPlane
  <2>2. operators' = [p \in Operators |-> operators'[p]]
    BY <2>1
  <2> QED
    BY <2>1, <2>2, RowsOnly DEF OffersInv, OffersTypeOK
<1>2. CASE UNCHANGED offerVars
  BY <1>2, RowsOnly DEF offerVars, OffersInv, OffersTypeOK
<1>3. CASE \E o \in Offers : Pause(o) \/ End(o)
  BY <1>3, SetStatusKeeps DEF Pause, End
<1>4. CASE \E p \in Operators, o \in Offers :
             (\E bounty \in BOOLEAN : Publish(p, o, bounty)) \/ EditBounty(p, o) \/ Update(p, o)
  BY <1>4, RequestsBegin
<1>5. CASE \E p \in Operators :
             \/ \E answered \in BOOLEAN : EndOldCor(p, answered)
             \/ \E c \in Cors, answered \in BOOLEAN : CreateCor(p, c, answered)
             \/ TrioUnreachable(p) \/ GoLive(p) \/ Repoint(p)
             \/ \E patch \in Patches : WriteRow(p, patch)
  BY <1>5, EndOldCorKeeps, CreateCorKeeps, TrioUnreachableKeeps, GoLiveKeeps, RepointKeeps,
     WriteRowKeeps
<1>6. CASE \E c \in Cors : Converts(c)
  BY <1>6, ConvertsKeeps
<1> QED
  BY <1>1, <1>2, <1>3, <1>4, <1>5, <1>6 DEF OffersNext

\* The history of an offer's commitments is kept, whichever publishes and reprices
\* interleave and whichever calls to the trio are lost.
THEOREM OffersHistoryCorrect == OffersSpec => []HistoryIsKept
<1>1. OffersInv => HistoryIsKept
  BY DEF OffersInv
<1> QED
  BY <1>1, OffersInvInit, OffersStep, PTL DEF OffersSpec

-----------------------------------------------------------------------------
(* Reading offers.                                                         *)

\* Rows are rows of their offers, also those an edit has in hand.
RowsOK ==
  /\ \A o \in Offers : IsRowOf(offers[o].row, o)
  /\ \A p \in Operators : operators[p].step = "write" => IsRowOf(operators[p].row, operators[p].offer)

\* An edit of a row is a row of the same offer: neither id nor merchant is patched.
LEMMA EditedIsRow ==
  ASSUME NEW o, NEW row, IsRowOf(row, o), NEW patch \in Patches, NEW now
  PROVE  IsRowOf(Edited(row, patch, now), o)
<1>1. PICK new : new = Edited(row, patch, now)
  OBVIOUS
<1>2. PICK status : status = now.status
  OBVIOUS
<1>3. new = [column \in Columns |->
              IF column = "status" THEN status ELSE IF column \in {"id", "merchant"} THEN row[column]
              ELSE IF column \in DOMAIN patch THEN patch[column] ELSE row[column]]
  BY <1>1, <1>2 DEF Edited
<1>4. new.id = o
  BY <1>3 DEF IsRowOf, Columns
<1>5. new.merchant = row.merchant
  BY <1>3 DEF Columns
<1>6. new.mechanics = IF "mechanics" \in DOMAIN patch THEN patch["mechanics"] ELSE row.mechanics
  BY <1>3 DEF Columns
<1>7. new.merchant \in Merchants /\ IsMechanic(new.mechanics)
  BY <1>5, <1>6, TermsAssumption DEF IsRowOf
<1>8. new = [column \in Columns |-> new[column]]
  BY <1>3
<1> QED
  BY <1>1, <1>4, <1>7, <1>8 DEF IsRowOf

\* So is a row whose status alone changes.
LEMMA StatusIsRow ==
  ASSUME NEW o, NEW row, IsRowOf(row, o), NEW status
  PROVE  IsRowOf([row EXCEPT !.status = status], o)
<1>1. PICK new : new = [row EXCEPT !.status = status]
  OBVIOUS
<1>2. new = [column \in Columns |-> IF column = "status" THEN status ELSE row[column]]
  BY <1>1 DEF IsRowOf
<1>3. new.id = row.id /\ new.merchant = row.merchant /\ new.mechanics = row.mechanics
  BY <1>2 DEF Columns
<1>4. new = [column \in Columns |-> new[column]]
  BY <1>2
<1> QED
  BY <1>1, <1>3, <1>4 DEF IsRowOf

\* The rows are so at the start ...
LEMMA RowsStart == OffersInit => RowsOK
<1> SUFFICES ASSUME OffersInit PROVE RowsOK
  OBVIOUS
<1>1. \A o \in Offers : offers[o].row = InitialTerms[o]
  BY DEF OffersInit
<1>2. \A p \in Operators : operators[p].step = "idle"
  BY DEF OffersInit, Ready
<1> QED
  BY <1>1, <1>2, TermsAssumption DEF RowsOK

\* ... and every step of the control plane keeps them so.
LEMMA RowsKept ==
  ASSUME OffersInv, RowsOK, OffersNext
  PROVE  RowsOK'
<1>1. /\ offers = [o \in Offers |-> offers[o]]
      /\ \A o \in Offers : offers[o] = [row |-> offers[o].row, cor |-> offers[o].cor]
      /\ operators = [p \in Operators |-> operators[p]]
  <2>1. \A o \in Offers : offers[o] \in [row : {offers[o].row}, cor : Cors \cup {Null}]
    BY DEF OffersInv, OffersTypeOK, OfferRows
  <2> QED
    BY <2>1 DEF OffersInv, OffersTypeOK
<1>2. ASSUME NEW p \in Operators, NEW new, operators' = [operators EXCEPT ![p] = new], UNCHANGED offers,
             new.step = "write" => IsRowOf(new.row, new.offer)
      PROVE  RowsOK'
  BY <1>1, <1>2 DEF RowsOK
<1>3. ASSUME NEW p \in Operators, Finish(p), \A o \in Offers : IsRowOf(offers'[o].row, o)
      PROVE  RowsOK'
  BY <1>1, <1>3 DEF RowsOK, Finish, Ready
<1>4. ASSUME NEW p \in Operators, NEW o \in Offers, NEW op, NEW step, Request(p, op, o, step), UNCHANGED offers
      PROVE  RowsOK'
  <2>1. PICK new : new = [Ready EXCEPT !.step = step, !.op = op, !.offer = o, !.old = OfferRow(o).cor,
                                       !.row = OfferRow(o).row]
    OBVIOUS
  <2>2. new.offer = o /\ new.row = offers[o].row /\ operators' = [operators EXCEPT ![p] = new]
    BY <1>4, <2>1 DEF Request, Ready, OfferRow
  <2>3. IsRowOf(new.row, new.offer)
    BY <2>2 DEF RowsOK
  <2> QED
    BY <1>2, <1>4, <2>2, <2>3
<1>5. ASSUME NEW p \in Operators, NEW step, step # "write", UNCHANGED offers, Goto(p, step)
      PROVE  RowsOK'
  <2>1. PICK new : new = [operators[p] EXCEPT !.step = step]
    OBVIOUS
  <2>2. operators[p] \in Jobs(operators[p].row)
    BY DEF OffersInv, OffersTypeOK
  <2>3. new.step = step
    BY <2>1, <2>2 DEF Jobs
  <2>4. operators' = [operators EXCEPT ![p] = new]
    BY <1>1, <1>5, <2>1 DEF Goto
  <2> QED
    BY <1>2, <1>5, <2>3, <2>4
<1>6. CASE \E p \in Operators, o \in Offers : \/ \E bounty \in BOOLEAN : Publish(p, o, bounty)
                                             \/ EditBounty(p, o) \/ Update(p, o)
  BY <1>4, <1>6 DEF Publish, EditBounty, Update
<1>7. CASE \E p \in Operators : \E answered \in BOOLEAN : EndOldCor(p, answered)
  <2>1. PICK p \in Operators, answered \in BOOLEAN : EndOldCor(p, answered)
    BY <1>7
  <2> QED
    BY <1>3, <1>5, <2>1 DEF EndOldCor, RowsOK
<1>8. CASE \E p \in Operators : \E c \in Cors, answered \in BOOLEAN : CreateCor(p, c, answered)
  <2>1. PICK p \in Operators, c \in Cors, answered \in BOOLEAN : CreateCor(p, c, answered)
    BY <1>8
  <2>2. CASE answered
    <3>1. PICK step : step = IF operators[p].op = "publish" THEN "golive" ELSE "repoint"
      OBVIOUS
    <3>2. PICK new : new = [operators[p] EXCEPT !.cor = c, !.step = step]
      OBVIOUS
    <3>3. operators[p] \in Jobs(operators[p].row)
      BY DEF OffersInv, OffersTypeOK
    <3>4. new.step = step
      BY <3>2, <3>3 DEF Jobs
    <3>5. operators' = [operators EXCEPT ![p] = new] /\ UNCHANGED offers
      BY <1>1, <2>1, <2>2, <3>1, <3>2 DEF CreateCor
    <3> QED
      BY <1>2, <3>1, <3>4, <3>5
  <2>3. CASE ~answered
    BY <1>3, <2>1, <2>3 DEF CreateCor, RowsOK
  <2> QED
    BY <2>2, <2>3
<1>9. CASE \E p \in Operators : TrioUnreachable(p)
  BY <1>3, <1>9 DEF TrioUnreachable, RowsOK
<1>10. CASE \E p \in Operators : GoLive(p) \/ Repoint(p)
  <2>1. PICK p \in Operators : GoLive(p) \/ Repoint(p)
    BY <1>10
  <2>2. PICK o \in Offers : o = operators[p].offer
    BY <2>1 DEF OffersInv, JobsOK, JobOK, GoLive, Repoint
  <2>3. CASE GoLive(p)
    <3> DEFINE c == operators[p].cor
               row == [offers[o].row EXCEPT !.status = "live"]
               new == [offers[o] EXCEPT !.row = row, !.cor = c]
    <3>1. offers' = [offers EXCEPT ![o] = new]
      BY <2>2, <2>3 DEF GoLive
    <3> HIDE DEF c
    <3>2. IsRowOf(row, o)
      BY StatusIsRow DEF RowsOK
    <3> HIDE DEF row
    <3>3. new.row = row
      BY <1>1
    <3> HIDE DEF new
    <3>4. ASSUME NEW a \in Offers PROVE IsRowOf(offers'[a].row, a)
      BY <1>1, <3>1, <3>2, <3>3 DEF RowsOK
    <3> QED
      BY <1>3, <2>3, <3>4 DEF GoLive
  <2>4. CASE Repoint(p)
    <3>1. PICK new : new = [offers[o] EXCEPT !.cor = operators[p].cor]
      OBVIOUS
    <3>2. offers' = [offers EXCEPT ![o] = new] /\ new.row = offers[o].row
      BY <1>1, <2>2, <2>4, <3>1 DEF Repoint
    <3> QED
      BY <1>1, <1>3, <2>4, <3>2 DEF Repoint, RowsOK
  <2> QED
    BY <2>1, <2>3, <2>4
<1>11. CASE \E p \in Operators : \E patch \in Patches : WriteRow(p, patch)
  <2>1. PICK p \in Operators, patch \in Patches : WriteRow(p, patch)
    BY <1>11
  <2>2. PICK o \in Offers : o = operators[p].offer
    BY <2>1 DEF OffersInv, JobsOK, JobOK, WriteRow
  <2>3. PICK row : row = Edited(operators[p].row, patch, offers[o].row)
    OBVIOUS
  <2>4. PICK new : new = [offers[o] EXCEPT !.row = row]
    OBVIOUS
  <2>5. offers' = [offers EXCEPT ![o] = new] /\ new.row = row
    BY <1>1, <2>1, <2>2, <2>3, <2>4 DEF WriteRow
  <2>6. IsRowOf(row, o)
    BY <2>1, <2>2, <2>3, EditedIsRow DEF WriteRow, RowsOK
  <2> QED
    BY <1>1, <1>3, <2>1, <2>5, <2>6 DEF WriteRow, RowsOK
<1>12. CASE \E o \in Offers : Pause(o) \/ End(o)
  <2>1. PICK o \in Offers : \E next, expect : SetStatus(o, next, expect)
    BY <1>12 DEF Pause, End
  <2>2. PICK next : \E expect : SetStatus(o, next, expect)
    BY <2>1
  <2>3. PICK row : row = [offers[o].row EXCEPT !.status = next]
    OBVIOUS
  <2>4. PICK new : new = [offers[o] EXCEPT !.row = row]
    OBVIOUS
  <2>5. offers' = [offers EXCEPT ![o] = new] /\ new.row = row /\ UNCHANGED operators
    BY <1>1, <2>2, <2>3, <2>4 DEF SetStatus
  <2>6. IsRowOf(row, o)
    BY <2>3, StatusIsRow DEF RowsOK
  <2> QED
    BY <1>1, <2>5, <2>6 DEF RowsOK
<1>13. CASE RestartControlPlane
  BY <1>13 DEF RestartControlPlane, RowsOK, Ready
<1>14. CASE \E c \in Cors : Converts(c)
  BY <1>14 DEF Converts, RowsOK
<1> QED
  BY <1>6, <1>7, <1>8, <1>9, <1>10, <1>11, <1>12, <1>13, <1>14 DEF OffersNext

\* A candidate: an offer that was live when it was found, with what it pointed at.
Candidate(c) ==
  /\ c.offer.id \in Offers /\ IsRowOf(c.offer, c.offer.id) /\ c.offer.status = "live"
  /\ c.cor \in Cors \cup {Null}

\* Candidates in some order, each offer once.
Lineup(s) ==
  /\ s \in Seq(Range(s))
  /\ \A c \in Range(s) : Candidate(c)
  /\ \A i, j \in 1 .. Len(s) : s[i].offer.id = s[j].offer.id => i = j

\* The elements of a sequence by their places.
LEMMA RangeIs ==
  ASSUME NEW s, s \in Seq(Range(s))
  PROVE  /\ Len(s) \in Nat /\ DOMAIN s = 1 .. Len(s)
         /\ \A i \in 1 .. Len(s) : s[i] \in Range(s)
         /\ \A x \in Range(s) : \E i \in 1 .. Len(s) : s[i] = x
<1>1. Len(s) \in Nat /\ DOMAIN s = 1 .. Len(s)
  OBVIOUS
<1> QED
  BY <1>1 DEF Range

\* A sequence of a set is one of its range.
LEMMA SeqOfRange ==
  ASSUME NEW D, NEW s \in Seq(D)
  PROVE  s \in Seq(Range(s)) /\ Range(s) \subseteq D
<1>1. Len(s) \in Nat /\ DOMAIN s = 1 .. Len(s) /\ s = [i \in 1 .. Len(s) |-> s[i]]
      /\ \A i \in 1 .. Len(s) : s[i] \in D
  OBVIOUS
<1>2. \A i \in 1 .. Len(s) : s[i] \in Range(s)
  BY <1>1 DEF Range
<1>3. Range(s) \subseteq D
  BY <1>1 DEF Range
<1> QED
  BY <1>1, <1>2, <1>3

\* An offer stands in a lineup once.
LEMMA LineupOnce ==
  ASSUME NEW s, Lineup(s), NEW c \in Range(s), NEW d \in Range(s), c.offer.id = d.offer.id
  PROVE  c = d
<1>1. s \in Seq(Range(s))
  BY DEF Lineup
<1>2. PICK i \in 1 .. Len(s) : s[i] = c
  BY <1>1, RangeIs
<1>3. PICK j \in 1 .. Len(s) : s[j] = d
  BY <1>1, RangeIs
<1> QED
  BY <1>2, <1>3 DEF Lineup

\* What is selected from a lineup is one.
LEMMA OnlyLineup ==
  ASSUME NEW s, Lineup(s), NEW K \in SUBSET (1 .. Len(s))
  PROVE  Lineup(Only(s, K)) /\ Range(Only(s, K)) = {s[i] : i \in K}
<1>1. PICK o : o = Only(s, K)
  OBVIOUS
<1>2. s \in Seq(Range(s))
  BY DEF Lineup
<1>3. /\ o \in Seq(Range(s)) /\ Range(o) = {s[i] : i \in K}
      /\ Distinct(s) => Distinct(o)
  BY <1>1, <1>2, OnlyThose
<1>4. Distinct(s)
  BY DEF Lineup, Distinct
<1>5. o \in Seq(Range(o)) /\ Range(o) \subseteq Range(s)
  BY <1>3, SeqOfRange
<1>6. \A c \in Range(o) : Candidate(c)
  BY <1>5 DEF Lineup
<1>7. ASSUME NEW i \in 1 .. Len(o), NEW j \in 1 .. Len(o), o[i].offer.id = o[j].offer.id
      PROVE  i = j
  <2>1. o[i] \in Range(s) /\ o[j] \in Range(s)
    BY <1>5, RangeIs
  <2>2. o[i] = o[j]
    BY <1>7, <2>1, LineupOnce
  <2> QED
    BY <1>3, <1>4, <2>2 DEF Distinct
<1> QED
  BY <1>1, <1>3, <1>5, <1>6, <1>7 DEF Lineup

-----------------------------------------------------------------------------
\* A price is never raised, and never below nothing.
LEMMA PriceIsFair ==
  ASSUME NEW m, IsMechanic(m), NEW list \in Nat
  PROVE  applyMechanics(list, m).final \in 0 .. list
<1>1. m.bps \in Nat /\ m.value \in Nat
  BY DEF IsMechanic, Mechanics
<1>2. FloorBps(list, m.bps) \in Int
  <2>1. PICK product : product = list * m.bps
    OBVIOUS
  <2>2. product \in Nat
    BY <1>1, <2>1
  <2> QED
    BY <2>1, <2>2 DEF FloorBps
<1>3. Asked(list, m) \in Int
  BY <1>1, <1>2 DEF Asked
<1>4. Clamp(list, Asked(list, m)) \in 0 .. list
  BY <1>3 DEF Clamp
<1> QED
  BY <1>4 DEF applyMechanics

\* What the order of candidates compares are numbers.
LEMMA ScoreIsInt ==
  ASSUME NEW c, Candidate(c)
  PROVE  Score(c) \in Int /\ c.offer.id \in Int /\ Priority[c.offer.merchant] \in Int
<1>1. IsMechanic(c.offer.mechanics) /\ c.offer.merchant \in Merchants
  BY DEF Candidate, IsRowOf
<1>2. applyMechanics(REFERENCE_LIST_PENCE, c.offer.mechanics).final \in Int
  BY <1>1, PriceIsFair DEF REFERENCE_LIST_PENCE
<1>3. Score(c) \in Int
  BY <1>2 DEF Score, consumerValueScore, REFERENCE_LIST_PENCE
<1> QED
  BY <1>1, <1>3, ReadingAssumption DEF Candidate

\* Of two offers one comes before the other.
LEMMA BeforeIsStrict ==
  ASSUME NEW s, Lineup(s)
  PROVE  StrictOrder(Range(s), {p \in Range(s) \X Range(s) : Before(Priority, p[1], p[2])})
<1> DEFINE R == {p \in Range(s) \X Range(s) : Before(Priority, p[1], p[2])}
           place(c) == -Priority[c.offer.merchant]
           bounty(c) == IF c.cor = Null THEN 1 ELSE 0
           value(c) == -Score(c)
           id(c) == c.offer.id
<1>1. ASSUME NEW c, NEW d
      PROVE Before(Priority, c, d) <=>
              \/ place(c) < place(d)
              \/ place(c) = place(d) /\ bounty(c) < bounty(d)
              \/ place(c) = place(d) /\ bounty(c) = bounty(d) /\ value(c) < value(d)
              \/ place(c) = place(d) /\ bounty(c) = bounty(d) /\ value(c) = value(d) /\ id(c) < id(d)
  <2> DEFINE k == <<place(c), bounty(c), value(c), id(c)>>
             l == <<place(d), bounty(d), value(d), id(d)>>
  <2>1. Before(Priority, c, d) <=> Precedes(k, l)
    BY DEF Before
  <2>2. DOMAIN k = 1 .. 4
    OBVIOUS
  <2>3. /\ k[1] = place(c) /\ k[2] = bounty(c) /\ k[3] = value(c) /\ k[4] = id(c)
        /\ l[1] = place(d) /\ l[2] = bounty(d) /\ l[3] = value(d) /\ l[4] = id(d)
    OBVIOUS
  <2> HIDE DEF k, l, place, bounty, value, id
  <2>4. Precedes(k, l) <=> \E i \in 1 .. 4 : k[i] < l[i] /\ \A j \in 1 .. 4 : j < i => k[j] = l[j]
    BY <2>2 DEF Precedes
  <2>5. 1 .. 4 = {1, 2, 3, 4}
    OBVIOUS
  <2>6. Precedes(k, l) <=>
          \/ k[1] < l[1]
          \/ k[1] = l[1] /\ k[2] < l[2]
          \/ k[1] = l[1] /\ k[2] = l[2] /\ k[3] < l[3]
          \/ k[1] = l[1] /\ k[2] = l[2] /\ k[3] = l[3] /\ k[4] < l[4]
    BY <2>4, <2>5
  <2> QED
    BY <2>1, <2>3, <2>6
<1>2. \A c \in Range(s) : place(c) \in Int /\ bounty(c) \in Int /\ value(c) \in Int /\ id(c) \in Int
  BY ScoreIsInt DEF Lineup
<1>3. \A c, d \in Range(s) : id(c) = id(d) => c = d
  BY LineupOnce
<1>4. \A c, d \in Range(s) : <<c, d>> \in R <=> Before(Priority, c, d)
  OBVIOUS
<1> HIDE DEF R, place, bounty, value, id
<1>5. StrictOrder(Range(s), R)
  BY <1>1, <1>2, <1>3, <1>4 DEF StrictOrder
<1> QED
  BY <1>5 DEF R

\* Every element of T has a number up to n.
Numbers(f, n, T) == n \in Nat /\ f \in [1 .. n -> T] /\ \A x \in T : \E i \in 1 .. n : f[i] = x

\* They are as many as the numbers, if each has one of its own ...
LEMMA CountedOnce ==
  ASSUME NEW T, NEW n, NEW f, Numbers(f, n, T)
  PROVE  /\ IsFiniteSet(T)
         /\ (\A i, j \in 1 .. n : f[i] = f[j] => i = j) => Cardinality(T) = n
         /\ Cardinality(T) = n => \A i, j \in 1 .. n : f[i] = f[j] => i = j
<1>1. 1 \in Int /\ n \in Int
  BY DEF Numbers
<1>2. IsFiniteSet(1 .. n)
  BY <1>1, FS_Interval, Zenon
<1>3. Cardinality(1 .. n) = n
  <2>1. Cardinality(1 .. n) = IF 1 > n THEN 0 ELSE n - 1 + 1
    BY <1>1, FS_Interval, Zenon
  <2> QED
    BY <2>1 DEF Numbers
<1>4. f \in Surjection(1 .. n, T)
  BY DEF Surjection, Numbers
<1>5. f \in Injection(1 .. n, T) <=> \A i, j \in 1 .. n : f[i] = f[j] => i = j
  <2>1. f \in [1 .. n -> T] /\ DOMAIN f = 1 .. n
    BY DEF Numbers
  <2> QED
    BY <2>1 DEF Injection, IsInjective
<1>6. IsFiniteSet(T) /\ (Cardinality(T) = n <=> f \in Injection(1 .. n, T))
  BY <1>2, <1>3, <1>4, FS_Surjection
<1> QED
  BY <1>5, <1>6

\* ... and each has one of its own, if they are as many.
LEMMA OnceCounted ==
  ASSUME NEW T, NEW n, NEW f, Numbers(f, n, T), Cardinality(T) = n,
         NEW i \in 1 .. n, NEW j \in 1 .. n, f[i] = f[j]
  PROVE  i = j
BY CountedOnce

\* The offers of a lineup are as many as its places.
LEMMA LineupCounted ==
  ASSUME NEW s, Lineup(s)
  PROVE  /\ IsFiniteSet(Range(s)) /\ IsFiniteSet(Ids(s))
         /\ Cardinality(Range(s)) = Len(s) /\ Cardinality(Ids(s)) = Len(s)
<1>0. PICK n \in Nat : n = Len(s)
  BY RangeIs DEF Lineup
<1>1. /\ s \in [1 .. n -> Range(s)] /\ \A c \in Range(s) : \E i \in 1 .. n : s[i] = c
      /\ \A i, j \in 1 .. n : s[i].offer.id = s[j].offer.id => i = j
  BY <1>0, RangeIs DEF Lineup
<1>2. IsFiniteSet(Range(s)) /\ Cardinality(Range(s)) = n
  <2>1. Numbers(s, n, Range(s))
    BY <1>1 DEF Numbers
  <2>2. \A i, j \in 1 .. n : s[i] = s[j] => i = j
    BY <1>1
  <2> QED
    BY <2>1, <2>2, CountedOnce
<1>3. IsFiniteSet(Ids(s)) /\ Cardinality(Ids(s)) = n
  <2> DEFINE f == [i \in 1 .. n |-> s[i].offer.id]
  <2>1. Numbers(f, n, Ids(s))
    <3>1. f \in [1 .. n -> Ids(s)]
      BY <1>1 DEF Ids
    <3>2. \A x \in Ids(s) : \E i \in 1 .. n : f[i] = x
      BY <1>1 DEF Ids
    <3> QED
      BY <3>1, <3>2 DEF Numbers
  <2>2. \A i, j \in 1 .. n : f[i] = f[j] => i = j
    BY <1>1
  <2> HIDE DEF f
  <2> QED
    BY <2>1, <2>2, CountedOnce
<1> QED
  BY <1>0, <1>2, <1>3

\* However the offers are ranked, and whatever the sidecar answers, each is there
\* once and no other is.
LEMMA RankIsLineup ==
  ASSUME NEW eligible, Lineup(eligible), NEW order \in Seq(Offers) \cup {Null}
  PROVE  /\ Lineup(rank(eligible, order, Priority))
         /\ Range(rank(eligible, order, Priority)) = Range(eligible)
<1>0. PICK n \in Nat : n = Len(eligible)
  BY RangeIs DEF Lineup
<1>1. \A c \in Range(eligible) : Candidate(c)
  BY DEF Lineup
<1>2. PICK s : s = rank(eligible, order, Priority)
  OBVIOUS
<1>3. ASSUME s \in [1 .. n -> Range(eligible)],
             \A c \in Range(eligible) : \E i \in 1 .. n : s[i] = c
      PROVE  Lineup(s) /\ Range(s) = Range(eligible)
  <2>1. s \in Seq(Range(eligible)) /\ Len(s) = n /\ DOMAIN s = 1 .. n
    BY <1>3
  <2>2. Range(s) = Range(eligible)
    BY <1>3, <2>1 DEF Range
  <2>3. Cardinality(Range(eligible)) = n
    BY <1>0, LineupCounted
  <2>4. \A i, j \in 1 .. n : s[i] = s[j] => i = j
    <3>1. Numbers(s, n, Range(eligible))
      BY <1>3 DEF Numbers
    <3> QED
      BY <2>3, <3>1, OnceCounted
  <2>5. \A i, j \in 1 .. n : s[i].offer.id = s[j].offer.id => i = j
    <3>1. \A i \in 1 .. n : s[i] \in Range(eligible)
      BY <1>3
    <3> QED
      BY <2>4, <3>1, LineupOnce
  <2> QED
    BY <1>1, <2>1, <2>2, <2>5 DEF Lineup
<1>4. CASE eligible # <<>> /\ order # Null /\ isPermutation(order, eligible)
  <2>1. s = [i \in 1 .. n |-> CHOOSE c \in Range(eligible) : c.offer.id = order[i]]
    BY <1>0, <1>2, <1>4 DEF rank, isPermutation
  <2>2. /\ order \in Seq(Offers) /\ Len(order) = n
        /\ {order[i] : i \in 1 .. n} = {c.offer.id : c \in Range(eligible)}
    <3>1. order \in Seq(Offers) /\ Len(order) = n /\ Range(order) = {c.offer.id : c \in Range(eligible)}
      BY <1>0, <1>4 DEF isPermutation, Ids
    <3>2. DOMAIN order = 1 .. n
      BY <3>1
    <3>3. Range(order) = {order[i] : i \in 1 .. n}
      BY <3>2 DEF Range
    <3> QED
      BY <3>1, <3>3
  <2>3. ASSUME NEW i \in 1 .. n
        PROVE  s[i] \in Range(eligible) /\ s[i].offer.id = order[i]
    <3>1. order[i] \in {c.offer.id : c \in Range(eligible)}
      BY <2>2
    <3>2. \E c \in Range(eligible) : c.offer.id = order[i]
      BY <3>1
    <3> QED
      BY <2>1, <3>2
  <2>4. ASSUME NEW c \in Range(eligible) PROVE \E i \in 1 .. n : s[i] = c
    <3>1. c.offer.id \in {order[i] : i \in 1 .. n}
      BY <2>2
    <3>2. PICK i \in 1 .. n : order[i] = c.offer.id
      BY <3>1
    <3>3. s[i] = c
      BY <2>3, <3>2, LineupOnce
    <3> QED
      BY <3>3
  <2> QED
    BY <1>2, <1>3, <2>1, <2>3, <2>4
<1>5. CASE ~(eligible # <<>> /\ order # Null /\ isPermutation(order, eligible))
  <2> DEFINE S == Range(eligible)
             R == {p \in Range(eligible) \X Range(eligible) : Before(Priority, p[1], p[2])}
  <2>1. s = SortedBy(S, R)
    BY <1>2, <1>5 DEF rank, rankByRules
  <2>2. IsFiniteSet(S) /\ Cardinality(S) = n /\ StrictOrder(S, R)
    BY <1>0, LineupCounted, BeforeIsStrict
  <2> HIDE DEF R, S
  <2>3. s \in [1 .. n -> S] /\ \A c \in S : \E i \in 1 .. n : s[i] = c
    BY <2>1, <2>2, SortedByIs
  <2> QED
    BY <1>2, <1>3, <2>3 DEF S
<1> QED
  BY <1>4, <1>5

-----------------------------------------------------------------------------
(* Stacking groups.                                                        *)

\* won holds the winners after each of the first n candidates.
WonUpTo(won, s, n) ==
  won = [i \in 0 .. n |-> IF i = 0 THEN {} ELSE Challenge(won[i - 1], s[i])]

\* There are winners of every number of first candidates.
LEMMA WonExists ==
  ASSUME NEW s, NEW n \in Nat
  PROVE  \E won : WonUpTo(won, s, n)
<1> DEFINE Bad == {m \in Nat : ~\E won : WonUpTo(won, s, m)}
<1> SUFFICES ASSUME Bad # {} PROVE FALSE
  OBVIOUS
<1>1. PICK m \in Bad : \A k \in Bad : m <= k
  BY LeastNumber
<1>2. CASE m = 0
  <2> DEFINE won == [i \in 0 .. 0 |-> {}]
  <2>1. WonUpTo(won, s, 0)
    BY DEF WonUpTo
  <2> QED
    BY <1>1, <1>2, <2>1
<1>3. CASE m # 0
  <2>1. m - 1 \in Nat /\ m - 1 \notin Bad /\ m \in Nat
    BY <1>1, <1>3
  <2>2. PICK old : WonUpTo(old, s, m - 1)
    BY <2>1
  <2>3. /\ DOMAIN old = 0 .. m - 1
        /\ \A i \in 0 .. m - 1 : old[i] = IF i = 0 THEN {} ELSE Challenge(old[i - 1], s[i])
    BY <2>2 DEF WonUpTo
  <2> DEFINE won == [i \in 0 .. m |-> IF i = m THEN Challenge(old[m - 1], s[m]) ELSE old[i]]
  <2>4. \A i \in 0 .. m - 1 : won[i] = old[i]
    BY <2>1
  <2>5. won[m] = Challenge(old[m - 1], s[m])
    BY <2>1
  <2>6. ASSUME NEW i \in 0 .. m
        PROVE  won[i] = IF i = 0 THEN {} ELSE Challenge(won[i - 1], s[i])
    <3>1. CASE i = m
      BY <1>3, <2>1, <2>4, <2>5, <3>1
    <3>2. CASE i # m
      <4>1. i \in 0 .. m - 1 /\ (i # 0 => i - 1 \in 0 .. m - 1)
        BY <2>1, <3>2
      <4> QED
        BY <2>3, <2>4, <4>1
    <3> QED
      BY <3>1, <3>2
  <2>7. won = [i \in 0 .. m |-> won[i]]
    OBVIOUS
  <2> HIDE DEF won
  <2>8. WonUpTo(won, s, m)
    BY <2>6, <2>7 DEF WonUpTo
  <2> QED
    BY <1>1, <2>8
<1> QED
  BY <1>2, <1>3

\* The winners are those after the last candidate.
LEMMA WinnersBy ==
  ASSUME NEW s, Len(s) \in Nat
  PROVE  \E won : WonUpTo(won, s, Len(s)) /\ winners(s) = won[Len(s)]
<1>1. PICK n \in Nat : n = Len(s)
  OBVIOUS
<1>2. \E won : won = [i \in 0 .. n |-> IF i = 0 THEN {} ELSE Challenge(won[i - 1], s[i])]
  BY WonExists DEF WonUpTo
<1> DEFINE won == CHOOSE f : f = [i \in 0 .. n |-> IF i = 0 THEN {} ELSE Challenge(f[i - 1], s[i])]
<1>3. winners(s) = won[n]
  BY <1>1 DEF winners
<1>4. won = [i \in 0 .. n |-> IF i = 0 THEN {} ELSE Challenge(won[i - 1], s[i])]
  BY <1>2
<1> QED
  BY <1>1, <1>3, <1>4 DEF WonUpTo

\* Of a lineup each group that is in it has one winner, and nobody in it is better.
Won(w, s, n) ==
  /\ \A c \in w : c.offer.group # Null /\ \E i \in 1 .. n : s[i] = c
  /\ \A c, d \in w : c.offer.group = d.offer.group => c = d
  /\ \A i \in 1 .. n : s[i].offer.group # Null =>
       \E d \in w : d.offer.group = s[i].offer.group /\ Score(d) >= Score(s[i])

\* A challenge leaves each group with its best so far, and each offer that lost with a better one.
LEMMA ChallengeKeeps ==
  ASSUME NEW s, Lineup(s), NEW n \in Nat, n + 1 \in 1 .. Len(s), NEW w, Won(w, s, n)
  PROVE  Won(Challenge(w, s[n + 1]), s, n + 1)
<1> DEFINE c == s[n + 1]
           rivals == {d \in w : d.offer.group = c.offer.group}
           new == Challenge(w, c)
<1>1. \A i \in 1 .. n + 1 : i \in 1 .. n \/ i = n + 1
  OBVIOUS
<1>2. \A i \in 1 .. n + 1 : Score(s[i]) \in Int /\ s[i].offer.id \in Int
  <2>1. \A i \in 1 .. n + 1 : Candidate(s[i])
    BY RangeIs DEF Lineup
  <2> QED
    BY <2>1, ScoreIsInt
<1>3. \A d \in w : Score(d) \in Int /\ d.offer.id \in Int
  BY <1>2 DEF Won
<1>4. CASE new = w /\ (c.offer.group = Null \/ \E d \in rivals : ~Better(c, d))
  <2>1. c.offer.group # Null => \E d \in w : d.offer.group = c.offer.group /\ Score(d) >= Score(c)
    <3> SUFFICES ASSUME c.offer.group # Null PROVE \E d \in w : d.offer.group = c.offer.group /\ Score(d) >= Score(c)
      OBVIOUS
    <3>1. PICK d \in rivals : ~Better(c, d)
      BY <1>4
    <3>2. Score(d) \in Int /\ Score(c) \in Int
      BY <1>2, <1>3
    <3> QED
      BY <3>1, <3>2 DEF Better
  <2> QED
    BY <1>1, <1>4, <2>1 DEF Won
<1>5. CASE new = (w \ rivals) \cup {c} /\ c.offer.group # Null /\ \A d \in rivals : Better(c, d)
  <2>1. \A d \in new : d.offer.group # Null /\ \E i \in 1 .. n + 1 : s[i] = d
    BY <1>1, <1>5 DEF Won
  <2>2. \A d, e \in new : d.offer.group = e.offer.group => d = e
    BY <1>5 DEF Won
  <2>3. ASSUME NEW i \in 1 .. n + 1, s[i].offer.group # Null
        PROVE  \E d \in new : d.offer.group = s[i].offer.group /\ Score(d) >= Score(s[i])
    <3>1. CASE i = n + 1
      BY <1>2, <1>5, <3>1
    <3>2. CASE i \in 1 .. n
      <4>1. PICK d \in w : d.offer.group = s[i].offer.group /\ Score(d) >= Score(s[i])
        BY <2>3, <3>2 DEF Won
      <4>2. CASE d \in rivals
        <5>1. Score(c) >= Score(d)
          BY <1>2, <1>3, <1>5, <4>2 DEF Better
        <5>2. Score(c) >= Score(s[i])
          BY <1>2, <1>3, <4>1, <5>1
        <5> QED
          BY <1>5, <4>1, <4>2, <5>2
      <4>3. CASE d \notin rivals
        BY <1>5, <4>1, <4>3
      <4> QED
        BY <4>2, <4>3
    <3> QED
      BY <1>1, <3>1, <3>2
  <2> QED
    BY <2>1, <2>2, <2>3 DEF Won
<1> QED
  BY <1>4, <1>5 DEF Challenge

\* So it is after all of them.
LEMMA WinnersWin ==
  ASSUME NEW s, Lineup(s)
  PROVE  Won(winners(s), s, Len(s))
<1>1. PICK n \in Nat : n = Len(s)
  BY RangeIs DEF Lineup
<1>2. PICK won : WonUpTo(won, s, n) /\ winners(s) = won[n]
  BY <1>1, WinnersBy
<1>3. \A i \in 0 .. n : won[i] = IF i = 0 THEN {} ELSE Challenge(won[i - 1], s[i])
  BY <1>2 DEF WonUpTo
<1> DEFINE Bad == {m \in 0 .. n : ~Won(won[m], s, m)}
<1>4. ASSUME Bad # {} PROVE FALSE
  <2>0. Bad \subseteq Nat
    OBVIOUS
  <2>1. PICK m \in Bad : \A k \in Bad : m <= k
    BY <1>4, <2>0, LeastNumber
  <2>2. CASE m = 0
    <3>1. won[m] = {}
      BY <1>3, <2>2
    <3> QED
      BY <2>1, <2>2, <3>1 DEF Won
  <2>3. CASE m # 0
    <3>1. PICK l : l = m - 1
      OBVIOUS
    <3>2. l \in Nat /\ l \in 0 .. n /\ l \notin Bad /\ m = l + 1 /\ m \in 1 .. n
      BY <2>1, <2>3, <3>1
    <3>3. won[l + 1] = Challenge(won[l], s[l + 1])
      BY <1>3, <3>1, <3>2
    <3>4. Won(won[l + 1], s, l + 1)
      BY <1>1, <3>2, <3>3, ChallengeKeeps
    <3> QED
      BY <2>1, <3>2, <3>4
  <2> QED
    BY <2>2, <2>3
<1>5. n \notin Bad
  BY <1>4
<1> QED
  BY <1>1, <1>2, <1>5

-----------------------------------------------------------------------------
(* What the filter and the guardrails leave.                               *)

\* What a filter with these rules makes of the candidates: E passed the checks of
\* their own, of them K came out of their groups.
Filtered(e, candidates, input, rules, E, K) ==
  /\ Lineup(e.eligible) /\ Range(e.eligible) \subseteq K /\ K \subseteq E
  /\ E = {c \in Range(candidates) : Failed(c, input) = {}}
  /\ \A c, d \in K : c.offer.group = d.offer.group => c = d \/ c.offer.group = Null
  /\ \A c \in E \ K : \E d \in K : d.offer.group = c.offer.group /\ Score(d) >= Score(c)
  /\ \A c \in Range(e.eligible) : \A rule \in rules : ~ruleExcludes(rule, c.offer, input)
  /\ e.excluded =
       {[id |-> c.offer.id, reason |-> ReasonFor(c, input)] : c \in Range(candidates) \ E}
       \cup Excluded(E \ K, "STACKING_DEDUPED") \cup Excluded(K \ Range(e.eligible), "MERCHANT_EXCLUDED")

\* The filter does what Filtered says.
LEMMA FilterFilters ==
  ASSUME NEW candidates, Lineup(candidates), NEW input, NEW rules
  PROVE  \E E, K : Filtered(filterEligibility(candidates, input, rules), candidates, input, rules, E, K)
<1> DEFINE places == {i \in DOMAIN candidates : Failed(candidates[i], input) = {}}
           eligible == Only(candidates, places)
           E == Range(eligible)
           kept == dedupeStacking(eligible)
           K == Range(kept)
           standing == {i \in DOMAIN kept : ~\E r \in rules : ruleExcludes(r, kept[i].offer, input)}
           survivors == Only(kept, standing)
           e == filterEligibility(candidates, input, rules)
<1>1. Lineup(eligible) /\ E = {candidates[i] : i \in places}
  <2>1. places \in SUBSET (1 .. Len(candidates))
    BY RangeIs DEF Lineup
  <2> HIDE DEF places
  <2> QED
    BY <2>1, OnlyLineup
<1>2. E = {c \in Range(candidates) : Failed(c, input) = {}}
  <2>1. /\ DOMAIN candidates = 1 .. Len(candidates)
        /\ \A i \in 1 .. Len(candidates) : candidates[i] \in Range(candidates)
        /\ \A x \in Range(candidates) : \E i \in 1 .. Len(candidates) : candidates[i] = x
    BY RangeIs DEF Lineup
  <2> HIDE DEF eligible
  <2> QED
    BY <1>1, <2>1
<1>3. e = [eligible |-> survivors,
           excluded |-> {[id |-> c.offer.id, reason |-> ReasonFor(c, input)] : c \in Range(candidates) \ E}
                        \cup Excluded(E \ K, "STACKING_DEDUPED")
                        \cup Excluded(K \ Range(survivors), "MERCHANT_EXCLUDED")]
  BY DEF filterEligibility
<1> HIDE DEF places, eligible
<1> DEFINE w == winners(eligible)
           ungrouped == {i \in DOMAIN eligible : eligible[i].offer.group = Null \/ eligible[i] \in w}
<1>4. Lineup(kept) /\ K = {eligible[i] : i \in ungrouped}
  <2>1. ungrouped \in SUBSET (1 .. Len(eligible))
    BY <1>1, RangeIs DEF Lineup
  <2>2. kept = Only(eligible, ungrouped)
    BY DEF dedupeStacking
  <2> HIDE DEF ungrouped, kept
  <2> QED
    BY <1>1, <2>1, <2>2, OnlyLineup
<1>5. Won(w, eligible, Len(eligible))
  BY <1>1, WinnersWin
<1> HIDE DEF w
<1>6. K = {c \in E : c.offer.group = Null \/ c \in w}
  <2>1. /\ DOMAIN eligible = 1 .. Len(eligible)
        /\ \A i \in 1 .. Len(eligible) : eligible[i] \in Range(eligible)
        /\ \A x \in Range(eligible) : \E i \in 1 .. Len(eligible) : eligible[i] = x
    BY <1>1, RangeIs DEF Lineup
  <2> HIDE DEF kept
  <2> QED
    BY <1>4, <2>1
<1> HIDE DEF kept, ungrouped
<1>7. \A c \in w : c \in E
  BY <1>1, <1>5, RangeIs DEF Lineup, Won
<1>8. \A c, d \in K : c.offer.group = d.offer.group => c = d \/ c.offer.group = Null
  BY <1>5, <1>6 DEF Won
<1>9. ASSUME NEW c \in E \ K PROVE \E d \in K : d.offer.group = c.offer.group /\ Score(d) >= Score(c)
  <2>1. PICK i \in 1 .. Len(eligible) : eligible[i] = c
    BY <1>1, RangeIs DEF Lineup
  <2>2. c.offer.group # Null
    BY <1>6
  <2>3. PICK d \in w : d.offer.group = c.offer.group /\ Score(d) >= Score(c)
    BY <1>5, <2>1, <2>2 DEF Won
  <2> QED
    BY <1>6, <1>7, <2>3
<1>10. Lineup(survivors) /\ Range(survivors) = {kept[i] : i \in standing}
  <2>1. standing \in SUBSET (1 .. Len(kept))
    BY <1>4, RangeIs DEF Lineup
  <2> HIDE DEF standing
  <2> QED
    BY <1>4, <2>1, OnlyLineup
<1>11. /\ Range(survivors) \subseteq K
       /\ \A c \in Range(survivors) : \A rule \in rules : ~ruleExcludes(rule, c.offer, input)
  <2>1. DOMAIN kept = 1 .. Len(kept) /\ \A i \in 1 .. Len(kept) : kept[i] \in K
    BY <1>4, RangeIs DEF Lineup
  <2> HIDE DEF survivors
  <2> QED
    BY <1>10, <2>1
<1> HIDE DEF survivors, standing
<1>12. e.eligible = survivors
       /\ e.excluded = {[id |-> c.offer.id, reason |-> ReasonFor(c, input)] : c \in Range(candidates) \ E}
                        \cup Excluded(E \ K, "STACKING_DEDUPED")
                        \cup Excluded(K \ Range(survivors), "MERCHANT_EXCLUDED")
  BY <1>3
<1> HIDE DEF e
<1>13. K \subseteq E
  BY <1>6
<1> HIDE DEF E, K
<1>14. Filtered(e, candidates, input, rules, E, K)
  BY <1>2, <1>8, <1>9, <1>10, <1>11, <1>12, <1>13 DEF Filtered
<1> QED
  BY <1>14 DEF e

\* What the guardrails make of a ranking: an offer is shown or has a reason, and
\* where a merchant is low on budget his points are on top.
Guarded(verdict, ranked, input) ==
  /\ Lineup(verdict.passed)
  /\ Range(verdict.passed) = {c \in Range(ranked) : SuppressedFor(c, input, Settings) = "no"}
  /\ verdict.suppressed = {[id |-> c.offer.id, reason |-> SuppressedFor(c, input, Settings)] :
                             c \in Range(ranked) \ Range(verdict.passed)}
  /\ \A i, j \in DOMAIN verdict.passed :
       /\ i < j /\ verdict.passed[i].offer.merchant = verdict.passed[j].offer.merchant
       /\ isPointsDenominated(verdict.passed[j].offer.mechanics)
       /\ verdict.passed[j].offer.merchant \in LowLambda(Range(verdict.passed), input, Settings)
       => isPointsDenominated(verdict.passed[i].offer.mechanics)

\* The guardrails do what Guarded says.
LEMMA GuardrailsGuard ==
  ASSUME NEW ranked, Lineup(ranked), NEW input
  PROVE  Guarded(applyGuardrails(ranked, input, Settings), ranked, input)
<1> DEFINE places == {i \in DOMAIN ranked : SuppressedFor(ranked[i], input, Settings) = "no"}
           shown == Only(ranked, places)
           low == LowLambda(Range(shown), input, Settings)
           first(c) == c.offer.merchant \in low /\ isPointsDenominated(c.offer.mechanics)
           tops == {i \in DOMAIN shown : first(shown[i])}
           rest == {i \in DOMAIN shown : ~first(shown[i])}
           top == Only(shown, tops)
           under == Only(shown, rest)
           verdict == applyGuardrails(ranked, input, Settings)
<1>1. Lineup(shown) /\ Range(shown) = {ranked[i] : i \in places}
  <2>1. places \in SUBSET (1 .. Len(ranked))
    BY RangeIs DEF Lineup
  <2> HIDE DEF places
  <2> QED
    BY <2>1, OnlyLineup
<1>2. Range(shown) = {c \in Range(ranked) : SuppressedFor(c, input, Settings) = "no"}
  <2>1. /\ DOMAIN ranked = 1 .. Len(ranked)
        /\ \A i \in 1 .. Len(ranked) : ranked[i] \in Range(ranked)
        /\ \A x \in Range(ranked) : \E i \in 1 .. Len(ranked) : ranked[i] = x
    BY RangeIs DEF Lineup
  <2> HIDE DEF shown
  <2> QED
    BY <1>1, <2>1
<1>3. /\ verdict.passed = top \o under
      /\ verdict.suppressed = {[id |-> c.offer.id, reason |-> SuppressedFor(c, input, Settings)] :
                                 c \in Range(ranked) \ Range(shown)}
  BY DEF applyGuardrails
<1> HIDE DEF places, shown, verdict, low
<1>4. /\ tops \in SUBSET (1 .. Len(shown)) /\ rest \in SUBSET (1 .. Len(shown))
      /\ tops \cap rest = {} /\ tops \cup rest = 1 .. Len(shown)
      /\ \A i \in tops : first(shown[i])
      /\ \A i \in rest : ~first(shown[i])
  BY <1>1, RangeIs DEF Lineup
<1> HIDE DEF first, tops, rest
<1>5. /\ Lineup(top) /\ Range(top) = {shown[i] : i \in tops}
      /\ Lineup(under) /\ Range(under) = {shown[i] : i \in rest}
  BY <1>1, <1>4, OnlyLineup
<1> HIDE DEF top, under
<1>6. PICK s, m, n : s = top \o under /\ m = Len(top) /\ n = Len(under)
  OBVIOUS
<1>7. /\ m \in Nat /\ n \in Nat /\ Len(s) = m + n /\ DOMAIN s = 1 .. m + n
      /\ \A i \in 1 .. m : s[i] = top[i]
      /\ \A i \in m + 1 .. m + n : s[i] = under[i - m] /\ i - m \in 1 .. n
  <2>1. top \in Seq(Range(top)) /\ under \in Seq(Range(under))
    BY <1>5 DEF Lineup
  <2> QED
    BY <1>6, <2>1
<1>8. /\ \A i \in 1 .. m : s[i] \in Range(top)
      /\ \A i \in m + 1 .. m + n : s[i] \in Range(under)
      /\ \A c \in Range(top) : \E i \in 1 .. m : s[i] = c
      /\ \A c \in Range(under) : \E i \in m + 1 .. m + n : s[i] = c
  <2>1. ASSUME NEW c \in Range(under) PROVE \E i \in m + 1 .. m + n : s[i] = c
    <3>1. PICK k \in 1 .. n : under[k] = c
      BY <1>5, <1>6, RangeIs DEF Lineup
    <3>2. m + k \in m + 1 .. m + n /\ m + k - m = k
      BY <1>7
    <3> QED
      BY <1>7, <3>1, <3>2
  <2>2. /\ \A i \in 1 .. m : top[i] \in Range(top)
        /\ \A c \in Range(top) : \E i \in 1 .. m : top[i] = c
        /\ \A i \in 1 .. n : under[i] \in Range(under)
    BY <1>5, <1>6, RangeIs DEF Lineup
  <2> QED
    BY <1>7, <2>1, <2>2
<1>9. \A i \in 1 .. m + n : i \in 1 .. m \/ i \in m + 1 .. m + n
  BY <1>7
<1>10. Range(top) \cup Range(under) = Range(shown) /\ Range(top) \cap Range(under) = {}
  <2>1. \A i \in 1 .. Len(shown) : shown[i] \in Range(shown)
    BY <1>1, RangeIs DEF Lineup
  <2>2. \A c \in Range(shown) : \E i \in 1 .. Len(shown) : shown[i] = c
    BY <1>1, RangeIs DEF Lineup
  <2>3. \A i, j \in 1 .. Len(shown) : shown[i] = shown[j] => i = j
    BY <1>1 DEF Lineup
  <2> QED
    BY <1>4, <1>5, <2>1, <2>2, <2>3
<1>11. s \in Seq(Range(s)) /\ Range(s) = Range(shown)
  <2>1. Range(s) = Range(top) \cup Range(under)
    <3>1. Range(s) = {s[i] : i \in 1 .. m + n}
      BY <1>7 DEF Range
    <3>2. PICK T, U : T = Range(top) /\ U = Range(under)
      OBVIOUS
    <3>3. /\ \A i \in 1 .. m + n : s[i] \in T \cup U
          /\ \A c \in T \cup U : \E i \in 1 .. m + n : s[i] = c
      BY <1>7, <1>8, <1>9, <3>2
    <3> QED
      BY <3>1, <3>2, <3>3
  <2>2. s \in Seq(Range(top) \cup Range(under))
    BY <1>5, <1>6 DEF Lineup
  <2> QED
    BY <1>10, <2>1, <2>2
<1>12. Lineup(s)
  <2>1. ASSUME NEW i \in 1 .. Len(s), NEW j \in 1 .. Len(s), s[i].offer.id = s[j].offer.id PROVE i = j
    <3>1. s[i] = s[j]
      BY <1>1, <1>11, <2>1, RangeIs, LineupOnce
    <3>2. CASE i \in 1 .. m /\ j \in 1 .. m
      BY <1>5, <1>6, <1>7, <2>1, <3>2 DEF Lineup
    <3>3. CASE i \in m + 1 .. m + n /\ j \in m + 1 .. m + n
      <4>1. PICK k \in 1 .. n, l \in 1 .. n : k = i - m /\ l = j - m /\ s[i] = under[k] /\ s[j] = under[l]
        BY <1>7, <3>3
      <4>2. k = l
        BY <1>5, <1>6, <2>1, <4>1 DEF Lineup
      <4> QED
        BY <1>7, <3>3, <4>1, <4>2
    <3>4. ~(i \in 1 .. m /\ j \in m + 1 .. m + n) /\ ~(j \in 1 .. m /\ i \in m + 1 .. m + n)
      BY <1>8, <1>10, <3>1
    <3> QED
      BY <1>7, <1>9, <3>2, <3>3, <3>4
  <2> QED
    BY <1>1, <1>11, <2>1 DEF Lineup
<1>13. ASSUME NEW i \in 1 .. m + n, NEW j \in 1 .. m + n, i < j, s[i].offer.merchant = s[j].offer.merchant,
              isPointsDenominated(s[j].offer.mechanics), s[j].offer.merchant \in low
       PROVE  isPointsDenominated(s[i].offer.mechanics)
  <2>1. first(s[j])
    BY <1>13 DEF first
  <2>2. j \in 1 .. m
    BY <1>4, <1>5, <1>8, <1>9, <2>1
  <2>3. i \in 1 .. m
    BY <1>7, <1>13, <2>2
  <2>4. first(s[i])
    BY <1>4, <1>5, <1>8, <2>3
  <2> QED
    BY <2>4 DEF first
<1>14. low = LowLambda(Range(s), input, Settings)
  BY <1>11 DEF low
<1>15. verdict.passed = s
  BY <1>3, <1>6
<1>16. Guarded(verdict, ranked, input)
  BY <1>2, <1>3, <1>7, <1>11, <1>12, <1>13, <1>14, <1>15 DEF Guarded
<1> QED
  BY <1>16 DEF verdict

-----------------------------------------------------------------------------
(* What is sound about a read.                                             *)

\* The statuses that a read has are what the trio said of its commitments.
StatusesOK(input) == input.statuses \in [Cors -> CorRows \cup {Null}]

\* A candidate that fails no check passes them all.
LEMMA PassesAll ==
  ASSUME NEW c, NEW input, Failed(c, input) = {}
  PROVE  /\ input.tier \in c.offer.tiers
         /\ c.cor # Null => LET s == input.statuses[c.cor]
                            IN  s # Null /\ s.status = "live" /\ (s.max # Null => ~(s.used >= s.max))
<1> PICK checks : checks = Fails(c, input)
  OBVIOUS
<1>1. \A i \in 1 .. 5 : ~checks[Reasons[i]]
  BY DEF Failed, Reasons
<1>2. /\ Reasons[1] = "OFFER_NOT_LIVE" /\ Reasons[2] = "TIER_INELIGIBLE" /\ Reasons[3] = "SKU_MISMATCH"
      /\ Reasons[4] = "COMMITMENT_ENDED" /\ Reasons[5] = "CAP_EXHAUSTED"
  BY DEF Reasons
<1>3. ~checks.TIER_INELIGIBLE /\ ~checks.COMMITMENT_ENDED /\ ~checks.CAP_EXHAUSTED
  BY <1>1, <1>2
<1> QED
  BY <1>3 DEF Fails

\* Who fails a check is told the name of one that he fails.
LEMMA ReasonIsOne ==
  ASSUME NEW c, NEW input, Failed(c, input) # {}
  PROVE  /\ ReasonFor(c, input) \in {"OFFER_NOT_LIVE", "TIER_INELIGIBLE", "SKU_MISMATCH",
                                     "COMMITMENT_ENDED", "CAP_EXHAUSTED"}
         /\ ReasonFor(c, input) = "OFFER_NOT_LIVE" =>
              ~(c.offer.status = "live" /\ input.now \in c.offer.from .. c.offer.until)
<1> PICK checks : checks = Fails(c, input)
  OBVIOUS
<1>1. Failed(c, input) = {i \in 1 .. 5 : checks[Reasons[i]]}
  BY DEF Failed, Reasons
<1>2. PICK S : S = Failed(c, input)
  OBVIOUS
<1>3. S \subseteq Nat /\ S # {}
  BY <1>1, <1>2
<1>4. \E i \in S : \A j \in S : i <= j
  BY <1>3, LeastNumber
<1>5. PICK i : i = CHOOSE k \in S : \A j \in S : k <= j
  OBVIOUS
<1>6. i \in S
  BY <1>4, <1>5
<1>7. ReasonFor(c, input) = Reasons[i] /\ i \in {1, 2, 3, 4, 5} /\ checks[Reasons[i]]
  BY <1>1, <1>2, <1>5, <1>6 DEF ReasonFor
<1>8. /\ Reasons[1] = "OFFER_NOT_LIVE" /\ Reasons[2] = "TIER_INELIGIBLE" /\ Reasons[3] = "SKU_MISMATCH"
      /\ Reasons[4] = "COMMITMENT_ENDED" /\ Reasons[5] = "CAP_EXHAUSTED"
  BY DEF Reasons
<1>9. ReasonFor(c, input) = "OFFER_NOT_LIVE" => checks.OFFER_NOT_LIVE
  BY <1>7
<1> QED
  BY <1>7, <1>8, <1>9 DEF Fails

\* What came through the filter is eligible, and the rules that stood leave it.
LEMMA FilteredIsSound ==
  ASSUME NEW read, Lineup(read.candidates), StatusesOK(read.input),
         NEW rules, read.standing \subseteq rules, NEW E, NEW K,
         Filtered(read.eligibility, read.candidates, read.input, rules, E, K),
         NEW c \in Range(read.eligibility.eligible)
  PROVE  SoundlyEligible(c, read)
<1>1. /\ c \in Range(read.candidates) /\ Failed(c, read.input) = {}
      /\ \A rule \in rules : ~ruleExcludes(rule, c.offer, read.input)
  BY DEF Filtered
<1>2. c.cor \in Cors \cup {Null}
  BY <1>1 DEF Lineup, Candidate
<1>3. /\ read.input.tier \in c.offer.tiers
      /\ c.cor # Null => LET s == read.input.statuses[c.cor]
                         IN  s # Null /\ s.status = "live" /\ (s.max # Null => ~(s.used >= s.max))
  BY <1>1, PassesAll
<1>4. c.cor # Null => LET s == read.input.statuses[c.cor]
                      IN  s # Null /\ s.status = "live" /\ s.used < s.max
  <2> SUFFICES ASSUME c.cor # Null
               PROVE  LET s == read.input.statuses[c.cor]
                      IN  s # Null /\ s.status = "live" /\ s.used < s.max
    OBVIOUS
  <2>1. PICK s : s = read.input.statuses[c.cor]
    OBVIOUS
  <2>2. s # Null /\ s.status = "live" /\ (s.max # Null => ~(s.used >= s.max))
    BY <1>3, <2>1
  <2>3. s \in CorRows
    BY <1>2, <2>1, <2>2 DEF StatusesOK
  <2>4. s.used \in Int /\ s.max = Cap /\ s.max \in Int /\ s.max # Null
    BY <2>3, ReadingAssumption DEF CorRows
  <2>5. s.used < s.max
    BY <2>2, <2>4
  <2> QED
    BY <2>1, <2>2, <2>5
<1> QED
  BY <1>1, <1>3, <1>4 DEF SoundlyEligible

\* A check tells of every offer what became of it.
LEMMA FilteredChecks ==
  ASSUME NEW read, Lineup(read.candidates), StatusesOK(read.input),
         NEW rules, read.standing \subseteq rules, NEW E, NEW K,
         Filtered(read.eligibility, read.candidates, read.input, rules, E, K)
  PROVE  CheckIsSound(read)
<1> DEFINE e == read.eligibility
           S == Range(read.eligibility.eligible)
<1>1. ASSUME NEW x \in e.excluded
      PROVE  /\ x.reason # "eligible"
             /\ x.reason = "OFFER_NOT_LIVE" =>
                  \E c \in Range(read.candidates) :
                    c.offer.id = x.id /\ read.input.now \notin c.offer.from .. c.offer.until
  <2>1. CASE x \in {[id |-> c.offer.id, reason |-> ReasonFor(c, read.input)] : c \in Range(read.candidates) \ E}
    <3>1. PICK c \in Range(read.candidates) \ E : x = [id |-> c.offer.id, reason |-> ReasonFor(c, read.input)]
      BY <2>1
    <3>2. Failed(c, read.input) # {} /\ c.offer.status = "live"
      BY DEF Filtered, Lineup, Candidate
    <3> QED
      BY <3>1, <3>2, ReasonIsOne
  <2>2. CASE x \in Excluded(E \ K, "STACKING_DEDUPED") \cup Excluded(K \ S, "MERCHANT_EXCLUDED")
    BY <2>2 DEF Excluded
  <2> QED
    BY <2>1, <2>2 DEF Filtered
<1>2. ASSUME NEW c \in Range(read.candidates)
      PROVE  c \in S \/ \E x \in e.excluded : x.id = c.offer.id
  <2>1. CASE c \notin E
    <3>1. [id |-> c.offer.id, reason |-> ReasonFor(c, read.input)] \in e.excluded
      BY <2>1 DEF Filtered
    <3> QED
      BY <3>1
  <2>2. CASE c \in E \ K
    <3>1. [id |-> c.offer.id, reason |-> "STACKING_DEDUPED"] \in e.excluded
      BY <2>2 DEF Filtered, Excluded
    <3> QED
      BY <3>1
  <2>3. CASE c \in K \ S
    <3>1. [id |-> c.offer.id, reason |-> "MERCHANT_EXCLUDED"] \in e.excluded
      BY <2>3 DEF Filtered, Excluded
    <3> QED
      BY <3>1
  <2> QED
    BY <2>1, <2>2, <2>3
<1>3. \A c \in S : SoundlyEligible(c, read)
  BY FilteredIsSound
<1>4. S \subseteq Range(read.candidates)
  BY DEF Filtered
<1> HIDE DEF S, e
<1>5. ASSUME NEW o \in read.input.wanted
      PROVE  /\ results(read)[o] = "eligible" =>
                  \E c \in Range(read.candidates) : c.offer.id = o /\ SoundlyEligible(c, read)
             /\ o \in Ids(read.candidates) => results(read)[o] # "OFFER_NOT_LIVE"
                  \/ \E c \in Range(read.candidates) :
                       c.offer.id = o /\ read.input.now \notin c.offer.from .. c.offer.until
  <2>1. CASE \E c \in S : c.offer.id = o
    <3>1. results(read)[o] = "eligible"
      BY <2>1 DEF results, Ids, S
    <3> QED
      BY <1>3, <1>4, <2>1, <3>1
  <2>2. CASE (~\E c \in S : c.offer.id = o) /\ \E x \in e.excluded : x.id = o
    <3>1. PICK x : x = CHOOSE y \in e.excluded : y.id = o
      OBVIOUS
    <3>2. x \in e.excluded /\ x.id = o
      BY <2>2, <3>1
    <3>3. results(read)[o] = x.reason
      BY <2>2, <3>1 DEF results, Ids, S, e
    <3> QED
      BY <1>1, <3>2, <3>3
  <2>3. CASE (~\E c \in S : c.offer.id = o) /\ ~\E x \in e.excluded : x.id = o
    <3>1. o \notin Ids(read.candidates)
      BY <1>2, <2>3 DEF Ids
    <3>2. results(read)[o] = "OFFER_NOT_LIVE"
      BY <2>3 DEF results, Ids, S, e
    <3> QED
      BY <3>1, <3>2
  <2> QED
    BY <2>1, <2>2, <2>3
<1> QED
  BY <1>5 DEF CheckIsSound

\* What became of a candidate that is not shown.
Fate(c, read, E, K) ==
  IF c \notin E THEN ReasonFor(c, read.input)
  ELSE IF c \notin K THEN "STACKING_DEDUPED"
  ELSE IF c \notin Range(read.eligibility.eligible) THEN "MERCHANT_EXCLUDED"
  ELSE SuppressedFor(c, read.input, Settings)

\* A read whose offers were filtered, ranked and guarded.
Decided(read, rules, ranked, E, K) ==
  /\ Lineup(read.candidates) /\ StatusesOK(read.input) /\ read.standing \subseteq rules
  /\ Filtered(read.eligibility, read.candidates, read.input, rules, E, K)
  /\ Range(ranked) = Range(read.eligibility.eligible)
  /\ Guarded(read.verdict, ranked, read.input)

\* Each candidate that is not shown has one fate, and nobody else has one.
LEMMA FatesAre ==
  ASSUME NEW read, NEW rules, NEW ranked, NEW E, NEW K, Decided(read, rules, ranked, E, K)
  PROVE  {<<e.id, e.reason>> : e \in read.eligibility.excluded \cup read.verdict.suppressed}
           = {<<c.offer.id, Fate(c, read, E, K)>> : c \in Range(read.candidates) \ Range(read.verdict.passed)}
<1> DEFINE A == Range(read.candidates)
           S == Range(read.eligibility.eligible)
           P == Range(read.verdict.passed)
           entry(c) == [id |-> c.offer.id, reason |-> Fate(c, read, E, K)]
<1>1. P \subseteq S /\ S \subseteq K /\ K \subseteq E /\ E \subseteq A
  BY DEF Decided, Filtered, Guarded
<1>2. read.eligibility.excluded =
        {[id |-> c.offer.id, reason |-> ReasonFor(c, read.input)] : c \in A \ E}
        \cup {[id |-> c.offer.id, reason |-> "STACKING_DEDUPED"] : c \in E \ K}
        \cup {[id |-> c.offer.id, reason |-> "MERCHANT_EXCLUDED"] : c \in K \ S}
  BY DEF Decided, Filtered, Excluded
<1>3. read.verdict.suppressed =
        {[id |-> c.offer.id, reason |-> SuppressedFor(c, read.input, Settings)] : c \in S \ P}
  BY DEF Decided, Guarded
<1>4. /\ \A c \in A \ E : Fate(c, read, E, K) = ReasonFor(c, read.input)
      /\ \A c \in E \ K : Fate(c, read, E, K) = "STACKING_DEDUPED"
      /\ \A c \in K \ S : Fate(c, read, E, K) = "MERCHANT_EXCLUDED"
      /\ \A c \in S \ P : Fate(c, read, E, K) = SuppressedFor(c, read.input, Settings)
  BY <1>1 DEF Fate
<1> HIDE DEF A, S, P
<1>5. \A c \in A \ P : entry(c) \in read.eligibility.excluded \cup read.verdict.suppressed
  BY <1>2, <1>3, <1>4
<1>6. \A e \in read.eligibility.excluded \cup read.verdict.suppressed : \E c \in A \ P : e = entry(c)
  <2>1. ASSUME NEW e \in read.eligibility.excluded PROVE \E c \in A \ P : e = entry(c)
    <3>1. CASE e \in {[id |-> c.offer.id, reason |-> ReasonFor(c, read.input)] : c \in A \ E}
      <4>1. PICK c \in A \ E : e = [id |-> c.offer.id, reason |-> ReasonFor(c, read.input)]
        BY <3>1
      <4> QED
        BY <1>1, <1>4, <4>1
    <3>2. CASE e \in {[id |-> c.offer.id, reason |-> "STACKING_DEDUPED"] : c \in E \ K}
      <4>1. PICK c \in E \ K : e = [id |-> c.offer.id, reason |-> "STACKING_DEDUPED"]
        BY <3>2
      <4> QED
        BY <1>1, <1>4, <4>1
    <3>3. CASE e \in {[id |-> c.offer.id, reason |-> "MERCHANT_EXCLUDED"] : c \in K \ S}
      <4>1. PICK c \in K \ S : e = [id |-> c.offer.id, reason |-> "MERCHANT_EXCLUDED"]
        BY <3>3
      <4> QED
        BY <1>1, <1>4, <4>1
    <3> QED
      BY <1>2, <3>1, <3>2, <3>3
  <2>2. ASSUME NEW e \in read.verdict.suppressed PROVE \E c \in A \ P : e = entry(c)
    <3>1. PICK c \in S \ P : e = [id |-> c.offer.id, reason |-> SuppressedFor(c, read.input, Settings)]
      BY <1>3
    <3> QED
      BY <1>1, <1>4, <3>1
  <2> QED
    BY <2>1, <2>2
<1>7. \A c \in A \ P : entry(c).id = c.offer.id /\ entry(c).reason = Fate(c, read, E, K)
  OBVIOUS
<1> HIDE DEF entry
<1>8. ASSUME NEW e \in read.eligibility.excluded \cup read.verdict.suppressed
      PROVE  <<e.id, e.reason>> \in {<<c.offer.id, Fate(c, read, E, K)>> : c \in A \ P}
  <2>1. PICK c \in A \ P : e = entry(c)
    BY <1>6
  <2>2. e.id = c.offer.id /\ e.reason = Fate(c, read, E, K)
    BY <1>7, <2>1
  <2> QED
    BY <2>2
<1>9. ASSUME NEW c \in A \ P
      PROVE  <<c.offer.id, Fate(c, read, E, K)>> \in
               {<<e.id, e.reason>> : e \in read.eligibility.excluded \cup read.verdict.suppressed}
  <2>1. PICK e \in read.eligibility.excluded \cup read.verdict.suppressed : e = entry(c)
    BY <1>5
  <2>2. e.id = c.offer.id /\ e.reason = Fate(c, read, E, K)
    BY <1>7, <2>1
  <2> QED
    BY <2>2
<1> QED
  BY <1>8, <1>9 DEF A, P

\* A filtered, ranked and guarded read is sound.
LEMMA DecidedIsSound ==
  ASSUME NEW read, NEW rules, NEW ranked, NEW E, NEW K, Decided(read, rules, ranked, E, K)
  PROVE  ReadIsSound(read)
<1> DEFINE passed == read.verdict.passed
           A == Range(read.candidates)
           S == Range(read.eligibility.eligible)
           P == Range(passed)
           shown == Ids(passed)
           fates == {<<e.id, e.reason>> : e \in read.eligibility.excluded \cup read.verdict.suppressed}
           names == {f[1] : f \in fates}
           of(id) == CHOOSE c \in A : c.offer.id = id
           stayed(c) == \A f \in fates : f[1] = c.offer.id => f[2] \in
             {"MERCHANT_EXCLUDED", "BUDGET_EXHAUSTED", "BRAND_DENYLIST", "MARGIN_CEILING_EXCEEDED"}
<1>1. P \subseteq S /\ S \subseteq K /\ K \subseteq E /\ E \subseteq A
  BY DEF Decided, Filtered, Guarded
<1>2. fates = {<<c.offer.id, Fate(c, read, E, K)>> : c \in A \ P}
  BY FatesAre
<1>3. \A c, d \in A : c.offer.id = d.offer.id => c = d
  BY LineupOnce DEF Decided
<1> HIDE DEF fates
<1>4. ASSUME NEW f \in fates
      PROVE  \E c \in A \ P : f = <<c.offer.id, Fate(c, read, E, K)>> /\ f[1] = c.offer.id
                              /\ f[2] = Fate(c, read, E, K)
  <2>1. PICK c \in A \ P : f = <<c.offer.id, Fate(c, read, E, K)>>
    BY <1>2
  <2> QED
    BY <2>1
<1>5. ASSUME NEW c \in A \ P
      PROVE  \E f \in fates : f[1] = c.offer.id
  <2>1. <<c.offer.id, Fate(c, read, E, K)>> \in fates
    BY <1>2
  <2> QED
    BY <2>1
<1>6. names = {c.offer.id : c \in A \ P}
  <2>1. ASSUME NEW f \in fates PROVE f[1] \in {c.offer.id : c \in A \ P}
    BY <1>4
  <2>2. ASSUME NEW c \in A \ P PROVE c.offer.id \in {f[1] : f \in fates}
    BY <1>5
  <2> QED
    BY <2>1, <2>2
<1>7. shown = {c.offer.id : c \in P} /\ Ids(read.candidates) = {c.offer.id : c \in A}
  BY DEF Ids
<1>8. shown \cup names = Ids(read.candidates) /\ shown \cap names = {}
  <2> HIDE DEF names, shown, A, P
  <2>1. /\ \A x : x \in names <=> \E c \in A : c \notin P /\ x = c.offer.id
        /\ \A x : x \in shown <=> \E c \in P : x = c.offer.id
        /\ \A x : x \in Ids(read.candidates) <=> \E c \in A : x = c.offer.id
    BY <1>6, <1>7
  <2>2. P \subseteq A
    BY <1>1
  <2> QED
    BY <1>3, <2>1, <2>2
<1>9. Cardinality(fates) = Cardinality(names)
  <2> DEFINE g == [f \in fates |-> f[1]]
  <2>1. IsFiniteSet(names)
    <3>1. IsFiniteSet(Ids(read.candidates))
      BY LineupCounted DEF Decided
    <3>2. names \in SUBSET Ids(read.candidates)
      BY <1>8
    <3> HIDE DEF names
    <3> QED
      BY <3>1, <3>2, FS_Subset
  <2>2. g \in Injection(fates, names)
    <3>1. \A f, h \in fates : f[1] = h[1] => f = h
      BY <1>3, <1>4
    <3> QED
      BY <3>1 DEF Injection, IsInjective
  <2>3. g \in Surjection(fates, names)
    BY DEF Surjection
  <2> HIDE DEF g, names
  <2> QED
    BY <2>1, <2>2, <2>3, FS_Injection
<1>10. Cardinality(shown) = Len(passed)
  BY LineupCounted DEF Decided, Guarded
<1>11. \A c, d \in P : c.offer.group = d.offer.group => c = d \/ c.offer.group = Null
  BY <1>1 DEF Decided, Filtered
<1>12. \A c \in P : SoundlyEligible(c, read)
  BY <1>1, FilteredIsSound DEF Decided
<1>13. ASSUME NEW c \in P, c.cor # Null PROVE read.input.statuses[c.cor].budget > 0
  <2>1. PICK s : s = read.input.statuses[c.cor]
    OBVIOUS
  <2>2. s # Null
    BY <1>12, <1>13, <2>1 DEF SoundlyEligible
  <2>3. c.cor \in Cors
    BY <1>1, <1>13 DEF Decided, Lineup, Candidate
  <2>4. s.budget \in Int
    BY <2>1, <2>2, <2>3 DEF Decided, StatusesOK, CorRows
  <2>5. SuppressedFor(c, read.input, Settings) = "no"
    BY DEF Decided, Guarded
  <2>6. ~(s # Null /\ s.budget # Null /\ s.budget <= 0)
    BY <1>13, <2>1, <2>5 DEF SuppressedFor
  <2>7. s.budget > 0
    BY <2>2, <2>4, <2>6, ReadingAssumption
  <2> QED
    BY <2>1, <2>7
<1>14. ASSUME NEW c \in A \ P
       PROVE  /\ Fate(c, read, E, K) = "STACKING_DEDUPED" => c \in E \ K
              /\ c \in K => Fate(c, read, E, K) \in
                   {"MERCHANT_EXCLUDED", "BUDGET_EXHAUSTED", "BRAND_DENYLIST", "MARGIN_CEILING_EXCEEDED"}
  <2>1. CASE c \notin E
    <3>1. Failed(c, read.input) # {}
      BY <2>1 DEF Decided, Filtered
    <3> QED
      BY <1>1, <2>1, <3>1, ReasonIsOne DEF Fate
  <2>2. CASE c \in E \ K
    BY <2>2
  <2>3. CASE c \in K \ S
    BY <1>1, <2>3 DEF Fate
  <2>4. CASE c \in S \ P
    <3>1. SuppressedFor(c, read.input, Settings) # "no"
      BY <2>4 DEF Decided, Guarded
    <3>2. SuppressedFor(c, read.input, Settings) \in
            {"BUDGET_EXHAUSTED", "BRAND_DENYLIST", "MARGIN_CEILING_EXCEEDED"}
      BY <3>1 DEF SuppressedFor
    <3>3. Fate(c, read, E, K) = SuppressedFor(c, read.input, Settings)
      BY <1>1, <2>4 DEF Fate
    <3> QED
      BY <1>1, <2>4, <3>2, <3>3
  <2> QED
    BY <2>1, <2>2, <2>3, <2>4
<1>15. ASSUME NEW f \in fates, f[2] = "STACKING_DEDUPED"
       PROVE  \E d \in A : /\ d.offer.group = of(f[1]).offer.group /\ stayed(d)
                           /\ Score(d) >= Score(of(f[1]))
  <2>1. PICK c \in A \ P : f[1] = c.offer.id /\ f[2] = Fate(c, read, E, K)
    BY <1>4
  <2>2. of(f[1]) = c
    BY <1>3, <2>1
  <2>3. c \in E \ K
    BY <1>14, <1>15, <2>1
  <2>4. PICK d \in K : d.offer.group = c.offer.group /\ Score(d) >= Score(c)
    BY <2>3 DEF Decided, Filtered
  <2>5. stayed(d)
    <3>1. ASSUME NEW h \in fates, h[1] = d.offer.id
          PROVE  h[2] \in {"MERCHANT_EXCLUDED", "BUDGET_EXHAUSTED", "BRAND_DENYLIST",
                           "MARGIN_CEILING_EXCEEDED"}
      <4>1. PICK b \in A \ P : h[1] = b.offer.id /\ h[2] = Fate(b, read, E, K)
        BY <1>4
      <4>2. b = d
        BY <1>1, <1>3, <3>1, <4>1
      <4> QED
        BY <1>14, <4>1, <4>2
    <3> QED
      BY <3>1
  <2> HIDE DEF of, stayed
  <2> QED
    BY <1>1, <2>2, <2>4, <2>5
<1>16. \A i, j \in DOMAIN passed :
         /\ i < j /\ passed[i].offer.merchant = passed[j].offer.merchant
         /\ isPointsDenominated(passed[j].offer.mechanics)
         /\ passed[j].offer.merchant \in LowLambda(P, read.input, Settings)
         => isPointsDenominated(passed[i].offer.mechanics)
  BY DEF Decided, Guarded
<1> QED
  BY <1>8, <1>9, <1>10, <1>11, <1>12, <1>13, <1>15, <1>16 DEF ReadIsSound, fates

-----------------------------------------------------------------------------
(* The invariant of reading.                                               *)

Asking == {input.agent : input \in Inputs}
InputOK(input) ==
  /\ input = [ agent |-> input.agent, tier |-> input.tier, segment |-> input.segment,
               sku |-> input.sku, now |-> input.now, mandate |-> input.mandate,
               statuses |-> input.statuses, wanted |-> input.wanted ]
  /\ input.agent \in Asking /\ input.now \in Int /\ StatusesOK(input)

IsRead(read) ==
  read = [ step |-> read.step, id |-> read.id, input |-> read.input, candidates |-> read.candidates,
           asked |-> read.asked, eligibility |-> read.eligibility, granted |-> read.granted,
           pd |-> read.pd, verdict |-> read.verdict, todo |-> read.todo, token |-> read.token,
           withheld |-> read.withheld, standing |-> read.standing ]

\* A read has a number of its own, and candidates with commitments of theirs.
FormOK(read) ==
  /\ IsRead(read)
  /\ read.step # "idle" =>
       /\ read.id \in 1 .. made /\ InputOK(read.input) /\ Lineup(read.candidates)
       /\ \A c \in Range(read.candidates) : c.cor # Null => IsFor(c.cor, c.offer.id)

\* Rules that stand were there when the filter read them, and the rest follows.
RulesOK(read) ==
  /\ read.step = "statuses" => read.standing \subseteq eligibility_rules
  /\ read.step \in {"results", "mandate", "items", "decide", "quote", "row"} =>
       \E rules, E, K : /\ read.standing \subseteq rules
                        /\ Filtered(read.eligibility, read.candidates, read.input, rules, E, K)
  /\ read.step \in {"quote", "row"} => \E rules, ranked, E, K : Decided(read, rules, ranked, E, K)

\* What is withheld stays so by what was true when the read asked.
ConsentOK(read) ==
  /\ read.pd \cap read.withheld = {}
  /\ read.step \in {"statuses", "mandate"} =>
       \A k \in Keys : k \in read.withheld => flags = Null \/ pd_store[k] # TRUE \/ Class[k] \notin flags
  /\ read.step = "items" =>
       \A k \in Keys : k \in read.withheld => pd_store[k] # TRUE \/ Class[k] \notin read.granted

\* Nothing is quoted before it is decided, and then the offers still to be quoted
\* have no quote, and no token but the one in hand.
Unquoted(id) ==
  (\A q \in quotes : q.qid[1] # id) /\ \A i \in DOMAIN tokens : tokens[i].qid[1] # id

TodoOK(read) ==
 /\ read.step \in {"statuses", "results", "mandate", "items", "decide"} => Unquoted(read.id)
 /\ read.step \in {"quote", "row"} =>
    /\ Lineup(read.todo) /\ Range(read.todo) \subseteq Range(read.candidates)
    /\ \A c \in Range(read.todo) : c.cor # Null
    /\ \A q \in quotes : \A c \in Range(read.todo) : q.qid # <<read.id, c.offer.id>>
    /\ \A i \in DOMAIN tokens : \A c \in Range(read.todo) :
         tokens[i].qid = <<read.id, c.offer.id>> => read.step = "row" /\ c = read.todo[1]
    /\ read.step = "row" =>
         /\ read.todo # <<>>
         /\ read.token # Null =>
              /\ \E i \in DOMAIN tokens : tokens[i] = read.token
              /\ read.token.qid = <<read.id, read.todo[1].offer.id>>
              /\ read.token.cor = read.todo[1].cor /\ read.token.aid = read.input.agent
              /\ read.token.exp \in Int

Minted == [qid : Nat \X Offers, cor : Cors, aid : Asking, exp : Int]

QuotesOK ==
  /\ QuotesAreHonest
  /\ tokens \in Seq(Minted) /\ \A i \in DOMAIN tokens : tokens[i].qid[1] <= made
  /\ \A q \in quotes : q.qid \in (1 .. made) \X Offers /\ IsFor(q.cor, q.offer)

ReadOK(read) == FormOK(read) /\ RulesOK(read) /\ ConsentOK(read) /\ TodoOK(read)

ReadsOK ==
  /\ reads = [r \in Readers |-> reads[r]] /\ made \in Nat
  /\ pd_store = [k \in Keys |-> pd_store[k]]
  /\ \A r \in Readers : ReadOK(reads[r])
  /\ \A r, q \in Readers :
       r # q /\ reads[r].step # "idle" /\ reads[q].step # "idle" => reads[r].id # reads[q].id

ReadingInv == OffersInv /\ RowsOK /\ ReadsOK /\ QuotesOK

\* The invariant implies the three properties of the run.
LEMMA ReadingIsSafe == ReadingInv => ReadsAreSound /\ QuotesAreHonest /\ WithheldStaysHome
<1> SUFFICES ASSUME ReadingInv PROVE ReadsAreSound /\ QuotesAreHonest /\ WithheldStaysHome
  OBVIOUS
<1>1. ASSUME NEW r \in Readers, reads[r].step = "quote" PROVE ReadIsSound(reads[r])
  <2>1. \E rules, ranked, E, K : Decided(reads[r], rules, ranked, E, K)
    BY <1>1 DEF ReadingInv, ReadsOK, ReadOK, RulesOK
  <2> QED
    BY <2>1, DecidedIsSound
<1>2. ASSUME NEW r \in Readers, reads[r].step = "results" PROVE CheckIsSound(reads[r])
  <2> PICK read : read = reads[r]
    OBVIOUS
  <2>1. Lineup(read.candidates) /\ StatusesOK(read.input)
    BY <1>2 DEF ReadingInv, ReadsOK, ReadOK, FormOK, InputOK
  <2>2. PICK rules, E, K : /\ read.standing \subseteq rules
                           /\ Filtered(read.eligibility, read.candidates, read.input, rules, E, K)
    BY <1>2 DEF ReadingInv, ReadsOK, ReadOK, RulesOK
  <2>3. CheckIsSound(read)
    BY <2>1, <2>2, FilteredChecks
  <2> QED
    BY <2>3
<1>3. WithheldStaysHome
  BY DEF ReadingInv, ReadsOK, ReadOK, ConsentOK, WithheldStaysHome
<1> QED
  BY <1>1, <1>2, <1>3 DEF ReadsAreSound, ReadingInv, QuotesOK

\* A reader without a read is as it should be ...
LEMMA NoReadOK == ReadOK(NoRead)
BY DEF NoRead, ReadOK, FormOK, IsRead, RulesOK, ConsentOK, TodoOK

\* ... after a step, too.
LEMMA NoReadOKLater == ReadOK(NoRead)'
BY DEF NoRead, ReadOK, FormOK, IsRead, RulesOK, ConsentOK, TodoOK

\* The market starts as it should.
LEMMA ReadsStart ==
  ASSUME OffersInit, ReadingInit, pd_store \in [Keys -> BOOLEAN \cup {Null}]
  PROVE  ReadingInv
<1>1. OffersInv /\ RowsOK
  BY OffersInvInit, RowsStart
<1>2. /\ reads = [r \in Readers |-> reads[r]] /\ \A r \in Readers : reads[r] = NoRead
      /\ made = 0 /\ quotes = {} /\ tokens = <<>>
  BY DEF ReadingInit
<1>3. NoRead.step = "idle"
  BY DEF NoRead
<1>4. ReadsOK
  BY <1>2, <1>3, NoReadOK DEF ReadsOK
<1>5. tokens \in Seq(Minted) /\ DOMAIN tokens = {}
  BY <1>2
<1>6. QuotesOK
  BY <1>2, <1>5 DEF QuotesOK, QuotesAreHonest
<1> QED
  BY <1>1, <1>4, <1>6 DEF ReadingInv

\* A step of one read.
ReadMoves(r, new) ==
  /\ reads' = [reads EXCEPT ![r] = new]
  /\ UNCHANGED <<flags, eligibility_rules, pd_store, offerVars>>

\* It is kept if the read itself stays as it should, and only its quotes and tokens
\* come to the others.
LEMMA ReadStep ==
  ASSUME ReadingInv, NEW r \in Readers, NEW new, ReadMoves(r, new), ReadOK(new)',
         made' \in Nat, made <= made', QuotesOK',
         \A q \in quotes' : q \in quotes \/ (new.step # "idle" /\ q.qid[1] = new.id),
         \A i \in DOMAIN tokens : i \in DOMAIN tokens' /\ tokens'[i] = tokens[i],
         \A i \in DOMAIN tokens' : i \in DOMAIN tokens \/ (new.step # "idle" /\ tokens'[i].qid[1] = new.id),
         new.step # "idle" => (reads[r].step # "idle" /\ new.id = reads[r].id) \/ new.id = made + 1
  PROVE  ReadingInv'
<1>1. OffersInv' /\ RowsOK'
  BY DEF ReadingInv, ReadMoves, offerVars, OffersInv, OffersTypeOK, HistoryIsKept, HistoryOK, JobsOK, JobOK,
         IsFor, Holds, RowsOK
<1>2. reads' = [q \in Readers |-> reads'[q]] /\ reads'[r] = new
      /\ \A q \in Readers : q # r => reads'[q] = reads[q]
  BY DEF ReadingInv, ReadsOK, ReadMoves
<1>3. \A q \in Readers : q # r /\ reads[q].step # "idle" /\ new.step # "idle" => reads[q].id # new.id
  BY DEF ReadingInv, ReadsOK, ReadOK, FormOK
<1>4. ASSUME NEW q \in Readers, q # r PROVE ReadOK(reads[q])'
  <2> PICK read : read = reads[q]
    OBVIOUS
  <2>1. ReadOK(read) /\ made \in Nat
    BY DEF ReadingInv, ReadsOK
  <2>2. FormOK(read)'
    BY <2>1 DEF ReadOK, FormOK, IsFor, ReadMoves, offerVars
  <2>3. RulesOK(read)' /\ ConsentOK(read)'
    BY <2>1 DEF ReadOK, RulesOK, ConsentOK, ReadMoves
  <2>4. TodoOK(read)'
    <3> SUFFICES ASSUME read.step # "idle" PROVE TodoOK(read)'
      BY DEF TodoOK
    <3>1. new.step # "idle" => read.id # new.id
      BY <1>3, <1>4
    <3>5. Unquoted(read.id) => Unquoted(read.id)'
      BY <3>1 DEF Unquoted
    <3>6. CASE read.step \notin {"quote", "row"}
      BY <2>1, <3>5, <3>6 DEF ReadOK, TodoOK
    <3> SUFFICES ASSUME read.step \in {"quote", "row"} PROVE TodoOK(read)'
      BY <3>6
    <3>2. \A q1 \in quotes' : \A c \in Range(read.todo) : q1.qid # <<read.id, c.offer.id>>
      BY <2>1, <3>1 DEF ReadOK, TodoOK
    <3>3. \A i \in DOMAIN tokens' : \A c \in Range(read.todo) :
            tokens'[i].qid = <<read.id, c.offer.id>> => read.step = "row" /\ c = read.todo[1]
      BY <2>1, <3>1 DEF ReadOK, TodoOK
    <3>4. (\E i \in DOMAIN tokens : tokens[i] = read.token) => \E i \in DOMAIN tokens' : tokens'[i] = read.token
      OBVIOUS
    <3> QED
      BY <2>1, <3>2, <3>3, <3>4 DEF ReadOK, TodoOK
  <2>5. ReadOK(read)'
    BY <2>2, <2>3, <2>4 DEF ReadOK
  <2>6. reads'[q] = read
    BY <1>2, <1>4
  <2> QED
    BY <2>5, <2>6
<1>5. ReadOK(reads[r])'
  BY <1>2
<1>6. ASSUME NEW q \in Readers, NEW p \in Readers, q # p, reads'[q].step # "idle", reads'[p].step # "idle"
      PROVE  reads'[q].id # reads'[p].id
  BY <1>2, <1>3, <1>6 DEF ReadingInv, ReadsOK
<1>7. pd_store' = [k \in Keys |-> pd_store'[k]]
  BY DEF ReadingInv, ReadsOK, ReadMoves
<1>8. ReadsOK'
  BY <1>2, <1>4, <1>5, <1>6, <1>7 DEF ReadsOK
<1> QED
  BY <1>1, <1>8 DEF ReadingInv

\* Quotes and tokens that stay are as honest as they were.
LEMMA QuotesStay ==
  ASSUME QuotesOK, made \in Nat, made' \in Nat, made <= made', UNCHANGED <<quotes, tokens, cors>>
  PROVE  QuotesOK'
<1>1. QuotesAreHonest'
  BY DEF QuotesOK, QuotesAreHonest, getQuote
<1>2. \A i \in DOMAIN tokens : tokens[i].qid[1] \in Nat
  <2>1. \A i \in DOMAIN tokens : tokens[i] \in Minted
    BY DEF QuotesOK
  <2>2. \A token \in Minted : token.qid \in Nat \X Offers
    BY DEF Minted
  <2> QED
    BY <2>1, <2>2
<1> QED
  BY <1>1, <1>2 DEF QuotesOK, IsFor

\* A step of one read that quotes nothing.
LEMMA QuietStep ==
  ASSUME ReadingInv, NEW r \in Readers, NEW new, ReadMoves(r, new), ReadOK(new),
         UNCHANGED <<made, quotes, tokens>>,
         new.step # "idle" => reads[r].step # "idle" /\ new.id = reads[r].id
  PROVE  ReadingInv'
<1>1. FormOK(new)'
  BY DEF ReadOK, FormOK, IsFor, ReadMoves, offerVars
<1>2. RulesOK(new)' /\ ConsentOK(new)' /\ TodoOK(new)'
  BY DEF ReadOK, RulesOK, ConsentOK, TodoOK, Unquoted, ReadMoves
<1>3. QuotesOK'
  BY QuotesStay DEF ReadingInv, ReadsOK, ReadMoves, offerVars
<1>4. ReadOK(new)'
  BY <1>1, <1>2 DEF ReadOK
<1> QED
  BY <1>3, <1>4, ReadStep DEF ReadingInv, ReadsOK

\* A read that is over.
LEMMA ReadEnds ==
  ASSUME ReadingInv, NEW r \in Readers, reads' = [reads EXCEPT ![r] = NoRead], OnlyReads
  PROVE  ReadingInv'
<1>1. PICK new : new = NoRead
  OBVIOUS
<1>2. ReadMoves(r, new) /\ UNCHANGED <<made, quotes, tokens>> /\ new.step = "idle"
  BY <1>1 DEF ReadMoves, OnlyReads, sources, NoRead
<1> QED
  BY <1>1, <1>2, NoReadOK, QuietStep

\* What a query finds is a lineup, each offer with a commitment of its own.
Found(ids) == [i \in 1 .. Len(ids) |-> [offer |-> offers[ids[i]].row, cor |-> offers[ids[i]].cor]]

\* So it is for any set of live offers.
LEMMA FoundAre ==
  ASSUME ReadingInv, NEW matching \in SUBSET Offers, \A o \in matching : offers[o].row.status = "live",
         NEW ids, ids = Ascending(matching), NEW s, s = Found(ids)
  PROVE  Lineup(s) /\ \A c \in Range(s) : c.cor # Null => IsFor(c.cor, c.offer.id)
<1> DEFINE R == {p \in matching \X matching : p[1] < p[2]}
<1>1. \A o \in Offers : o \in Int
  BY ReadingAssumption
<1>2. IsFiniteSet(matching)
  BY ReadingAssumption, FS_Subset
<1>3. StrictOrder(matching, R)
  BY <1>1 DEF StrictOrder
<1>4. ids = SortedBy(matching, R)
  BY DEF Ascending
<1> HIDE DEF R
<1>5. PICK n \in Nat : n = Cardinality(matching)
  BY <1>2, FS_CardinalityType
<1>6. /\ ids \in [1 .. n -> matching]
      /\ \A j, k \in 1 .. n : ids[j] = ids[k] => j = k
  BY <1>2, <1>3, <1>4, <1>5, SortedByIs
<1>7. Len(ids) = n
  BY <1>6
<1>8. s = [i \in 1 .. n |-> [offer |-> offers[ids[i]].row, cor |-> offers[ids[i]].cor]]
  BY <1>7 DEF Found
<1>9. ASSUME NEW i \in 1 .. n
      PROVE  /\ Candidate(s[i]) /\ s[i].offer.id = ids[i]
             /\ s[i].cor # Null => IsFor(s[i].cor, s[i].offer.id)
  <2>1. PICK o \in matching : o = ids[i]
    BY <1>6
  <2>2. s[i].offer = offers[o].row /\ s[i].cor = offers[o].cor
    BY <1>8, <2>1
  <2>3. /\ offers[o].row.id = o /\ IsRowOf(offers[o].row, o) /\ offers[o].row.status = "live"
    BY DEF ReadingInv, RowsOK, IsRowOf
  <2>4. offers[o].cor \in Cors \cup {Null}
    BY DEF ReadingInv, OffersInv, OffersTypeOK, OfferRows
  <2>5. offers[o].cor # Null => IsFor(offers[o].cor, o)
    BY DEF ReadingInv, OffersInv, HistoryIsKept, HistoryOK
  <2> QED
    BY <2>1, <2>2, <2>3, <2>4, <2>5 DEF Candidate
<1>10. s \in Seq({s[i] : i \in 1 .. n}) /\ Len(s) = n /\ DOMAIN s = 1 .. n
  <2>1. PICK D : D = {s[i] : i \in 1 .. n}
    OBVIOUS
  <2>2. s = [i \in 1 .. n |-> s[i]] /\ \A i \in 1 .. n : s[i] \in D
    BY <1>8, <2>1
  <2>3. Len(s) = n /\ DOMAIN s = 1 .. n
    BY <1>8
  <2>4. s \in Seq(D)
    BY <2>2
  <2> QED
    BY <2>1, <2>3, <2>4
<1>11. s \in Seq(Range(s)) /\ Range(s) = {s[i] : i \in 1 .. n}
  BY <1>10 DEF Range
<1>12. \A i, j \in 1 .. n : s[i].offer.id = s[j].offer.id => i = j
  BY <1>6, <1>9
<1> QED
  BY <1>9, <1>10, <1>11, <1>12 DEF Lineup

\* A read starts with a number of its own and with what the query finds.
LEMMA CandidatesKeeps ==
  ASSUME ReadingInv, NEW r \in Readers, NEW input \in Inputs, Candidates(r, input)
  PROVE  ReadingInv'
<1> DEFINE matching == {o \in Offers : /\ offers[o].row.status = "live"
                                       /\ input.sku = Null \/ skuMatches(offers[o].row, input.sku)
                                       /\ input.wanted = Null \/ o \in input.wanted}
           ids == Ascending(matching)
           found == Found(ids)
           asked == {offers[o].cor : o \in matching} \ {Null}
           kept == {k \in Keys : flags = Null \/ pd_store[k] # TRUE \/ Class[k] \notin flags}
           asks == [input EXCEPT !.statuses = NoStatuses]
           read == [NoRead EXCEPT !.step = "statuses", !.id = made', !.input = asks, !.candidates = found,
                                  !.asked = asked, !.withheld = kept, !.standing = listRules]
<1>1. /\ reads' = [reads EXCEPT ![r] = read] /\ made' = made + 1
      /\ UNCHANGED <<offerVars, quotes, suppressions, tokens, sources>>
  BY DEF Candidates, Found
<1>2. PICK s : s = found
  OBVIOUS
<1>3. Lineup(s) /\ \A c \in Range(s) : c.cor # Null => IsFor(c.cor, c.offer.id)
  <2>1. matching \in SUBSET Offers /\ \A o \in matching : offers[o].row.status = "live"
    OBVIOUS
  <2> HIDE DEF matching
  <2> QED
    BY <1>2, <2>1, FoundAre
<1> HIDE DEF matching, ids, asked
<1>4. PICK ask : ask = asks
  OBVIOUS
<1>5. InputOK(ask)
  <2>1. input = [ agent |-> input.agent, tier |-> input.tier, segment |-> input.segment,
                  sku |-> input.sku, now |-> input.now, mandate |-> input.mandate,
                  statuses |-> input.statuses, wanted |-> input.wanted ] /\ input.now \in Int
    BY ReadingAssumption
  <2>2. NoStatuses \in [Cors -> CorRows \cup {Null}]
    BY DEF NoStatuses
  <2>3. ask = [ agent |-> input.agent, tier |-> input.tier, segment |-> input.segment,
                sku |-> input.sku, now |-> input.now, mandate |-> input.mandate,
                statuses |-> NoStatuses, wanted |-> input.wanted ]
    BY <1>4, <2>1
  <2> QED
    BY <2>1, <2>2, <2>3 DEF InputOK, StatusesOK, Asking
<1>6. PICK new : new = read
  OBVIOUS
<1>7. /\ new.step = "statuses" /\ new.id = made + 1 /\ new.input = ask /\ new.candidates = s
      /\ new.withheld = kept /\ new.standing = eligibility_rules /\ new.pd = {} /\ IsRead(new)
  BY <1>1, <1>2, <1>4, <1>6 DEF NoRead, IsRead, listRules
<1>8. made \in Nat /\ made' \in Nat /\ made <= made' /\ new.id \in 1 .. made' /\ made' = made + 1
  BY <1>1, <1>7 DEF ReadingInv, ReadsOK
<1>9. ReadMoves(r, new)
  BY <1>1, <1>6 DEF ReadMoves, sources
<1>10. ReadOK(new)'
  <2>1. FormOK(new)'
    BY <1>3, <1>5, <1>7, <1>8, <1>9 DEF FormOK, ReadMoves, offerVars, IsFor
  <2>2. RulesOK(new)' /\ ConsentOK(new)'
    BY <1>7, <1>9 DEF RulesOK, ConsentOK, ReadMoves
  <2>0. PICK id : id = made + 1
    OBVIOUS
  <2>3. Unquoted(id)'
    <3>1. \A q \in quotes : q.qid[1] \in 1 .. made
      BY DEF ReadingInv, QuotesOK
    <3>2. \A i \in DOMAIN tokens : tokens[i].qid[1] <= made /\ tokens[i].qid[1] \in Nat
      <4>1. \A i \in DOMAIN tokens : tokens[i] \in Minted
        BY DEF ReadingInv, QuotesOK
      <4>2. \A token \in Minted : token.qid \in Nat \X Offers
        BY DEF Minted
      <4> QED
        BY <4>1, <4>2 DEF ReadingInv, QuotesOK
    <3>3. Unquoted(id)
      BY <1>8, <2>0, <3>1, <3>2 DEF Unquoted
    <3> QED
      BY <1>1, <3>3 DEF Unquoted
  <2>4. TodoOK(new)'
    BY <1>7, <2>0, <2>3 DEF TodoOK
  <2> QED
    BY <2>1, <2>2, <2>4 DEF ReadOK
<1>11. QuotesOK'
  BY <1>1, <1>8, QuotesStay DEF ReadingInv, offerVars
<1>12. UNCHANGED <<quotes, tokens>> /\ (new.step # "idle" => new.id = made + 1)
  BY <1>1, <1>7
<1> QED
  BY <1>8, <1>9, <1>10, <1>11, <1>12, ReadStep

\* A step that changes a read that is under way.
LEMMA ReadUnderWay ==
  ASSUME ReadingInv, NEW r \in Readers, reads[r].step # "idle"
  PROVE  /\ ReadOK(reads[r]) /\ IsRead(reads[r]) /\ InputOK(reads[r].input) /\ Lineup(reads[r].candidates)
         /\ reads = [q \in Readers |-> reads[q]] /\ reads[r].id \in 1 .. made /\ made \in Nat
         /\ \A c \in Range(reads[r].candidates) : c.cor # Null => IsFor(c.cor, c.offer.id)
BY DEF ReadingInv, ReadsOK, ReadOK, FormOK

\* The trio's answer for a commitment is recorded.
LEMMA FetchStatusKeeps ==
  ASSUME ReadingInv, NEW r \in Readers, NEW c \in Cors, NEW answered \in BOOLEAN, FetchStatus(r, c, answered)
  PROVE  ReadingInv'
<1>0. PICK read : read = reads[r]
  OBVIOUS
<1>1. read.step = "statuses" /\ OnlyReads
  BY <1>0 DEF FetchStatus, At
<1>2. /\ ReadOK(read) /\ IsRead(read) /\ InputOK(read.input) /\ Lineup(read.candidates)
      /\ reads = [q \in Readers |-> reads[q]]
      /\ read.id \in 1 .. made /\ \A d \in Range(read.candidates) : d.cor # Null => IsFor(d.cor, d.offer.id)
  BY <1>0, <1>1, ReadUnderWay
<1> DEFINE statuses == [read.input.statuses EXCEPT ![c] = StatusRead(c, answered)]
           input == [read.input EXCEPT !.statuses = statuses]
<1>3. PICK asked : asked = read.asked \ {c}
  OBVIOUS
<1>4. PICK new : new = [read EXCEPT !.asked = asked, !.input = input]
  OBVIOUS
<1>5. reads' = [reads EXCEPT ![r] = new]
  BY <1>0, <1>2, <1>3, <1>4 DEF FetchStatus
<1>6. InputOK(input)
  <2>1. StatusRead(c, answered) \in CorRows \cup {Null}
    BY DEF StatusRead, ReadingInv, OffersInv, OffersTypeOK
  <2>2. statuses \in [Cors -> CorRows \cup {Null}]
    BY <1>2, <2>1 DEF InputOK, StatusesOK
  <2> HIDE DEF statuses
  <2>3. input = [ agent |-> read.input.agent, tier |-> read.input.tier, segment |-> read.input.segment,
                  sku |-> read.input.sku, now |-> read.input.now, mandate |-> read.input.mandate,
                  statuses |-> statuses, wanted |-> read.input.wanted ]
    BY <1>2 DEF InputOK
  <2> QED
    BY <1>2, <2>2, <2>3 DEF InputOK, StatusesOK
<1> HIDE DEF input, statuses
<1>7. /\ new.step = "statuses" /\ new.id = read.id /\ new.input = input /\ new.candidates = read.candidates
      /\ new.withheld = read.withheld /\ new.standing = read.standing /\ new.pd = read.pd /\ IsRead(new)
  BY <1>1, <1>2, <1>4 DEF IsRead
<1>8. ReadOK(new)
  BY <1>1, <1>2, <1>6, <1>7 DEF ReadOK, FormOK, RulesOK, ConsentOK, TodoOK
<1>9. ReadMoves(r, new) /\ UNCHANGED <<made, quotes, tokens>>
  BY <1>1, <1>5 DEF ReadMoves, OnlyReads, sources
<1> QED
  BY <1>0, <1>1, <1>7, <1>8, <1>9, QuietStep

\* The filter reads the rules there are: those that still stand are among them.
LEMMA FilterKeeps ==
  ASSUME ReadingInv, NEW r \in Readers, Filter(r)
  PROVE  ReadingInv'
<1>0. PICK read : read = reads[r]
  OBVIOUS
<1>1. read.step = "statuses" /\ OnlyReads
  BY <1>0 DEF Filter, At
<1>2. /\ ReadOK(read) /\ IsRead(read) /\ InputOK(read.input) /\ Lineup(read.candidates)
      /\ reads = [q \in Readers |-> reads[q]]
      /\ read.id \in 1 .. made /\ \A d \in Range(read.candidates) : d.cor # Null => IsFor(d.cor, d.offer.id)
  BY <1>0, <1>1, ReadUnderWay
<1>3. PICK step : step = IF read.input.wanted # Null THEN "results"
                         ELSE IF read.input.mandate THEN "mandate" ELSE "decide"
  OBVIOUS
<1>4. PICK e : e = filterEligibility(read.candidates, read.input, listRules)
  OBVIOUS
<1>5. PICK new : new = [read EXCEPT !.step = step, !.eligibility = e]
  OBVIOUS
<1>6. reads' = [reads EXCEPT ![r] = new]
  BY <1>0, <1>2, <1>3, <1>4, <1>5 DEF Filter
<1>7. /\ new.step = step /\ new.id = read.id /\ new.input = read.input /\ new.candidates = read.candidates
      /\ new.withheld = read.withheld /\ new.standing = read.standing /\ new.pd = read.pd /\ IsRead(new)
      /\ new.eligibility = e
  BY <1>2, <1>5 DEF IsRead
<1>8. step \in {"results", "mandate", "decide"}
  BY <1>3
<1>9. \E E, K : Filtered(e, read.candidates, read.input, eligibility_rules, E, K)
  BY <1>2, <1>4, FilterFilters DEF listRules
<1>10. ReadOK(new)
  <2>1. FormOK(new)
    BY <1>1, <1>2, <1>7 DEF FormOK
  <2>2. RulesOK(new)
    BY <1>1, <1>2, <1>7, <1>8, <1>9 DEF ReadOK, RulesOK
  <2>3. ConsentOK(new)
    BY <1>1, <1>2, <1>7, <1>8 DEF ReadOK, ConsentOK
  <2>4. TodoOK(new)
    BY <1>1, <1>2, <1>7, <1>8 DEF ReadOK, TodoOK
  <2> QED
    BY <2>1, <2>2, <2>3, <2>4 DEF ReadOK
<1>11. ReadMoves(r, new) /\ UNCHANGED <<made, quotes, tokens>>
  BY <1>1, <1>6 DEF ReadMoves, OnlyReads, sources
<1> QED
  BY <1>0, <1>1, <1>7, <1>10, <1>11, QuietStep

\* The flags are those of now, so that what was withheld still is.
LEMMA ReadMandateKeeps ==
  ASSUME ReadingInv, NEW r \in Readers, ReadMandate(r)
  PROVE  ReadingInv'
<1>0. PICK read : read = reads[r]
  OBVIOUS
<1>1. read.step = "mandate" /\ OnlyReads
  BY <1>0 DEF ReadMandate, At
<1>2. /\ ReadOK(read) /\ IsRead(read) /\ InputOK(read.input) /\ Lineup(read.candidates)
      /\ reads = [q \in Readers |-> reads[q]]
      /\ read.id \in 1 .. made /\ \A d \in Range(read.candidates) : d.cor # Null => IsFor(d.cor, d.offer.id)
  BY <1>0, <1>1, ReadUnderWay
<1>3. PICK step, granted : /\ step = IF flags = Null THEN "decide" ELSE "items"
                           /\ granted = IF flags = Null THEN read.granted ELSE flags
  OBVIOUS
<1>4. PICK new : new = [read EXCEPT !.step = step, !.granted = granted]
  OBVIOUS
<1>5. reads' = [reads EXCEPT ![r] = new]
  <2>1. CASE flags = Null
    <3>1. new = [read EXCEPT !.step = "decide"]
      BY <1>2, <1>3, <1>4, <2>1 DEF IsRead
    <3>2. reads' = [reads EXCEPT ![r].step = "decide"]
      BY <2>1 DEF ReadMandate
    <3> QED
      BY <1>0, <3>1, <3>2
  <2>2. CASE flags # Null
    BY <1>0, <1>2, <1>3, <1>4, <2>2 DEF ReadMandate
  <2> QED
    BY <2>1, <2>2
<1>6. /\ new.step = step /\ new.id = read.id /\ new.input = read.input /\ new.candidates = read.candidates
      /\ new.withheld = read.withheld /\ new.standing = read.standing /\ new.pd = read.pd /\ IsRead(new)
      /\ new.eligibility = read.eligibility /\ new.granted = granted
  BY <1>2, <1>4 DEF IsRead
<1>7. step \in {"items", "decide"} /\ (step = "items" => flags # Null /\ granted = flags)
  BY <1>3
<1>8. ReadOK(new)
  <2>1. FormOK(new)
    BY <1>1, <1>2, <1>6 DEF FormOK
  <2>2. RulesOK(new)
    BY <1>1, <1>2, <1>6, <1>7 DEF ReadOK, RulesOK
  <2>3. ConsentOK(new)
    BY <1>1, <1>2, <1>6, <1>7 DEF ReadOK, ConsentOK
  <2>4. TodoOK(new)
    BY <1>1, <1>2, <1>6, <1>7 DEF ReadOK, TodoOK
  <2> QED
    BY <2>1, <2>2, <2>3, <2>4 DEF ReadOK
<1>9. ReadMoves(r, new) /\ UNCHANGED <<made, quotes, tokens>>
  BY <1>1, <1>5 DEF ReadMoves, OnlyReads, sources
<1> QED
  BY <1>0, <1>1, <1>6, <1>8, <1>9, QuietStep

\* What the flags let through was not withheld.
LEMMA ReadItemsKeeps ==
  ASSUME ReadingInv, NEW r \in Readers, ReadItems(r)
  PROVE  ReadingInv'
<1>0. PICK read : read = reads[r]
  OBVIOUS
<1>1. read.step = "items" /\ OnlyReads
  BY <1>0 DEF ReadItems, At
<1>2. /\ ReadOK(read) /\ IsRead(read) /\ InputOK(read.input) /\ Lineup(read.candidates)
      /\ reads = [q \in Readers |-> reads[q]]
      /\ read.id \in 1 .. made /\ \A d \in Range(read.candidates) : d.cor # Null => IsFor(d.cor, d.offer.id)
  BY <1>0, <1>1, ReadUnderWay
<1>3. PICK pd : pd = {k \in Keys : pd_store[k] = TRUE /\ allowed(k, read.granted)}
  OBVIOUS
<1>4. PICK new : new = [read EXCEPT !.step = "decide", !.pd = pd]
  OBVIOUS
<1>5. reads' = [reads EXCEPT ![r] = new]
  BY <1>0, <1>2, <1>3, <1>4 DEF ReadItems
<1>6. /\ new.step = "decide" /\ new.id = read.id /\ new.input = read.input /\ new.candidates = read.candidates
      /\ new.withheld = read.withheld /\ new.standing = read.standing /\ new.pd = pd /\ IsRead(new)
      /\ new.eligibility = read.eligibility
  BY <1>2, <1>4 DEF IsRead
<1>7. pd \cap read.withheld = {}
  BY <1>1, <1>2, <1>3 DEF ReadOK, ConsentOK, allowed
<1>8. ReadOK(new)
  <2>1. FormOK(new)
    BY <1>1, <1>2, <1>6 DEF FormOK
  <2>2. RulesOK(new)
    BY <1>1, <1>2, <1>6 DEF ReadOK, RulesOK
  <2>3. ConsentOK(new) /\ TodoOK(new)
    BY <1>1, <1>2, <1>6, <1>7 DEF ReadOK, ConsentOK, TodoOK
  <2> QED
    BY <2>1, <2>2, <2>3 DEF ReadOK
<1>9. ReadMoves(r, new) /\ UNCHANGED <<made, quotes, tokens>>
  BY <1>1, <1>5 DEF ReadMoves, OnlyReads, sources
<1> QED
  BY <1>0, <1>1, <1>6, <1>8, <1>9, QuietStep

\* Whatever the sidecar answers, the ranking is a lineup of what is eligible.
LEMMA DecideKeeps ==
  ASSUME ReadingInv, NEW r \in Readers, At(r, "decide"),
         NEW order \in Orders(Ids(reads[r].eligibility.eligible)), Decide(r, order)
  PROVE  ReadingInv'
<1>0. PICK read : read = reads[r]
  OBVIOUS
<1>1. read.step = "decide"
  BY <1>0 DEF Decide, At
<1>2. /\ ReadOK(read) /\ IsRead(read) /\ InputOK(read.input) /\ Lineup(read.candidates)
      /\ reads = [q \in Readers |-> reads[q]]
      /\ read.id \in 1 .. made /\ \A d \in Range(read.candidates) : d.cor # Null => IsFor(d.cor, d.offer.id)
  BY <1>0, <1>1, ReadUnderWay
<1>3. PICK rules, E, K : /\ read.standing \subseteq rules
                         /\ Filtered(read.eligibility, read.candidates, read.input, rules, E, K)
  BY <1>1, <1>2 DEF ReadOK, RulesOK
<1>4. Lineup(read.eligibility.eligible) /\ Range(read.eligibility.eligible) \subseteq Range(read.candidates)
  BY <1>3 DEF Filtered
<1>5. order \in Seq(Offers) \cup {Null}
  <2>1. Ids(read.eligibility.eligible) \in SUBSET Offers
    BY <1>4 DEF Ids, Lineup, Candidate
  <2> QED
    BY <1>0, <2>1, ReadingAssumption
<1>6. PICK ranked : ranked = rank(read.eligibility.eligible, order, Priority)
  OBVIOUS
<1>7. Lineup(ranked) /\ Range(ranked) = Range(read.eligibility.eligible)
  BY <1>4, <1>5, <1>6, RankIsLineup
<1>8. PICK verdict : verdict = applyGuardrails(ranked, read.input, Settings)
  OBVIOUS
<1>9. Guarded(verdict, ranked, read.input)
  BY <1>7, <1>8, GuardrailsGuard
<1>10. PICK places : places = {i \in DOMAIN verdict.passed : verdict.passed[i].cor # Null}
  OBVIOUS
<1>11. PICK todo : todo = Only(verdict.passed, places)
  OBVIOUS
<1>12. PICK new : new = [read EXCEPT !.step = "quote", !.verdict = verdict, !.todo = todo]
  OBVIOUS
<1>13. /\ reads' = [reads EXCEPT ![r] = new]
       /\ UNCHANGED <<offerVars, made, quotes, tokens, sources>>
  BY <1>0, <1>2, <1>6, <1>8, <1>10, <1>11, <1>12 DEF Decide
<1>14. /\ new.step = "quote" /\ new.id = read.id /\ new.input = read.input /\ new.candidates = read.candidates
       /\ new.withheld = read.withheld /\ new.standing = read.standing /\ new.pd = read.pd /\ IsRead(new)
       /\ new.eligibility = read.eligibility /\ new.verdict = verdict /\ new.todo = todo
  BY <1>2, <1>12 DEF IsRead
<1>15. Decided(new, rules, ranked, E, K)
  BY <1>2, <1>3, <1>7, <1>9, <1>14 DEF Decided, InputOK
<1>16. /\ Lineup(todo) /\ Range(todo) \subseteq Range(read.candidates)
       /\ \A c \in Range(todo) : c.cor # Null
  <2>1. Lineup(verdict.passed) /\ Range(verdict.passed) \subseteq Range(read.candidates)
    BY <1>4, <1>7, <1>9 DEF Guarded
  <2>2. /\ DOMAIN verdict.passed = 1 .. Len(verdict.passed)
        /\ \A i \in 1 .. Len(verdict.passed) : verdict.passed[i] \in Range(verdict.passed)
    BY <2>1, RangeIs DEF Lineup
  <2>3. places \in SUBSET (1 .. Len(verdict.passed))
    BY <1>10, <2>2
  <2>4. Lineup(todo) /\ Range(todo) = {verdict.passed[i] : i \in places}
    BY <1>11, <2>1, <2>3, OnlyLineup
  <2>5. \A c \in Range(todo) : c \in Range(verdict.passed) /\ c.cor # Null
    BY <1>10, <2>2, <2>4
  <2> QED
    BY <2>1, <2>4, <2>5
<1>17. ReadOK(new)
  <2>1. FormOK(new)
    BY <1>1, <1>2, <1>14 DEF FormOK
  <2>2. RulesOK(new)
    BY <1>3, <1>14, <1>15 DEF RulesOK
  <2>3. ConsentOK(new)
    BY <1>1, <1>2, <1>14 DEF ReadOK, ConsentOK
  <2>4. Unquoted(read.id)
    BY <1>1, <1>2 DEF ReadOK, TodoOK
  <2>5. /\ \A q \in quotes : \A c \in Range(todo) : q.qid # <<read.id, c.offer.id>>
        /\ \A i \in DOMAIN tokens : \A c \in Range(todo) : tokens[i].qid # <<read.id, c.offer.id>>
    BY <2>4 DEF Unquoted
  <2>6. TodoOK(new)
    BY <1>14, <1>16, <2>5 DEF TodoOK
  <2> QED
    BY <2>1, <2>2, <2>3, <2>6 DEF ReadOK
<1>18. ReadMoves(r, new) /\ UNCHANGED <<made, quotes, tokens>>
  BY <1>13 DEF ReadMoves, sources
<1> QED
  BY <1>0, <1>1, <1>14, <1>17, <1>18, QuietStep

\* What is still to be quoted, when the next offer is taken from it.
LEMMA TodoHas ==
  ASSUME NEW read, Lineup(read.todo), read.todo # <<>>
  PROVE  /\ Head(read.todo) = read.todo[1] /\ read.todo[1] \in Range(read.todo)
         /\ Lineup(Tail(read.todo)) /\ Range(Tail(read.todo)) \subseteq Range(read.todo)
         /\ \A c \in Range(Tail(read.todo)) : c.offer.id # read.todo[1].offer.id
<1>0. PICK s : s = read.todo
  OBVIOUS
<1>1. PICK n \in Nat : n = Len(s)
  BY <1>0, RangeIs DEF Lineup
<1>2. s \in Seq(Range(s)) /\ n # 0 /\ \A i \in 1 .. n : s[i] \in Range(s)
  BY <1>0, <1>1, RangeIs DEF Lineup
<1>3. PICK t : t = Tail(s)
  OBVIOUS
<1>4. /\ t \in Seq(Range(s)) /\ Len(t) = n - 1 /\ Head(s) = s[1]
      /\ \A i \in 1 .. n - 1 : t[i] = s[i + 1]
  BY <1>1, <1>2, <1>3
<1>5. t \in Seq(Range(t)) /\ Range(t) \subseteq Range(s)
  BY <1>4, SeqOfRange
<1>6. \A i, j \in 1 .. n : s[i].offer.id = s[j].offer.id => i = j
  BY <1>0, <1>1 DEF Lineup
<1>7. \A i, j \in 1 .. n - 1 : t[i].offer.id = t[j].offer.id => i = j
  <2>1. ASSUME NEW i \in 1 .. n - 1, NEW j \in 1 .. n - 1, t[i].offer.id = t[j].offer.id PROVE i = j
    <3>1. PICK k \in 1 .. n, l \in 1 .. n : k = i + 1 /\ l = j + 1
      BY <1>1
    <3>2. t[i] = s[k] /\ t[j] = s[l]
      BY <1>4, <3>1
    <3>3. k = l
      BY <1>6, <2>1, <3>2
    <3> QED
      BY <1>1, <3>1, <3>3
  <2> QED
    BY <2>1
<1>8. Lineup(t)
  <2>1. \A c \in Range(t) : Candidate(c)
    BY <1>0, <1>5 DEF Lineup
  <2> QED
    BY <1>4, <1>5, <1>7, <2>1 DEF Lineup
<1>9. ASSUME NEW c \in Range(t) PROVE c.offer.id # s[1].offer.id
  <2>1. PICK i \in 1 .. n - 1 : t[i] = c
    BY <1>4, <1>5, RangeIs
  <2>2. PICK k \in 1 .. n : k = i + 1 /\ k # 1
    BY <1>1
  <2>3. c = s[k]
    BY <1>4, <2>1, <2>2
  <2>4. 1 \in 1 .. n
    BY <1>1, <1>2
  <2> QED
    BY <1>6, <2>2, <2>3, <2>4
<1> QED
  BY <1>0, <1>1, <1>2, <1>3, <1>4, <1>5, <1>8, <1>9

\* A quote without a token.
LEMMA NoMintKeeps ==
  ASSUME ReadingInv, NEW r \in Readers, NoMint(r)
  PROVE  ReadingInv'
<1>0. PICK read : read = reads[r]
  OBVIOUS
<1>1. read.step = "quote" /\ OnlyReads /\ read.todo # <<>>
  BY <1>0 DEF NoMint, At
<1>2. /\ ReadOK(read) /\ IsRead(read) /\ InputOK(read.input) /\ Lineup(read.candidates)
      /\ reads = [q \in Readers |-> reads[q]]
      /\ read.id \in 1 .. made /\ \A d \in Range(read.candidates) : d.cor # Null => IsFor(d.cor, d.offer.id)
  BY <1>0, <1>1, ReadUnderWay
<1>3. PICK new : new = [read EXCEPT !.step = "row", !.token = Null]
  OBVIOUS
<1>4. reads' = [reads EXCEPT ![r] = new]
  BY <1>0, <1>2, <1>3 DEF NoMint
<1>5. /\ new.step = "row" /\ new.id = read.id /\ new.input = read.input /\ new.candidates = read.candidates
      /\ new.withheld = read.withheld /\ new.standing = read.standing /\ new.pd = read.pd /\ IsRead(new)
      /\ new.eligibility = read.eligibility /\ new.verdict = read.verdict /\ new.todo = read.todo
      /\ new.token = Null
  BY <1>2, <1>3 DEF IsRead
<1>6. ReadOK(new)
  <2>1. FormOK(new)
    BY <1>1, <1>2, <1>5 DEF FormOK
  <2>2. RulesOK(new)
    BY <1>1, <1>2, <1>5 DEF ReadOK, RulesOK, Decided
  <2>3. ConsentOK(new)
    BY <1>1, <1>2, <1>5 DEF ReadOK, ConsentOK
  <2>4. TodoOK(new)
    BY <1>1, <1>2, <1>5 DEF ReadOK, TodoOK
  <2> QED
    BY <2>1, <2>2, <2>3, <2>4 DEF ReadOK
<1>7. ReadMoves(r, new) /\ UNCHANGED <<made, quotes, tokens>>
  BY <1>1, <1>4 DEF ReadMoves, OnlyReads, sources
<1> QED
  BY <1>0, <1>1, <1>5, <1>6, <1>7, QuietStep

\* Lives of quotes and tokens are numbers.
LEMMA LivesAreInt ==
  Clamp(TokenTtlBound, QuoteTtl) \in Int /\ Clamp(TokenTtlBound, AttributionWindow) \in Int
BY ReadingAssumption DEF Clamp

\* A token is minted for the offer in hand, for the first time.
LEMMA MintKeeps ==
  ASSUME ReadingInv, NEW r \in Readers, NEW lag \in {0, 1}, NEW answered \in BOOLEAN, Mint(r, lag, answered)
  PROVE  ReadingInv'
<1>0. PICK read : read = reads[r]
  OBVIOUS
<1>1. read.step = "quote" /\ read.todo # <<>>
  BY <1>0 DEF Mint, At
<1>2. /\ ReadOK(read) /\ IsRead(read) /\ InputOK(read.input) /\ Lineup(read.candidates)
      /\ reads = [q \in Readers |-> reads[q]] /\ made \in Nat
      /\ read.id \in 1 .. made /\ \A d \in Range(read.candidates) : d.cor # Null => IsFor(d.cor, d.offer.id)
  BY <1>0, <1>1, ReadUnderWay
<1>3. Lineup(read.todo) /\ Range(read.todo) \subseteq Range(read.candidates) /\ \A c \in Range(read.todo) : c.cor # Null
  BY <1>1, <1>2 DEF ReadOK, TodoOK
<1>4. PICK c : c = read.todo[1]
  OBVIOUS
<1>5. Head(read.todo) = c /\ c \in Range(read.todo) /\ c.cor \in Cors /\ c.offer.id \in Offers
  BY <1>1, <1>3, <1>4, TodoHas DEF Lineup, Candidate
<1>6. PICK token : token = TokenOf(r, lag)
  OBVIOUS
<1>7. /\ token.qid = <<read.id, c.offer.id>> /\ token.cor = c.cor /\ token.aid = read.input.agent
      /\ token.exp \in Int /\ token \in Minted
  <2>1. PICK exp : exp = read.input.now - lag + Clamp(TokenTtlBound, AttributionWindow)
    OBVIOUS
  <2>2. exp \in Int
    BY <1>2, <2>1, LivesAreInt DEF InputOK
  <2>3. token = [qid |-> <<read.id, c.offer.id>>, cor |-> c.cor, aid |-> read.input.agent, exp |-> exp]
    BY <1>0, <1>5, <1>6, <2>1 DEF TokenOf, QuoteId
  <2>4. read.id \in Nat /\ read.input.agent \in Asking
    BY <1>2 DEF InputOK
  <2> QED
    BY <1>5, <2>2, <2>3, <2>4 DEF Minted
<1>8. PICK kept : kept = IF answered THEN token ELSE Null
  OBVIOUS
<1>9. PICK new : new = [read EXCEPT !.step = "row", !.token = kept]
  OBVIOUS
<1>10. /\ reads' = [reads EXCEPT ![r] = new] /\ tokens' = Append(tokens, token)
       /\ UNCHANGED <<offerVars, made, quotes, sources>>
  BY <1>0, <1>2, <1>6, <1>8, <1>9 DEF Mint
<1>11. /\ new.step = "row" /\ new.id = read.id /\ new.input = read.input /\ new.candidates = read.candidates
       /\ new.withheld = read.withheld /\ new.standing = read.standing /\ new.pd = read.pd /\ IsRead(new)
       /\ new.eligibility = read.eligibility /\ new.verdict = read.verdict /\ new.todo = read.todo
       /\ new.token = kept
  BY <1>2, <1>9 DEF IsRead
<1>12. PICK n \in Nat : n = Len(tokens)
  BY DEF ReadingInv, QuotesOK
<1>13. /\ tokens' \in Seq(Minted) /\ DOMAIN tokens = 1 .. n /\ DOMAIN tokens' = 1 .. n + 1
       /\ \A i \in 1 .. n : tokens'[i] = tokens[i]
       /\ tokens'[n + 1] = token
  BY <1>7, <1>10, <1>12 DEF ReadingInv, QuotesOK
<1>14. \A i \in 1 .. n + 1 : i \in 1 .. n \/ i = n + 1
  OBVIOUS
<1>15. \A i \in 1 .. n : tokens[i].qid # token.qid
  <2>1. \A i \in DOMAIN tokens : \A d \in Range(read.todo) :
          tokens[i].qid = <<read.id, d.offer.id>> => read.step = "row"
    BY <1>1, <1>2 DEF ReadOK, TodoOK
  <2> QED
    BY <1>1, <1>5, <1>7, <1>13, <2>1
<1>16. QuotesOK'
  <2>1. ASSUME NEW i \in 1 .. n + 1, NEW j \in 1 .. n + 1, tokens'[i].qid = tokens'[j].qid PROVE i = j
    <3>1. \A k, l \in 1 .. n : tokens[k].qid = tokens[l].qid => k = l
      BY <1>13 DEF ReadingInv, QuotesOK, QuotesAreHonest
    <3> QED
      BY <1>13, <1>14, <1>15, <2>1, <3>1
  <2>2. ASSUME NEW q \in quotes'
        PROVE  /\ cors'[q.cor].offer = q.offer /\ q.final \in 0 .. ListPrice[q.offer]
               /\ q.token => \E i \in DOMAIN tokens' :
                    /\ tokens'[i].qid = q.qid /\ tokens'[i].cor = q.cor /\ tokens'[i].aid = q.agent
                    /\ q.expires_at <= tokens'[i].exp
    <3>1. q \in quotes /\ cors' = cors
      BY <1>10 DEF offerVars
    <3>2. /\ cors[q.cor].offer = q.offer /\ q.final \in 0 .. ListPrice[q.offer]
          /\ q.token => \E i \in DOMAIN tokens :
               /\ tokens[i].qid = q.qid /\ tokens[i].cor = q.cor /\ tokens[i].aid = q.agent
               /\ q.expires_at <= tokens[i].exp
      BY <3>1 DEF ReadingInv, QuotesOK, QuotesAreHonest
    <3>3. \A i \in 1 .. n : i \in 1 .. n + 1
      OBVIOUS
    <3> QED
      BY <1>13, <3>1, <3>2, <3>3
  <2>3. \A q \in quotes' : getQuote(q.qid)' = {q}
    BY <1>10 DEF ReadingInv, QuotesOK, QuotesAreHonest, getQuote
  <2>4. QuotesAreHonest'
    BY <1>13, <2>1, <2>2, <2>3 DEF QuotesAreHonest, getQuote
  <2>5. \A i \in DOMAIN tokens' : tokens'[i].qid[1] <= made'
    BY <1>2, <1>7, <1>10, <1>13, <1>14 DEF ReadingInv, QuotesOK
  <2> QED
    BY <1>10, <1>13, <2>4, <2>5 DEF ReadingInv, QuotesOK, IsFor, offerVars
<1>17. ReadOK(new)'
  <2>1. FormOK(new)'
    BY <1>1, <1>2, <1>10, <1>11 DEF FormOK, IsFor, offerVars
  <2>2. RulesOK(new)'
    BY <1>1, <1>2, <1>10, <1>11 DEF ReadOK, RulesOK, Decided
  <2>3. ConsentOK(new)'
    BY <1>1, <1>2, <1>10, <1>11 DEF ReadOK, ConsentOK
  <2>4. ASSUME NEW i \in DOMAIN tokens', NEW d \in Range(read.todo), tokens'[i].qid = <<read.id, d.offer.id>>
        PROVE  d = c
    <3>1. i = n + 1
      BY <1>1, <1>2, <1>13, <1>14, <2>4 DEF ReadOK, TodoOK
    <3>2. d.offer.id = c.offer.id
      BY <1>7, <1>13, <2>4, <3>1
    <3> QED
      BY <1>3, <1>5, <3>2, LineupOnce
  <2>5. kept # Null => /\ \E i \in DOMAIN tokens' : tokens'[i] = kept
                       /\ kept.qid = <<read.id, c.offer.id>> /\ kept.cor = c.cor /\ kept.aid = read.input.agent
                       /\ kept.exp \in Int
    <3>1. n + 1 \in 1 .. n + 1
      OBVIOUS
    <3> QED
      BY <1>7, <1>8, <1>13, <3>1
  <2>6. \A q \in quotes' : \A d \in Range(read.todo) : q.qid # <<read.id, d.offer.id>>
    BY <1>1, <1>2, <1>10 DEF ReadOK, TodoOK
  <2>7. TodoOK(new)'
    BY <1>1, <1>3, <1>4, <1>11, <2>4, <2>5, <2>6 DEF TodoOK
  <2> QED
    BY <2>1, <2>2, <2>3, <2>7 DEF ReadOK
<1>18. ReadMoves(r, new)
  BY <1>10 DEF ReadMoves, sources
<1>19. /\ \A q \in quotes' : q \in quotes
       /\ \A i \in DOMAIN tokens : i \in DOMAIN tokens' /\ tokens'[i] = tokens[i]
       /\ \A i \in DOMAIN tokens' : i \in DOMAIN tokens \/ tokens'[i].qid[1] = new.id
       /\ made' \in Nat /\ made <= made'
  BY <1>2, <1>7, <1>10, <1>11, <1>13, <1>14
<1> QED
  BY <1>0, <1>1, <1>11, <1>16, <1>17, <1>18, <1>19, ReadStep

\* The row of the quote is the only one of its id, and its token the one in hand.
LEMMA InsertQuoteKeeps ==
  ASSUME ReadingInv, NEW r \in Readers, InsertQuote(r)
  PROVE  ReadingInv'
<1>0. PICK read : read = reads[r]
  OBVIOUS
<1>1. read.step = "row"
  BY <1>0 DEF InsertQuote, At
<1>2. /\ ReadOK(read) /\ IsRead(read) /\ InputOK(read.input) /\ Lineup(read.candidates)
      /\ reads = [q \in Readers |-> reads[q]] /\ made \in Nat
      /\ read.id \in 1 .. made /\ \A d \in Range(read.candidates) : d.cor # Null => IsFor(d.cor, d.offer.id)
  BY <1>0, <1>1, ReadUnderWay
<1>3. /\ Lineup(read.todo) /\ Range(read.todo) \subseteq Range(read.candidates) /\ read.todo # <<>>
      /\ \A c \in Range(read.todo) : c.cor # Null
  BY <1>1, <1>2 DEF ReadOK, TodoOK
<1>4. PICK c, rest : c = read.todo[1] /\ rest = Tail(read.todo)
  OBVIOUS
<1>5. /\ Head(read.todo) = c /\ c \in Range(read.todo) /\ c \in Range(read.candidates)
      /\ c.cor # Null /\ IsFor(c.cor, c.offer.id) /\ Candidate(c)
      /\ Lineup(rest) /\ Range(rest) \subseteq Range(read.todo)
      /\ \A d \in Range(rest) : d.offer.id # c.offer.id
  BY <1>2, <1>3, <1>4, TodoHas DEF Lineup
<1>6. PICK token : token = read.token
  OBVIOUS
<1>7. token # Null =>
        /\ \E i \in DOMAIN tokens : tokens[i] = token
        /\ token.qid = <<read.id, c.offer.id>> /\ token.cor = c.cor /\ token.aid = read.input.agent
        /\ token.exp \in Int
  BY <1>1, <1>2, <1>4, <1>6 DEF ReadOK, TodoOK
<1>8. PICK final : final = applyMechanics(ListPrice[c.offer.id], c.offer.mechanics).final
  OBVIOUS
<1>9. final \in 0 .. ListPrice[c.offer.id]
  <2>1. IsMechanic(c.offer.mechanics) /\ ListPrice[c.offer.id] \in Nat
    BY <1>5, ReadingAssumption DEF Candidate, IsRowOf
  <2> QED
    BY <1>8, <2>1, PriceIsFair
<1>10. PICK until : until = Provisional(r)
  OBVIOUS
<1>11. until \in Int
  BY <1>0, <1>2, <1>10, LivesAreInt DEF Provisional, InputOK
<1>12. PICK ends : ends = IF token = Null THEN until ELSE IF token.exp < until THEN token.exp ELSE until
  OBVIOUS
<1>13. token # Null => ends <= token.exp
  BY <1>7, <1>11, <1>12
<1>14. PICK q : q = [ qid |-> <<read.id, c.offer.id>>, offer |-> c.offer.id, cor |-> c.cor,
                      agent |-> read.input.agent, token |-> token # Null, final |-> final,
                      expires_at |-> ends ]
  OBVIOUS
<1>15. PICK new : new = [read EXCEPT !.step = "quote", !.todo = rest, !.token = Null]
  OBVIOUS
<1>16. reads' = [reads EXCEPT ![r] = new] /\ UNCHANGED <<offerVars, made, tokens, sources>>
  BY <1>0, <1>2, <1>4, <1>15 DEF InsertQuote
<1>17. quotes' = quotes \cup {q}
  BY <1>0, <1>5, <1>6, <1>8, <1>10, <1>12, <1>14 DEF InsertQuote, QuoteId
<1>18. /\ new.step = "quote" /\ new.id = read.id /\ new.input = read.input /\ new.candidates = read.candidates
       /\ new.withheld = read.withheld /\ new.standing = read.standing /\ new.pd = read.pd /\ IsRead(new)
       /\ new.eligibility = read.eligibility /\ new.verdict = read.verdict /\ new.todo = rest
  BY <1>2, <1>15 DEF IsRead
<1>19. /\ q.qid = <<read.id, c.offer.id>> /\ q.offer = c.offer.id /\ q.cor = c.cor
       /\ q.agent = read.input.agent /\ (q.token <=> token # Null) /\ q.final = final /\ q.expires_at = ends
  BY <1>14
<1>20. \A p \in quotes : p.qid # q.qid
  BY <1>1, <1>2, <1>5, <1>19 DEF ReadOK, TodoOK
<1>21. QuotesOK'
  <2>1. /\ cors[q.cor].offer = q.offer /\ q.final \in 0 .. ListPrice[q.offer]
        /\ q.token => \E i \in DOMAIN tokens :
             /\ tokens[i].qid = q.qid /\ tokens[i].cor = q.cor /\ tokens[i].aid = q.agent
             /\ q.expires_at <= tokens[i].exp
    BY <1>5, <1>7, <1>9, <1>13, <1>19 DEF IsFor
  <2>2. ASSUME NEW p \in quotes'
        PROVE  /\ cors'[p.cor].offer = p.offer /\ p.final \in 0 .. ListPrice[p.offer]
               /\ p.token => \E i \in DOMAIN tokens' :
                    /\ tokens'[i].qid = p.qid /\ tokens'[i].cor = p.cor /\ tokens'[i].aid = p.agent
                    /\ p.expires_at <= tokens'[i].exp
    <3>1. CASE p \in quotes
      BY <1>16, <3>1 DEF ReadingInv, QuotesOK, QuotesAreHonest, offerVars
    <3>2. CASE p = q
      BY <1>16, <2>1, <3>2 DEF offerVars
    <3> QED
      BY <1>17, <3>1, <3>2
  <2>3. \A p \in quotes' : getQuote(p.qid)' = {p}
    <3>1. \A p, o \in quotes' : p.qid = o.qid => p = o
      <4>1. \A p, o \in quotes : p.qid = o.qid => p = o
        BY DEF ReadingInv, QuotesOK, QuotesAreHonest, getQuote
      <4> QED
        BY <1>17, <1>20, <4>1
    <3> QED
      BY <3>1 DEF getQuote
  <2>4. QuotesAreHonest'
    <3>1. \A i, j \in DOMAIN tokens' : tokens'[i].qid = tokens'[j].qid => i = j
      BY <1>16 DEF ReadingInv, QuotesOK, QuotesAreHonest
    <3> QED
      BY <2>2, <2>3, <3>1 DEF QuotesAreHonest, getQuote
  <2>5. \A p \in quotes' : p.qid \in (1 .. made') \X Offers /\ IsFor(p.cor, p.offer)'
    <3>1. q.qid \in (1 .. made) \X Offers /\ IsFor(q.cor, q.offer)
      BY <1>2, <1>5, <1>19 DEF Candidate
    <3> QED
      BY <1>16, <1>17, <3>1 DEF ReadingInv, QuotesOK, IsFor, offerVars
  <2> QED
    BY <1>16, <2>4, <2>5 DEF ReadingInv, QuotesOK
<1>22. ReadOK(new)'
  <2>1. FormOK(new)'
    BY <1>1, <1>2, <1>16, <1>18 DEF FormOK, IsFor, offerVars
  <2>2. RulesOK(new)'
    BY <1>1, <1>2, <1>16, <1>18 DEF ReadOK, RulesOK, Decided
  <2>3. ConsentOK(new)'
    BY <1>1, <1>2, <1>16, <1>18 DEF ReadOK, ConsentOK
  <2>4. \A p \in quotes' : \A d \in Range(rest) : p.qid # <<read.id, d.offer.id>>
    <3>1. \A p \in quotes : \A d \in Range(rest) : p.qid # <<read.id, d.offer.id>>
      BY <1>1, <1>2, <1>5 DEF ReadOK, TodoOK
    <3>2. \A d \in Range(rest) : q.qid # <<read.id, d.offer.id>>
      BY <1>5, <1>19
    <3> QED
      BY <1>17, <3>1, <3>2
  <2>5. ASSUME NEW i \in DOMAIN tokens', NEW d \in Range(rest), tokens'[i].qid = <<read.id, d.offer.id>>
        PROVE  FALSE
    <3>1. d = c
      BY <1>1, <1>2, <1>4, <1>5, <1>16, <2>5 DEF ReadOK, TodoOK
    <3> QED
      BY <1>5, <3>1
  <2>6. TodoOK(new)'
    BY <1>3, <1>5, <1>18, <2>4, <2>5 DEF TodoOK
  <2> QED
    BY <2>1, <2>2, <2>3, <2>6 DEF ReadOK
<1>23. ReadMoves(r, new)
  BY <1>16 DEF ReadMoves, sources
<1>24. /\ \A p \in quotes' : p \in quotes \/ p.qid[1] = new.id
       /\ \A i \in DOMAIN tokens : i \in DOMAIN tokens' /\ tokens'[i] = tokens[i]
       /\ \A i \in DOMAIN tokens' : i \in DOMAIN tokens
       /\ made' \in Nat /\ made <= made'
  BY <1>2, <1>16, <1>17, <1>18, <1>19
<1> QED
  BY <1>0, <1>1, <1>18, <1>21, <1>22, <1>23, <1>24, ReadStep

\* Whatever the control plane does, the trio's commitments only move on.
LEMMA CorsMove == ASSUME OffersInv, OffersNext PROVE CorsMoveOn
<1>1. CASE UNCHANGED cors
  BY <1>1, CorsStay
<1>2. CASE \/ \E p \in Operators : \/ \E answered \in BOOLEAN : EndOldCor(p, answered)
                                   \/ \E c \in Cors, answered \in BOOLEAN : CreateCor(p, c, answered)
           \/ \E c \in Cors : Converts(c)
  BY <1>2, EndOldCorKeeps, CreateCorKeeps, ConvertsKeeps
<1>3. CASE \E p \in Operators, o \in Offers : \/ \E bounty \in BOOLEAN : Publish(p, o, bounty)
                                             \/ EditBounty(p, o) \/ Update(p, o)
  BY <1>1, <1>3 DEF Publish, EditBounty, Update
<1>4. CASE \E p \in Operators : \/ TrioUnreachable(p) \/ GoLive(p) \/ Repoint(p)
                                \/ \E patch \in Patches : WriteRow(p, patch)
  BY <1>1, <1>4 DEF TrioUnreachable, GoLive, Repoint, WriteRow
<1>5. CASE \E o \in Offers : Pause(o) \/ End(o)
  BY <1>1, <1>5 DEF Pause, End, SetStatus
<1>6. CASE RestartControlPlane
  BY <1>1, <1>6 DEF RestartControlPlane
<1> QED
  BY <1>2, <1>3, <1>4, <1>5, <1>6 DEF OffersNext

\* A read that has only lost rules and secrets to keep is where it was.
Like(read, new) ==
  /\ IsRead(new)
  /\ new.step = read.step /\ new.id = read.id /\ new.input = read.input /\ new.candidates = read.candidates
  /\ new.eligibility = read.eligibility /\ new.granted = read.granted /\ new.verdict = read.verdict
  /\ new.todo = read.todo /\ new.token = read.token /\ new.pd = read.pd
  /\ new.standing \subseteq read.standing

\* A step of others, which leaves every read where it was or ends it.
LEMMA OthersStep ==
  ASSUME ReadingInv, OffersInv', RowsOK', CorsMoveOn, UNCHANGED <<made, quotes, tokens>>,
         reads' = [r \in Readers |-> reads'[r]], pd_store' = [k \in Keys |-> pd_store'[k]],
         \A r \in Readers :
           \/ reads'[r] = NoRead
           \/ /\ Like(reads[r], reads'[r]) /\ ConsentOK(reads[r])'
              /\ reads[r].step = "statuses" /\ reads[r].standing \subseteq eligibility_rules
                   => reads'[r].standing \subseteq eligibility_rules'
  PROVE  ReadingInv'
<1>1. \A c, o : IsFor(c, o) => IsFor(c, o)'
  BY DEF IsFor, CorsMoveOn
<1>2. ASSUME NEW r \in Readers, reads'[r] # NoRead PROVE ReadOK(reads[r])'
  <2>0. PICK read, new : read = reads[r] /\ new = reads'[r]
    OBVIOUS
  <2>1. ReadOK(read)
    BY <2>0 DEF ReadingInv, ReadsOK
  <2>2. /\ Like(read, new)
        /\ read.step = "statuses" /\ read.standing \subseteq eligibility_rules
             => new.standing \subseteq eligibility_rules'
    BY <1>2, <2>0
  <2>3. FormOK(new)'
    BY <1>1, <2>1, <2>2 DEF ReadOK, FormOK, Like
  <2>4. RulesOK(new)'
    <3>1. new.step = "statuses" => new.standing \subseteq eligibility_rules'
      BY <2>1, <2>2 DEF ReadOK, RulesOK, Like
    <3>2. ASSUME new.step \in {"results", "mandate", "items", "decide", "quote", "row"}
          PROVE  \E rules, E, K : /\ new.standing \subseteq rules
                                  /\ Filtered(new.eligibility, new.candidates, new.input, rules, E, K)
      BY <2>1, <2>2, <3>2 DEF ReadOK, RulesOK, Like
    <3>3. ASSUME new.step \in {"quote", "row"}
          PROVE  \E rules, ranked, E, K : Decided(new, rules, ranked, E, K)
      <4>1. PICK rules, ranked, E, K : Decided(read, rules, ranked, E, K)
        BY <2>1, <2>2, <3>3 DEF ReadOK, RulesOK, Like
      <4>2. Decided(new, rules, ranked, E, K)
        BY <2>2, <4>1 DEF Decided, Like
      <4> QED
        BY <4>2
    <3> QED
      BY <3>1, <3>2, <3>3 DEF RulesOK
  <2>5. TodoOK(new)'
    <3>1. TodoOK(new)
      BY <2>1, <2>2 DEF ReadOK, TodoOK, Like
    <3> QED
      BY <3>1 DEF TodoOK, Unquoted
  <2>6. FormOK(reads[r])' /\ RulesOK(reads[r])' /\ TodoOK(reads[r])'
    BY <2>0, <2>3, <2>4, <2>5
  <2>7. ConsentOK(reads[r])'
    BY <1>2
  <2> QED
    BY <2>6, <2>7 DEF ReadOK
<1>3. ASSUME NEW r \in Readers, reads'[r] = NoRead PROVE ReadOK(reads[r])'
  BY <1>3, NoReadOKLater
<1>4. \A r \in Readers : reads'[r].step # "idle" => reads[r].step # "idle" /\ reads'[r].id = reads[r].id
  BY DEF Like, NoRead
<1>5. ReadsOK'
  BY <1>2, <1>3, <1>4 DEF ReadingInv, ReadsOK
<1>6. QuotesOK'
  <2>1. \A q \in quotes : IsFor(q.cor, q.offer)
    BY DEF ReadingInv, QuotesOK
  <2>2. \A q \in quotes : cors'[q.cor].offer = q.offer
    BY <1>1, <2>1 DEF IsFor
  <2>3. QuotesAreHonest'
    BY <2>2 DEF ReadingInv, QuotesOK, QuotesAreHonest, getQuote
  <2> QED
    BY <1>1, <2>1, <2>3 DEF ReadingInv, QuotesOK
<1> QED
  BY <1>5, <1>6 DEF ReadingInv

\* A step that leaves the offers alone leaves their invariants.
OffersRest == UNCHANGED <<offers, offer_commitments, cors, operators, published>>

\* Nothing about the offers is lost by it.
LEMMA OffersRestKept == ASSUME ReadingInv, OffersRest PROVE OffersInv' /\ RowsOK' /\ CorsMoveOn
<1>1. OffersInv' /\ RowsOK'
  BY DEF ReadingInv, OffersRest, OffersInv, OffersTypeOK, HistoryIsKept, HistoryOK, JobsOK, JobOK,
         IsFor, Holds, RowsOK
<1>2. CorsMoveOn
  BY CorsStay DEF ReadingInv, OffersRest
<1> QED
  BY <1>1, <1>2

\* A read is like itself.
LEMMA LikeItself == ReadingInv => \A r \in Readers : Like(reads[r], reads[r])
BY DEF ReadingInv, ReadsOK, ReadOK, FormOK, Like

\* Operators edit the offers.
LEMMA EditingKeeps == ASSUME ReadingInv, OffersNext, UNCHANGED readVars PROVE ReadingInv'
<1>1. OffersInv' /\ RowsOK' /\ CorsMoveOn
  BY OffersStep, RowsKept, CorsMove DEF ReadingInv
<1>2. UNCHANGED <<reads, made, quotes, tokens, flags, eligibility_rules, pd_store>>
  BY DEF readVars, sources
<1>3. \A r \in Readers : ConsentOK(reads[r])'
  BY <1>2 DEF ReadingInv, ReadsOK, ReadOK, ConsentOK
<1>4. \A r \in Readers : Like(reads[r], reads'[r])
  BY <1>2, LikeItself
<1>5. reads' = [r \in Readers |-> reads'[r]] /\ pd_store' = [k \in Keys |-> pd_store'[k]]
  BY <1>2 DEF ReadingInv, ReadsOK
<1> QED
  BY <1>1, <1>2, <1>3, <1>4, <1>5, OthersStep

\* A restart ends the reads.
LEMMA RestartCoreKeeps == ASSUME ReadingInv, RestartCore PROVE ReadingInv'
<1>1. UNCHANGED <<made, quotes, tokens, flags, eligibility_rules, pd_store>> /\ OffersRest
  BY DEF RestartCore, OnlyReads, sources, offerVars, OffersRest
<1>2. reads' = [r \in Readers |-> reads'[r]] /\ \A r \in Readers : reads'[r] = NoRead
  BY DEF RestartCore
<1>3. pd_store' = [k \in Keys |-> pd_store'[k]]
  BY <1>1 DEF ReadingInv, ReadsOK
<1> QED
  BY <1>1, <1>2, <1>3, OffersRestKept, OthersStep

\* Storing a key withholds no more than before, and a key that is given is not
\* withheld any longer.
LEMMA PutPdKeeps ==
  ASSUME ReadingInv, NEW k \in Keys, NEW consented \in BOOLEAN \cup {Null}, PutPd(k, consented)
  PROVE  ReadingInv'
<1>1. /\ UNCHANGED <<made, quotes, tokens, flags, eligibility_rules>> /\ OffersRest
      /\ pd_store' = [pd_store EXCEPT ![k] = consented]
  BY DEF PutPd, OffersRest
<1>2. /\ reads' = [r \in Readers |-> reads'[r]]
      /\ \A r \in Readers : reads'[r] = IF consented = TRUE THEN [reads[r] EXCEPT !.withheld = @ \ {k}]
                                         ELSE reads[r]
  BY DEF PutPd
<1>3. /\ pd_store' = [key \in Keys |-> pd_store'[key]] /\ pd_store'[k] = consented
      /\ \A key \in Keys : key # k => pd_store'[key] = pd_store[key]
  BY <1>1 DEF ReadingInv, ReadsOK
<1>4. ASSUME NEW r \in Readers PROVE Like(reads[r], reads'[r]) /\ ConsentOK(reads[r])'
  <2> PICK read, new : read = reads[r] /\ new = reads'[r]
    OBVIOUS
  <2>1. IsRead(read) /\ ConsentOK(read)
    BY DEF ReadingInv, ReadsOK, ReadOK, FormOK
  <2>2. CASE consented = TRUE
    <3>1. new = [read EXCEPT !.withheld = read.withheld \ {k}]
      BY <1>2, <2>2
    <3>2. Like(read, new) /\ new.withheld = read.withheld \ {k}
      BY <2>1, <3>1 DEF IsRead, Like
    <3>3. \A key \in Keys : key \in new.withheld => key \in read.withheld /\ pd_store'[key] = pd_store[key]
      BY <1>3, <3>2
    <3>4. ConsentOK(new)'
      BY <1>1, <2>1, <3>2, <3>3 DEF ConsentOK, Like
    <3> QED
      BY <3>2, <3>4
  <2>3. CASE consented # TRUE
    <3>1. new = read
      BY <1>2, <2>3
    <3>2. ASSUME NEW key \in Keys PROVE pd_store'[key] # TRUE \/ pd_store'[key] = pd_store[key]
      <4>1. CASE key = k
        <5>1. pd_store'[key] = consented
          BY <1>3, <4>1
        <5> QED
          BY <2>3, <5>1
      <4>2. CASE key # k
        BY <1>3, <4>2
      <4> QED
        BY <4>1, <4>2
    <3>3. ConsentOK(read)'
      BY <1>1, <2>1, <3>2 DEF ConsentOK
    <3> QED
      BY <2>1, <3>1, <3>3 DEF Like
  <2> QED
    BY <2>2, <2>3
<1>5. \A r \in Readers : /\ Like(reads[r], reads'[r]) /\ ConsentOK(reads[r])'
                         /\ reads'[r].standing \subseteq reads[r].standing
  BY <1>4 DEF Like
<1> QED
  BY <1>1, <1>2, <1>3, <1>5, OffersRestKept, OthersStep

\* The end of the mandate withholds everything.
LEMMA RevokeSharingKeeps == ASSUME ReadingInv, RevokeSharing PROVE ReadingInv'
<1>1. /\ UNCHANGED <<reads, made, quotes, tokens, eligibility_rules, pd_store>> /\ OffersRest
      /\ flags' = Null
  BY DEF RevokeSharing, OffersRest
<1>2. \A r \in Readers : ConsentOK(reads[r])'
  BY <1>1 DEF ReadingInv, ReadsOK, ReadOK, ConsentOK
<1>3. \A r \in Readers : Like(reads[r], reads'[r])
  BY <1>1, LikeItself
<1>4. reads' = [r \in Readers |-> reads'[r]] /\ pd_store' = [k \in Keys |-> pd_store'[k]]
  BY <1>1 DEF ReadingInv, ReadsOK
<1> QED
  BY <1>1, <1>2, <1>3, <1>4, OffersRestKept, OthersStep

\* A rule that is removed does not stand any longer.
LEMMA EditRulesKeeps == ASSUME ReadingInv, NEW rule \in Rules, EditRules(rule) PROVE ReadingInv'
<1>1. UNCHANGED <<made, quotes, tokens, flags, pd_store>> /\ OffersRest
  BY DEF EditRules, OffersRest
<1>2. reads' = [r \in Readers |-> reads'[r]] /\ pd_store' = [k \in Keys |-> pd_store'[k]]
  BY <1>1 DEF ReadingInv, ReadsOK, EditRules
<1>3. ASSUME NEW r \in Readers
      PROVE  /\ Like(reads[r], reads'[r]) /\ ConsentOK(reads[r])'
             /\ reads[r].standing \subseteq eligibility_rules => reads'[r].standing \subseteq eligibility_rules'
  <2> PICK read, new : read = reads[r] /\ new = reads'[r]
    OBVIOUS
  <2>1. IsRead(read) /\ ConsentOK(read)
    BY DEF ReadingInv, ReadsOK, ReadOK, FormOK
  <2>2. CASE rule \in eligibility_rules
    <3>1. new = [read EXCEPT !.standing = read.standing \ {rule}] /\ eligibility_rules' = eligibility_rules \ {rule}
      BY <2>2 DEF EditRules
    <3>2. Like(read, new) /\ new.withheld = read.withheld /\ new.standing = read.standing \ {rule}
      BY <2>1, <3>1 DEF IsRead, Like
    <3>3. ConsentOK(new)'
      BY <1>1, <2>1, <3>2 DEF ConsentOK, Like
    <3> QED
      BY <3>1, <3>2, <3>3
  <2>3. CASE rule \notin eligibility_rules
    <3>1. new = read /\ eligibility_rules' = eligibility_rules \cup {rule}
      BY <2>3 DEF EditRules
    <3>2. ConsentOK(read)'
      BY <1>1, <2>1 DEF ConsentOK
    <3> QED
      BY <2>1, <3>1, <3>2 DEF Like
  <2> QED
    BY <2>2, <2>3
<1> QED
  BY <1>1, <1>2, <1>3, OffersRestKept, OthersStep

\* Nothing changes.
LEMMA ReadingStutters == ASSUME ReadingInv, UNCHANGED readingVars PROVE ReadingInv'
<1>1. UNCHANGED <<reads, made, quotes, tokens, flags, eligibility_rules, pd_store>> /\ OffersRest
  BY DEF readingVars, readVars, sources, offerVars, OffersRest
<1>2. \A r \in Readers : ConsentOK(reads[r])'
  BY <1>1 DEF ReadingInv, ReadsOK, ReadOK, ConsentOK
<1>3. \A r \in Readers : Like(reads[r], reads'[r])
  BY <1>1, LikeItself
<1>4. reads' = [r \in Readers |-> reads'[r]] /\ pd_store' = [k \in Keys |-> pd_store'[k]]
  BY <1>1 DEF ReadingInv, ReadsOK
<1> QED
  BY <1>1, <1>2, <1>3, <1>4, OffersRestKept, OthersStep

\* Every step of reading and editing keeps the invariant: one case per action.
LEMMA ReadingStep == ReadingInv /\ [ReadingNext]_readingVars => ReadingInv'
<1> SUFFICES ASSUME ReadingInv, [ReadingNext]_readingVars PROVE ReadingInv'
  OBVIOUS
<1>1. CASE OffersNext /\ UNCHANGED readVars
  BY <1>1, EditingKeeps
<1>2. ASSUME NEW r \in Readers, NEW input \in Inputs, Candidates(r, input) PROVE ReadingInv'
  BY <1>2, CandidatesKeeps
<1>3. ASSUME NEW r \in Readers, NEW c \in Cors, NEW answered \in BOOLEAN, FetchStatus(r, c, answered)
      PROVE  ReadingInv'
  BY <1>3, FetchStatusKeeps
<1>4. ASSUME NEW r \in Readers, \/ Filter(r) \/ AnswerCheck(r) \/ ReadMandate(r) \/ ReadItems(r)
                                \/ NoMint(r) \/ InsertQuote(r) \/ Answer(r)
      PROVE  ReadingInv'
  <2>1. CASE AnswerCheck(r) \/ Answer(r)
    BY <2>1, ReadEnds DEF AnswerCheck, Answer
  <2> QED
    BY <1>4, <2>1, FilterKeeps, ReadMandateKeeps, ReadItemsKeeps, NoMintKeeps, InsertQuoteKeeps
<1>5. ASSUME NEW r \in Readers, At(r, "decide"),
             NEW order \in Orders(Ids(reads[r].eligibility.eligible)), Decide(r, order)
      PROVE  ReadingInv'
  BY <1>5, DecideKeeps
<1>6. ASSUME NEW r \in Readers, NEW lag \in {0, 1}, NEW answered \in BOOLEAN, Mint(r, lag, answered)
      PROVE  ReadingInv'
  BY <1>6, MintKeeps
<1>7. CASE RestartCore \/ RevokeSharing
  BY <1>7, RestartCoreKeeps, RevokeSharingKeeps
<1>8. ASSUME NEW k \in Keys, NEW consented \in BOOLEAN \cup {Null}, PutPd(k, consented) PROVE ReadingInv'
  BY <1>8, PutPdKeeps
<1>9. ASSUME NEW rule \in Rules, EditRules(rule) PROVE ReadingInv'
  BY <1>9, EditRulesKeeps
<1>10. CASE UNCHANGED readingVars
  BY <1>10, ReadingStutters
<1> QED
  BY <1>1, <1>2, <1>3, <1>4, <1>5, <1>6, <1>7, <1>8, <1>9, <1>10 DEF ReadingNext

\* The invariant holds throughout.
LEMMA ReadingIsInvariant == ReadingSpec => []ReadingInv
<1>1. OffersInit /\ ReadingInit /\ pd_store \in [Keys -> BOOLEAN \cup {Null}] => ReadingInv
  BY ReadsStart
<1> QED
  BY <1>1, ReadingStep, PTL DEF ReadingSpec

\* A read shows each eligible offer once or says why not, whatever is edited
\* while it is under way and whatever the sidecar answers, and check_eligibility
\* calls eligible what is so by the same measure (read-offers.ts, eligibility/,
\* decisioning/, guardrails/).
THEOREM ReadsCorrect == ReadingSpec => []ReadsAreSound
BY ReadingIsInvariant, ReadingIsSafe, PTL

\* A quote is of a commitment of its offer, and its token is the only one
\* minted for it, through lost answers and restarts (quotes/service.ts).
THEOREM QuotesCorrect == ReadingSpec => []QuotesAreHonest
BY ReadingIsInvariant, ReadingIsSafe, PTL

\* What the consumer withheld before a read arrived never reaches its ranking
\* (pd-reader.ts).
THEOREM ConsentCorrect == ReadingSpec => []WithheldStaysHome
BY ReadingIsInvariant, ReadingIsSafe, PTL

-----------------------------------------------------------------------------
(* The requests of agents.                                                 *)

Envelopes == [agent : Agents, key : Agents, nonce : Nonces, ts : Int]

\* A request that has arrived and is not refused.
Arrived ==
  [step : {"arrived", "timely", "valid", "identified", "served"},
   tier : {"anonymous", "key", "signed"}, key : Agents \cup {Nobody},
   envelope : Envelopes \cup {Nobody}, intact : BOOLEAN, dead : BOOLEAN,
   agent : Agents \cup {Nobody}, checked : Int \cup {Nobody},
   admitted : Int \cup {Nobody}, sure : BOOLEAN]

WorldTypeOK ==
  /\ request_time \in Nat
  /\ agent_keys \in [Agents -> AgentKeyRows \cup {Nobody}]
  /\ signed \subseteq Envelopes
  /\ replay \in [Nonces -> Int \cup {Nobody}]

RequestsTypeOK ==
  /\ WorldTypeOK
  /\ request = [r \in Requests |-> request[r]]
  /\ \A r \in Requests : request[r].step \in {"unsent", "refused"} \/ request[r] \in Arrived

\* The nonce n is remembered until t.
Remembered(n, t) == request_time >= t \/ (replay[n] # Nobody /\ replay[n] >= t)

\* An API key is the agent's, and a revoked one goes nowhere.
KeyOK(q) ==
  /\ q.step \in {"arrived", "identified", "served"}
  /\ q.dead => q.key # Nobody /\ Revoked(q.key)
  /\ q.step # "arrived" => q.agent = q.key /\ ~q.dead

\* A signature gets on by its time, then by its key, then by its nonce.
SignatureOK(q) ==
  /\ q.envelope \in signed
  /\ q.step # "arrived" =>
       /\ q.checked \in Int /\ q.checked <= request_time
       /\ q.checked - q.envelope.ts \in -RequestSkew .. RequestSkew
  /\ q.step \in {"valid", "identified", "served"} =>
       q.envelope.agent = q.agent /\ q.envelope.key = q.agent /\ q.intact
  /\ q.step \in {"identified", "served"} =>
       /\ q.admitted \in Int /\ q.checked <= q.admitted /\ q.admitted <= request_time
       /\ q.sure => Remembered(q.envelope.nonce, q.admitted + NonceTtl)

RequestOK(q) ==
  /\ q.tier = "anonymous" => q.agent = Nobody /\ q.step \in {"arrived", "identified", "served"}
  /\ q.tier = "key" => KeyOK(q)
  /\ q.tier = "signed" => SignatureOK(q)

\* The cache answered, and let the signature in.
LetIn(q) == q \in Arrived /\ q.step \in {"identified", "served"} /\ q.tier = "signed" /\ q.sure

\* Two signatures let in are two, or as far apart as the nonce is remembered.
Apart(q, p) ==
  LetIn(q) /\ LetIn(p) /\ q.envelope = p.envelope /\ q.admitted <= p.admitted
    => p.admitted >= q.admitted + NonceTtl

RequestsInv ==
  /\ RequestsTypeOK
  /\ \A r \in Requests : request[r] \in Arrived => RequestOK(request[r])
  /\ \A r, s \in Requests : r # s => Apart(request[r], request[s])

LEMMA RequestsInvInit == RequestsInit => RequestsInv
<1> SUFFICES ASSUME RequestsInit PROVE RequestsInv
  OBVIOUS
<1>1. WorldTypeOK
  BY DEF RequestsInit, WorldTypeOK
<1>2. \A r \in Requests : request[r] = Unsent /\ request[r].step = "unsent" /\ request[r] \notin Arrived
  BY DEF RequestsInit, Unsent, Arrived
<1>3. request = [r \in Requests |-> request[r]]
  BY DEF RequestsInit
<1> QED
  BY <1>1, <1>2, <1>3 DEF RequestsInv, RequestsTypeOK, Apart, LetIn

\* Time goes on, a revocation stays, a signature stays out, and a nonce is
\* remembered until its time is over.
WorldMovesOn ==
  /\ WorldTypeOK'
  /\ request_time' >= request_time
  /\ \A a \in Agents : Revoked(a) => Revoked(a)'
  /\ signed \subseteq signed'
  /\ \A n \in Nonces, t \in Int : Remembered(n, t) => Remembered(n, t)'

\* A step that leaves the keys and the replay table alone loses nothing of them.
LEMMA WorldStays ==
  WorldTypeOK /\ UNCHANGED <<request_time, agent_keys, signed, replay>> => WorldMovesOn
BY DEF WorldTypeOK, WorldMovesOn, Revoked, Remembered

\* What holds of a request that does not move holds afterwards.
LEMMA RequestStays ==
  ASSUME WorldTypeOK, WorldMovesOn, NEW q \in Arrived, RequestOK(q) PROVE RequestOK(q)'
<1>1. CASE q.tier = "key"
  BY <1>1 DEF RequestOK, KeyOK, WorldMovesOn, Arrived
<1>2. CASE q.tier = "signed"
  <2>1. q.envelope \in signed /\ q.envelope \in Envelopes /\ q.envelope.nonce \in Nonces
    BY <1>2 DEF RequestOK, SignatureOK, WorldTypeOK, Envelopes
  <2>2. q.step # "arrived" =>
          /\ q.checked \in Int /\ q.checked <= request_time'
          /\ q.checked - q.envelope.ts \in -RequestSkew .. RequestSkew
    BY <1>2 DEF RequestOK, SignatureOK, WorldTypeOK, WorldMovesOn
  <2>3. q.step \in {"identified", "served"} =>
          /\ q.admitted \in Int /\ q.checked <= q.admitted /\ q.admitted <= request_time'
          /\ q.sure => Remembered(q.envelope.nonce, q.admitted + NonceTtl)'
    <3> SUFFICES ASSUME q.step \in {"identified", "served"}
                 PROVE  /\ q.admitted \in Int /\ q.checked <= q.admitted /\ q.admitted <= request_time'
                        /\ q.sure => Remembered(q.envelope.nonce, q.admitted + NonceTtl)'
      OBVIOUS
    <3>1. /\ q.admitted \in Int /\ q.checked <= q.admitted /\ q.admitted <= request_time
          /\ q.sure => Remembered(q.envelope.nonce, q.admitted + NonceTtl)
      BY <1>2 DEF RequestOK, SignatureOK
    <3>2. q.admitted + NonceTtl \in Int
      BY <3>1, RequestsAssumption DEF NonceTtl
    <3>3. q.admitted <= request_time'
      BY <3>1 DEF WorldTypeOK, WorldMovesOn
    <3> QED
      BY <2>1, <3>1, <3>2, <3>3 DEF WorldMovesOn
  <2> QED
    BY <1>2, <2>1, <2>2, <2>3 DEF RequestOK, SignatureOK, WorldMovesOn
<1>3. CASE q.tier = "anonymous"
  BY <1>3 DEF RequestOK
<1> QED
  BY <1>1, <1>2, <1>3 DEF Arrived

\* The world moves, no request does.
LEMMA WorldKeeps ==
  ASSUME RequestsInv, WorldMovesOn, UNCHANGED request PROVE RequestsInv'
<1>1. \A q \in Arrived : RequestOK(q) => RequestOK(q)'
  BY RequestStays DEF RequestsInv, RequestsTypeOK
<1> QED
  BY <1>1 DEF RequestsInv, RequestsTypeOK, WorldMovesOn, Apart, LetIn

\* One request moves.
LEMMA RequestMoves ==
  ASSUME RequestsInv, WorldMovesOn, NEW r \in Requests, NEW new,
         request' = [request EXCEPT ![r] = new],
         new.step = "refused" \/ new \in Arrived,
         new \in Arrived => RequestOK(request[r])',
         \A s \in Requests : s # r => Apart(request[s], new) /\ Apart(new, request[s])
  PROVE  RequestsInv'
<1>1. /\ request' = [s \in Requests |-> request'[s]]
      /\ request'[r] = new /\ \A s \in Requests : s # r => request'[s] = request[s]
  BY DEF RequestsInv, RequestsTypeOK
<1>2. RequestsTypeOK'
  BY <1>1 DEF RequestsInv, RequestsTypeOK, WorldMovesOn
<1>3. \A q \in Arrived : RequestOK(q) => RequestOK(q)'
  BY RequestStays DEF RequestsInv, RequestsTypeOK
<1>4. ASSUME NEW s \in Requests, request'[s] \in Arrived PROVE RequestOK(request[s])'
  BY <1>1, <1>3, <1>4 DEF RequestsInv
<1>5. ASSUME NEW s \in Requests, NEW u \in Requests, s # u PROVE Apart(request[s], request[u])'
  <2>1. Apart(request'[s], request'[u])
    BY <1>1, <1>5 DEF RequestsInv
  <2> QED
    BY <2>1 DEF Apart, LetIn
<1> QED
  BY <1>2, <1>4, <1>5 DEF RequestsInv

\* A request that is refused, or not let in yet, is no second one.
LEMMA RequestIsAlone ==
  ASSUME RequestsInv, WorldMovesOn, NEW r \in Requests, NEW new,
         request' = [request EXCEPT ![r] = new],
         new.step = "refused" \/ new \in Arrived,
         new \in Arrived => RequestOK(request[r])', ~LetIn(new)
  PROVE  RequestsInv'
BY RequestMoves DEF Apart

\* A request that is refused.
LEMMA RejectKeeps ==
  ASSUME RequestsInv, WorldMovesOn, NEW r \in Requests, Reject(r) PROVE RequestsInv'
<1> DEFINE new == [step |-> "refused"]
<1>1. new.step = "refused" /\ new \notin Arrived /\ request' = [request EXCEPT ![r] = new] /\ request'[r] = new
  BY DEF Reject, Arrived, RequestsInv, RequestsTypeOK
<1> HIDE DEF new
<1> QED
  BY <1>1, RequestIsAlone DEF LetIn

\* A request arrives with what it presents.
LEMMA ArriveKeeps ==
  ASSUME RequestsInv, NEW r \in Requests, ArriveRequest(r) PROVE RequestsInv'
<1>1. WorldMovesOn
  BY WorldStays DEF RequestsInv, RequestsTypeOK, ArriveRequest, Present
<1>2. ASSUME NEW tier \in {"anonymous", "key", "signed"}, NEW key \in Agents \cup {Nobody},
             NEW envelope \in Envelopes \cup {Nobody}, NEW intact \in BOOLEAN,
             Present(r, tier, key, envelope, intact), tier = "signed" => envelope \in signed
      PROVE  RequestsInv'
  <2> DEFINE dead == key # Nobody /\ Revoked(key)
             new == [step |-> "arrived", tier |-> tier, key |-> key, envelope |-> envelope,
                     intact |-> intact, dead |-> dead, agent |-> Nobody, checked |-> Nobody,
                     admitted |-> Nobody, sure |-> TRUE]
  <2>1. request' = [request EXCEPT ![r] = new] /\ UNCHANGED <<agent_keys, signed>>
    BY <1>2 DEF Present
  <2>2. dead \in BOOLEAN /\ (dead => key # Nobody /\ Revoked(key))
    OBVIOUS
  <2> HIDE DEF dead
  <2>3. /\ new \in Arrived /\ new.step = "arrived" /\ new.tier = tier /\ new.key = key
        /\ new.envelope = envelope /\ new.dead = dead /\ new.agent = Nobody
    BY <2>2 DEF Arrived
  <2> HIDE DEF new
  <2>6. request'[r] = new
    BY <2>1 DEF RequestsInv, RequestsTypeOK
  <2>4. RequestOK(request[r])'
    BY <1>2, <2>1, <2>2, <2>3, <2>6 DEF RequestOK, KeyOK, SignatureOK, Revoked
  <2> QED
    BY <1>1, <2>1, <2>3, <2>4, RequestIsAlone DEF LetIn
<1>3. \A e \in signed : e \in Envelopes
  BY DEF RequestsInv, RequestsTypeOK, WorldTypeOK
<1> QED
  BY <1>2, <1>3 DEF ArriveRequest

\* A request without a credential, or with a key, is identified.
LEMMA AuthenticateKeeps ==
  ASSUME RequestsInv, NEW r \in Requests, Anonymous(r) \/ authenticate(r) PROVE RequestsInv'
<1> DEFINE q == request[r]
<1>1. WorldMovesOn /\ UNCHANGED agent_keys
  BY WorldStays DEF RequestsInv, RequestsTypeOK, Anonymous, authenticate, Untouched
<1>2. q \in Arrived /\ RequestOK(q) /\ q.step = "arrived"
  BY DEF RequestsInv, RequestsTypeOK, Anonymous, authenticate, Stands
<1>3. CASE Anonymous(r)
  <2> DEFINE new == [q EXCEPT !.step = "identified"]
  <2>1. request' = [request EXCEPT ![r] = new] /\ q.tier = "anonymous"
    BY <1>3 DEF Anonymous, Move
  <2>2. new \in Arrived /\ new.tier = q.tier /\ new.agent = q.agent /\ new.step = "identified"
    BY <1>2 DEF Arrived
  <2> HIDE DEF new
  <2>6. request'[r] = new
    BY <2>1 DEF RequestsInv, RequestsTypeOK
  <2>3. RequestOK(request[r])'
    BY <1>2, <2>1, <2>2, <2>6 DEF RequestOK
  <2> QED
    BY <1>1, <2>1, <2>2, <2>3, RequestIsAlone DEF LetIn
<1>4. CASE authenticate(r) /\ Reject(r)
  BY <1>1, <1>4, RejectKeeps
<1>5. CASE authenticate(r) /\ ~Reject(r)
  <2> DEFINE new == [q EXCEPT !.step = "identified", !.agent = q.key]
  <2>1. /\ request' = [request EXCEPT ![r] = new] /\ q.tier = "key"
        /\ q.key # Nobody /\ ~Revoked(q.key)
    BY <1>5 DEF authenticate
  <2>2. /\ new \in Arrived /\ new.tier = q.tier /\ new.agent = q.key /\ new.key = q.key
        /\ new.step = "identified" /\ new.dead = q.dead
    BY <1>2 DEF Arrived
  <2> HIDE DEF new
  <2>6. request'[r] = new
    BY <2>1 DEF RequestsInv, RequestsTypeOK
  <2>3. ~q.dead
    BY <1>2, <2>1 DEF RequestOK, KeyOK
  <2>4. RequestOK(request[r])'
    BY <2>1, <2>2, <2>3, <2>6 DEF RequestOK, KeyOK
  <2> QED
    BY <1>1, <2>1, <2>2, <2>4, RequestIsAlone DEF LetIn
<1> QED
  BY <1>3, <1>4, <1>5

\* A signature is on time, and of the agent's own key.
LEMMA VerifyKeeps ==
  ASSUME RequestsInv, NEW r \in Requests, CheckTimestamp(r) \/ VerifyRequest(r) PROVE RequestsInv'
<1> DEFINE q == request[r]
<1>1. WorldMovesOn /\ UNCHANGED <<request_time, signed>>
  BY WorldStays DEF RequestsInv, RequestsTypeOK, CheckTimestamp, VerifyRequest, Untouched
<1>2. q \in Arrived /\ RequestOK(q) /\ request_time \in Int
  BY DEF RequestsInv, RequestsTypeOK, WorldTypeOK, CheckTimestamp, VerifyRequest, Stands
<1>3. CASE Reject(r)
  BY <1>1, <1>3, RejectKeeps
<1>4. CASE CheckTimestamp(r) /\ ~Reject(r)
  <2> DEFINE new == [q EXCEPT !.step = "timely", !.checked = request_time]
  <2>1. /\ request' = [request EXCEPT ![r] = new] /\ q.tier = "signed"
        /\ request_time - q.envelope.ts \in -RequestSkew .. RequestSkew
    BY <1>4 DEF CheckTimestamp
  <2>2. /\ new \in Arrived /\ new.tier = q.tier /\ new.envelope = q.envelope
        /\ new.step = "timely" /\ new.checked = request_time
    BY <1>2 DEF Arrived
  <2> HIDE DEF new
  <2>6. request'[r] = new
    BY <2>1 DEF RequestsInv, RequestsTypeOK
  <2>3. RequestOK(request[r])'
    BY <1>1, <1>2, <2>1, <2>2, <2>6 DEF RequestOK, SignatureOK
  <2> QED
    BY <1>1, <2>1, <2>2, <2>3, RequestIsAlone DEF LetIn
<1>5. CASE VerifyRequest(r) /\ ~Reject(r)
  <2> DEFINE new == [q EXCEPT !.step = "valid", !.agent = q.envelope.agent]
  <2>1. /\ request' = [request EXCEPT ![r] = new] /\ q.step = "timely"
        /\ q.envelope.key = q.envelope.agent /\ q.intact
    BY <1>5 DEF VerifyRequest, Stands
  <2>2. q.tier = "signed" /\ SignatureOK(q)
    BY <1>2, <2>1 DEF RequestOK, KeyOK, Arrived
  <2>3. q.envelope.agent \in Agents
    BY <2>2 DEF SignatureOK, RequestsInv, RequestsTypeOK, WorldTypeOK, Envelopes
  <2>4. /\ new \in Arrived /\ new.tier = q.tier /\ new.envelope = q.envelope
        /\ new.step = "valid" /\ new.checked = q.checked /\ new.agent = q.envelope.agent
        /\ new.intact
    BY <1>2, <2>1, <2>3 DEF Arrived
  <2> HIDE DEF new
  <2>6. request'[r] = new
    BY <2>1 DEF RequestsInv, RequestsTypeOK
  <2>5. RequestOK(request[r])'
    BY <1>1, <2>1, <2>2, <2>4, <2>6 DEF RequestOK, SignatureOK
  <2> QED
    BY <1>1, <2>1, <2>4, <2>5, RequestIsAlone DEF LetIn
<1> QED
  BY <1>3, <1>4, <1>5

\* A nonce that was free is remembered from now on, one that was not stays.
LEMMA NonceIsTaken ==
  ASSUME RequestsInv, NEW n \in Nonces, UNCHANGED <<request_time, agent_keys, signed>>,
         replay' = replay \/ (replay[n] = Nobody /\ replay' = [replay EXCEPT ![n] = request_time + NonceTtl])
  PROVE  WorldMovesOn
<1>1. WorldTypeOK /\ request_time + NonceTtl \in Int
  BY RequestsAssumption DEF RequestsInv, RequestsTypeOK, WorldTypeOK, NonceTtl
<1>2. WorldTypeOK'
  BY <1>1 DEF WorldTypeOK
<1>3. \A k \in Nonces, t \in Int : Remembered(k, t) => Remembered(k, t)'
  BY <1>1, RequestsAssumption DEF WorldTypeOK, Remembered
<1> QED
  BY <1>1, <1>2, <1>3 DEF WorldMovesOn, WorldTypeOK, Revoked

\* A signature is let in: once while its nonce is remembered.
LEMMA AdmitKeeps ==
  ASSUME RequestsInv, NEW r \in Requests, seenBefore(r) \/ CacheFails(r) PROVE RequestsInv'
<1> DEFINE q == request[r]  n == q.envelope.nonce
<1>1. /\ q \in Arrived /\ RequestOK(q) /\ q.step = "valid"
      /\ request_time \in Nat /\ WorldTypeOK
  BY DEF RequestsInv, RequestsTypeOK, WorldTypeOK, seenBefore, CacheFails, Stands
<1>2. q.tier = "signed" /\ SignatureOK(q)
  BY <1>1 DEF RequestOK, KeyOK, Arrived
<1>9. q.intact /\ request_time \in Int \cup {Nobody}
  BY <1>1, <1>2 DEF SignatureOK
<1>3. q.envelope \in signed /\ q.envelope \in Envelopes /\ n \in Nonces
  BY <1>1, <1>2 DEF SignatureOK, WorldTypeOK, Envelopes
<1>4. UNCHANGED <<request_time, agent_keys, signed>>
  BY DEF seenBefore, CacheFails
<1>5. WorldMovesOn
  <2>1. replay' = replay \/ (replay[n] = Nobody /\ replay' = [replay EXCEPT ![n] = request_time + NonceTtl])
    BY DEF seenBefore, CacheFails
  <2> QED
    BY <1>3, <1>4, <2>1, NonceIsTaken
<1>6. CASE Reject(r)
  BY <1>5, <1>6, RejectKeeps
<1>7. CASE seenBefore(r) /\ ~Reject(r)
  <2> DEFINE new == [q EXCEPT !.step = "identified", !.admitted = request_time]
  <2>1. /\ request' = [request EXCEPT ![r] = new] /\ replay[n] = Nobody
        /\ replay' = [replay EXCEPT ![n] = request_time + NonceTtl]
    BY <1>7 DEF seenBefore
  <2>2. /\ new \in Arrived /\ new.tier = q.tier /\ new.envelope = q.envelope
        /\ new.step = "identified" /\ new.checked = q.checked /\ new.agent = q.agent
        /\ new.intact /\ new.admitted = request_time
    BY <1>1, <1>9 DEF Arrived
  <2> HIDE DEF new
  <2>3. request'[r] = new
    BY <2>1 DEF RequestsInv, RequestsTypeOK
  <2>4. replay'[n] # Nobody /\ replay'[n] >= request_time + NonceTtl
    <3>1. replay'[n] = request_time + NonceTtl /\ request_time + NonceTtl \in Int
      BY <1>1, <1>3, <2>1, RequestsAssumption DEF WorldTypeOK, NonceTtl
    <3> QED
      BY <3>1, RequestsAssumption
  <2>5. RequestOK(request[r])'
    BY <1>1, <1>2, <1>4, <2>2, <2>3, <2>4 DEF RequestOK, SignatureOK, Remembered, NonceTtl
  <2>6. ASSUME NEW s \in Requests, s # r
        PROVE  Apart(request[s], new) /\ Apart(new, request[s])
    <3>1. SUFFICES ASSUME LetIn(request[s]), request[s].envelope = q.envelope
                   PROVE  /\ request[s].admitted + NonceTtl <= request_time
                          /\ request_time <= request[s].admitted
                                => request[s].admitted >= request_time + NonceTtl
      BY <2>2 DEF Apart, LetIn
    <3>2. RequestOK(request[s])
      BY <3>1 DEF RequestsInv, LetIn
    <3>3. /\ request[s].admitted \in Int /\ request[s].admitted <= request_time
          /\ Remembered(n, request[s].admitted + NonceTtl)
      BY <3>1, <3>2 DEF RequestOK, SignatureOK, LetIn
    <3> QED
      BY <1>1, <2>1, <3>3, RequestsAssumption DEF Remembered, NonceTtl
  <2> QED
    BY <1>5, <2>1, <2>2, <2>5, <2>6, RequestMoves
<1>8. CASE CacheFails(r) /\ ~Reject(r)
  <2> DEFINE new == [q EXCEPT !.step = "identified", !.admitted = request_time, !.sure = FALSE]
  <2>1. request' = [request EXCEPT ![r] = new]
    BY <1>8 DEF CacheFails
  <2>2. /\ new \in Arrived /\ new.tier = q.tier /\ new.envelope = q.envelope
        /\ new.step = "identified" /\ new.checked = q.checked /\ new.agent = q.agent
        /\ new.intact /\ new.admitted = request_time /\ new.sure = FALSE
    BY <1>1, <1>9 DEF Arrived
  <2> HIDE DEF new
  <2>3. request'[r] = new
    BY <2>1 DEF RequestsInv, RequestsTypeOK
  <2>4. RequestOK(request[r])'
    BY <1>1, <1>2, <1>4, <2>2, <2>3 DEF RequestOK, SignatureOK
  <2> QED
    BY <1>5, <2>1, <2>2, <2>4, RequestIsAlone DEF LetIn
<1> QED
  BY <1>6, <1>7, <1>8

\* The limiter lets a request on, or refuses it.
LEMMA LimitKeeps ==
  ASSUME RequestsInv, NEW r \in Requests, LimitRequest(r) PROVE RequestsInv'
<1> DEFINE q == request[r]  new == [q EXCEPT !.step = "served"]
<1>1. WorldMovesOn /\ UNCHANGED <<request_time, agent_keys, signed, replay>>
  BY WorldStays DEF RequestsInv, RequestsTypeOK, LimitRequest, Untouched
<1>2. q \in Arrived /\ RequestOK(q) /\ q.step = "identified"
  BY DEF RequestsInv, RequestsTypeOK, LimitRequest, Stands
<1>3. CASE Reject(r)
  BY <1>1, <1>3, RejectKeeps
<1>4. CASE Move(r, "served")
  <2>1. request' = [request EXCEPT ![r] = new]
    BY <1>4 DEF Move
  <2>2. /\ new \in Arrived /\ new.tier = q.tier /\ new.envelope = q.envelope /\ new.key = q.key
        /\ new.step = "served" /\ new.checked = q.checked /\ new.agent = q.agent
        /\ new.intact = q.intact /\ new.admitted = q.admitted /\ new.sure = q.sure
        /\ new.dead = q.dead
    BY <1>2 DEF Arrived
  <2> HIDE DEF new
  <2>3. request'[r] = new
    BY <2>1 DEF RequestsInv, RequestsTypeOK
  <2>4. RequestOK(q)'
    BY <1>1, <1>2, <2>2, <2>3 DEF RequestOK, SignatureOK, KeyOK, Remembered, Revoked
  <2>5. ASSUME NEW s \in Requests, s # r
        PROVE  Apart(request[s], new) /\ Apart(new, request[s])
    <3>1. Apart(request[s], q) /\ Apart(q, request[s])
      BY <2>5 DEF RequestsInv
    <3> QED
      BY <1>2, <2>2, <3>1 DEF Apart, LetIn
  <2> QED
    BY <1>1, <2>1, <2>2, <2>4, <2>5, RequestMoves
<1> QED
  BY <1>3, <1>4 DEF LimitRequest

\* Agents register, revoke and sign, nonces are forgotten, and time passes.
LEMMA WorldActionsKeep ==
  ASSUME RequestsInv,
         \/ \E a \in Agents :
              \/ \E gave \in BOOLEAN : register(a, gave)
              \/ revokeKeys(a)
              \/ \E name \in Agents, offset \in ClockOffsets : headersFor(a, name, offset)
         \/ \E n \in Nonces : Forget(n)
         \/ TimePasses
  PROVE  RequestsInv'
<1>1. WorldTypeOK
  BY DEF RequestsInv, RequestsTypeOK
<1>2. ASSUME NEW a \in Agents, NEW gave \in BOOLEAN, register(a, gave) PROVE RequestsInv'
  <2> DEFINE row == [public |-> gave, revoked |-> FALSE]
  <2>1. /\ agent_keys' = [agent_keys EXCEPT ![a] = row] /\ agent_keys[a] = Nobody
        /\ UNCHANGED <<request_time, signed, request, replay>>
    BY <1>2 DEF register
  <2>2. row \in AgentKeyRows
    BY DEF AgentKeyRows
  <2> HIDE DEF row
  <2>3. WorldMovesOn
    BY <1>1, <2>1, <2>2 DEF WorldTypeOK, WorldMovesOn, Revoked, Remembered
  <2> QED
    BY <2>1, <2>3, WorldKeeps
<1>3. ASSUME NEW a \in Agents, revokeKeys(a) PROVE RequestsInv'
  <2> DEFINE row == [agent_keys[a] EXCEPT !.revoked = TRUE]
  <2>1. /\ agent_keys' = [agent_keys EXCEPT ![a] = row] /\ agent_keys[a] # Nobody
        /\ UNCHANGED <<request_time, signed, request, replay>>
    BY <1>3 DEF revokeKeys
  <2>2. row \in AgentKeyRows /\ row.revoked = TRUE
    BY <1>1, <2>1 DEF WorldTypeOK, AgentKeyRows
  <2> HIDE DEF row
  <2>3. WorldMovesOn
    BY <1>1, <2>1, <2>2, RequestsAssumption DEF WorldTypeOK, WorldMovesOn, Revoked, Remembered
  <2> QED
    BY <2>1, <2>3, WorldKeeps
<1>4. ASSUME NEW a \in Agents, NEW name \in Agents, NEW offset \in ClockOffsets,
             headersFor(a, name, offset)
      PROVE  RequestsInv'
  <2> DEFINE nonce == Cardinality(signed) + 1
             ts == request_time + offset
             e == [agent |-> name, key |-> a, nonce |-> nonce, ts |-> ts]
  <2>1. /\ signed' = signed \cup {e} /\ nonce \in Nonces
        /\ UNCHANGED <<request_time, agent_keys, request, replay>>
    BY <1>4 DEF headersFor
  <2>2. ts \in Int
    BY <1>1, RequestsAssumption DEF WorldTypeOK
  <2> HIDE DEF nonce, ts
  <2>3. e \in Envelopes
    BY <2>1, <2>2 DEF Envelopes
  <2> HIDE DEF e
  <2>4. WorldMovesOn
    BY <1>1, <2>1, <2>3 DEF WorldTypeOK, WorldMovesOn, Revoked, Remembered
  <2> QED
    BY <2>1, <2>4, WorldKeeps
<1>5. ASSUME NEW n \in Nonces, Forget(n) PROVE RequestsInv'
  <2>1. /\ replay[n] # Nobody /\ replay[n] <= request_time /\ replay' = [replay EXCEPT ![n] = Nobody]
        /\ UNCHANGED <<request_time, agent_keys, signed, request>>
    BY <1>5 DEF Forget
  <2>2. \A k \in Nonces, t \in Int : Remembered(k, t) => Remembered(k, t)'
    BY <1>1, <2>1 DEF WorldTypeOK, Remembered
  <2>3. WorldMovesOn
    BY <1>1, <2>1, <2>2 DEF WorldTypeOK, WorldMovesOn, Revoked
  <2> QED
    BY <2>1, <2>3, WorldKeeps
<1>6. ASSUME TimePasses PROVE RequestsInv'
  <2>1. WorldMovesOn /\ UNCHANGED request
    BY <1>1, <1>6 DEF TimePasses, WorldTypeOK, WorldMovesOn, Revoked, Remembered
  <2> QED
    BY <2>1, WorldKeeps
<1> QED
  BY <1>2, <1>3, <1>4, <1>5, <1>6

\* Every step of the agents, their requests and the cache keeps the invariant.
LEMMA RequestsStep == RequestsInv /\ [RequestsNext]_requestVars => RequestsInv'
<1> SUFFICES ASSUME RequestsInv, [RequestsNext]_requestVars PROVE RequestsInv'
  OBVIOUS
<1>1. CASE UNCHANGED requestVars
  BY <1>1, WorldStays, WorldKeeps DEF requestVars, RequestsInv, RequestsTypeOK
<1>2. CASE \E r \in Requests :
             \/ ArriveRequest(r) \/ Anonymous(r) \/ authenticate(r) \/ CheckTimestamp(r)
             \/ VerifyRequest(r) \/ seenBefore(r) \/ CacheFails(r) \/ LimitRequest(r)
  BY <1>2, ArriveKeeps, AuthenticateKeeps, VerifyKeeps, AdmitKeeps, LimitKeeps
<1> QED
  BY <1>1, <1>2, WorldActionsKeep DEF RequestsNext

LEMMA RequestsInvServes == RequestsInv => ServedOncePerCredential
<1> SUFFICES ASSUME RequestsInv PROVE ServedOncePerCredential
  OBVIOUS
<1>1. ASSUME NEW r \in Requests, Stands(r, "served"), request[r].agent # Nobody
      PROVE  LET a == request[r].agent  e == request[r].envelope
             IN  CASE request[r].tier = "key" -> request[r].key = a /\ ~request[r].dead
                   [] request[r].tier = "signed" ->
                        /\ e.agent = a /\ e.key = a /\ request[r].intact
                        /\ request[r].checked - e.ts \in -RequestSkew .. RequestSkew
                        /\ request[r].checked <= request[r].admitted
  <2>1. request[r] \in Arrived /\ RequestOK(request[r]) /\ request[r].step = "served"
    BY <1>1 DEF RequestsInv, RequestsTypeOK, Stands
  <2>2. request[r].tier \in {"key", "signed"}
    BY <1>1, <2>1 DEF RequestOK, Arrived
  <2> QED
    BY <2>1, <2>2 DEF RequestOK, KeyOK, SignatureOK
<1>2. ASSUME NEW r \in Requests, NEW q \in Requests, r # q,
             Stands(r, "served"), request[r].tier = "signed", request[r].sure,
             Stands(q, "served"), request[q].tier = "signed", request[q].sure,
             request[r].envelope = request[q].envelope, request[r].admitted <= request[q].admitted
      PROVE  request[q].admitted >= request[r].admitted + 2 * RequestSkew
  <2>1. LetIn(request[r]) /\ LetIn(request[q]) /\ Apart(request[r], request[q])
    BY <1>2 DEF RequestsInv, RequestsTypeOK, Stands, LetIn
  <2> QED
    BY <1>2, <2>1 DEF Apart, NonceTtl
<1> QED
  BY <1>1, <1>2 DEF ServedOncePerCredential

\* An agent's request is served on that agent's credential alone, and a signature
\* lets one request in while its nonce is remembered.
THEOREM RequestsServedCorrect == RequestsSpec => []ServedOncePerCredential
BY RequestsInvInit, RequestsStep, RequestsInvServes, PTL DEF RequestsSpec

-----------------------------------------------------------------------------
(* The merchants and their doors.                                          *)

\* A request of the control plane: a signup or a key, and an update.
SignupRows ==
  [step : {"insert", "key", "row", "ref", "secret", "publish"}, slug : Slugs \cup {NoOne},
   merchant : Shops \cup {NoOne}, sheet : BOOLEAN, secret : Secrets \cup {NoOne}]
UpdateRows == [step : {"update"}, merchant : Shops, status : {"active", "suspended"}]

\* A delivery that has arrived.
Known(order) ==
  [step : {"arrived", "checked", "authentic", "opening", "counted", "429", "admitted", "refused",
           "lost", "told"},
   input : DeliveryInputs, arrived : Nat, merchant : Shops \cup {NoOne}, order : {order}]
IsKnown(q) == q \in Known(q.order)

Exists(m) == m \in Shops /\ merchants[m] # NoOne
Keyed(m) == Exists(m) /\ merchants[m].signing_key_ref # NoOne
HasKey(m) == m \in custody /\ [merchant |-> m, ref |-> m] \in key_rows
OwnSecret(s, m) == s \in Secrets /\ webhook_secrets[s] # NoOne /\ webhook_secrets[s].merchant = m
\* Active, or live, at t or later.
ActiveSince(m, t) ==
  merchants[m].status = "active" \/ (merchants[m].suspended_at \in Int /\ merchants[m].suspended_at >= t)
LiveSince(s, t) == webhook_secrets[s].revoked_at = NoOne \/ webhook_secrets[s].revoked_at >= t

\* No slug is two merchants', and a key that is named is in custody and on record.
RegistryOK ==
  /\ clock \in Nat
  /\ merchants \in [Shops -> MerchantRows \cup {NoOne}]
  /\ webhook_secrets \in [Secrets -> SecretRows \cup {NoOne}]
  /\ \A m, n \in Shops : Exists(m) /\ Exists(n) /\ merchants[m].slug = merchants[n].slug => m = n
  /\ \A m \in Shops : Keyed(m) => merchants[m].signing_key_ref = m /\ HasKey(m)

\* What a signup has written at each of its steps.
SignupOK(j) ==
  j \in SignupRows =>
    /\ j.step = "insert" => j.slug \in Slugs
    /\ j.step # "insert" => Exists(j.merchant) /\ (j.sheet => merchants[j.merchant].slug = j.slug)
    /\ j.step = "row" => j.merchant \in custody
    /\ j.step \in {"ref", "secret", "publish"} => HasKey(j.merchant)
    /\ j.step \in {"secret", "publish"} => j.sheet /\ Keyed(j.merchant)
    /\ j.step = "publish" => OwnSecret(j.secret, j.merchant)

UpdateOK(j) == j \in UpdateRows => Exists(j.merchant)

SheetOK(sheet) ==
  /\ Exists(sheet.merchant) /\ merchants[sheet.merchant].slug = sheet.slug
  /\ OwnSecret(sheet.secret, sheet.merchant) /\ Keyed(sheet.merchant)

OfficeOK ==
  /\ onboarder = [w \in Onboarders |-> onboarder[w]]
  /\ \A w \in Onboarders :
       /\ onboarder[w] = AtDesk \/ onboarder[w] \in SignupRows \cup UpdateRows
       /\ SignupOK(onboarder[w]) /\ UpdateOK(onboarder[w])
  /\ sheets \subseteq [merchant : Shops, slug : Slugs, secret : Secrets]
  /\ \A sheet \in sheets : SheetOK(sheet)

Recognised == {"authentic", "opening", "counted", "429", "admitted", "refused", "lost"}

\* What is known of a delivery at each step of its door.
DeliveryOK(q) ==
  /\ q.arrived <= clock
  /\ q.step \in {"checked"} \cup Recognised =>
       /\ Exists(q.merchant) /\ merchants[q.merchant].slug = q.input.slug
       /\ ActiveSince(q.merchant, q.arrived)
       /\ q.input.door # "verdict"
  /\ q.step = "checked" => q.input.door # "claims"
  /\ q.step \in Recognised /\ q.input.door # "claims" =>
       OwnSecret(q.input.secret, q.merchant) /\ LiveSince(q.input.secret, q.arrived)
  /\ q.step = "admitted" =>
       /\ q.input.claimant \in {NoOne, q.merchant}
       /\ q.order.token \in {q.input.carrier.field, NoOne}
  /\ q.step = "told" =>
       /\ q.input.claimant # NoOne
       /\ q.input.quoted \/ /\ Exists(q.input.claimant)
                            /\ merchants[q.input.claimant].slug = q.input.slug
                            /\ ActiveSince(q.input.claimant, q.arrived)

\* As it stands, the delivery would be recognised.
Honest(input) ==
  IF input.door = "verdict" THEN MayAsk(input)
  ELSE Timely(input) /\ \E m \in getBySlug(input.slug) :
                          input.door = "claims" \/ input.secret \in LiveSecrets(m)

GateOK ==
  /\ delivery = [d \in Deliveries |-> delivery[d]]
  /\ \A d \in Deliveries :
       /\ delivery[d].step \in {"outside", "401", "500"} \/ IsKnown(delivery[d])
       /\ IsKnown(delivery[d]) => DeliveryOK(delivery[d])
       /\ delivery[d].step = "401" => ~delivery[d].honest
  /\ \A d \in undisturbed :
       /\ d \in Deliveries /\ IsKnown(delivery[d]) /\ delivery[d].step \in {"arrived", "checked"}
       /\ Honest(delivery[d].input)

\* The deliveries a window has counted, or might have.
Hits(b) ==
  {d \in Deliveries : delivery[d].step \in Recognised \ {"authentic"} /\ Bucket(d) = b}

WindowsOK ==
  /\ windows \in [Buckets -> WindowRows \cup {NoOne}]
  /\ \A b \in Buckets : windows[b] # NoOne => windows[b].count <= Cardinality(Hits(b))

DoorsInv == RegistryOK /\ OfficeOK /\ GateOK /\ WindowsOK

LEMMA DoorsInvInit == DoorsInit => DoorsInv
<1> SUFFICES ASSUME DoorsInit PROVE DoorsInv
  OBVIOUS
<1>1. RegistryOK
  BY DEF DoorsInit, RegistryOK, Exists, Keyed
<1>2. OfficeOK
  BY DEF DoorsInit, OfficeOK, AtDesk, SignupOK, SignupRows, UpdateOK, UpdateRows
<1>3. GateOK
  <2>1. Outside.step = "outside" /\ ~IsKnown(Outside)
    BY DEF Outside, IsKnown, Known
  <2> QED
    BY <2>1 DEF DoorsInit, GateOK
<1>4. WindowsOK
  BY DEF DoorsInit, WindowsOK
<1> QED
  BY <1>1, <1>2, <1>3, <1>4 DEF DoorsInv

\* Rows stay, with the slug, the key and the owner they have; whoever was active,
\* or live, since t still was.
RegistryMovesOn ==
  /\ RegistryOK' /\ clock' >= clock
  /\ custody \subseteq custody' /\ key_rows \subseteq key_rows'
  /\ \A m \in Shops : Exists(m) => /\ Exists(m)' /\ merchants'[m].slug = merchants[m].slug
                                   /\ Keyed(m) => Keyed(m)'
  /\ \A m \in Shops, t \in Nat : Exists(m) /\ t <= clock /\ ActiveSince(m, t) => ActiveSince(m, t)'
  /\ \A s \in Secrets, m \in Shops : OwnSecret(s, m) => OwnSecret(s, m)'
  /\ \A s \in Secrets, m \in Shops, t \in Nat :
       OwnSecret(s, m) /\ t <= clock /\ LiveSince(s, t) => LiveSince(s, t)'

\* A step that leaves the registry alone moves it on.
LEMMA RegistryStays == RegistryOK /\ UNCHANGED <<clock, registry>> => RegistryMovesOn
BY DEF RegistryOK, RegistryMovesOn, registry, Exists, Keyed, HasKey, ActiveSince, OwnSecret, LiveSince

\* What is known of a request, a sheet or a delivery that does not move stays known.
LEMMA SignupStays ==
  ASSUME RegistryMovesOn, NEW j, SignupOK(j), UpdateOK(j) PROVE SignupOK(j)' /\ UpdateOK(j)'
<1>1. ASSUME j \in SignupRows PROVE SignupOK(j)'
  <2>1. \A m \in Shops : HasKey(m) => HasKey(m)'
    BY DEF RegistryMovesOn, HasKey
  <2> QED
    BY <1>1, <2>1 DEF SignupOK, RegistryMovesOn, Exists, Keyed, OwnSecret
<1>2. j \in UpdateRows => UpdateOK(j)'
  BY DEF UpdateOK, RegistryMovesOn, UpdateRows
<1> QED
  BY <1>1, <1>2 DEF SignupOK, UpdateOK

\* ... nor of a sheet ...
LEMMA SheetStays ==
  ASSUME RegistryMovesOn, NEW sheet \in [merchant : Shops, slug : Slugs, secret : Secrets], SheetOK(sheet)
  PROVE  SheetOK(sheet)'
BY DEF RegistryMovesOn, SheetOK

\* ... nor of a delivery.
LEMMA DeliveryStays ==
  ASSUME RegistryOK, RegistryMovesOn, NEW q, IsKnown(q), DeliveryOK(q) PROVE DeliveryOK(q)'
<1>1. q.arrived \in Nat /\ q.arrived <= clock' /\ q.merchant \in Shops \cup {NoOne}
  BY DEF IsKnown, Known, DeliveryOK, RegistryOK, RegistryMovesOn
<1>2. \A m : Exists(m) => m \in Shops
  BY DEF Exists
<1>3. q.step \in {"checked"} \cup Recognised =>
        /\ Exists(q.merchant)' /\ merchants'[q.merchant].slug = q.input.slug
        /\ ActiveSince(q.merchant, q.arrived)'
        /\ q.input.door # "verdict"
  BY <1>1, <1>2 DEF DeliveryOK, RegistryMovesOn
<1>4. q.step \in Recognised /\ q.input.door # "claims" =>
        OwnSecret(q.input.secret, q.merchant)' /\ LiveSince(q.input.secret, q.arrived)'
  <2>1. OwnSecret(q.input.secret, q.merchant) => q.input.secret \in Secrets
    BY DEF OwnSecret
  <2> QED
    BY <1>1, <1>2, <2>1 DEF DeliveryOK, RegistryMovesOn
<1>5. q.step = "told" =>
        /\ q.input.claimant # NoOne
        /\ q.input.quoted \/ /\ Exists(q.input.claimant)'
                             /\ merchants'[q.input.claimant].slug = q.input.slug
                             /\ ActiveSince(q.input.claimant, q.arrived)'
  BY <1>1, <1>2 DEF DeliveryOK, RegistryMovesOn
<1> QED
  BY <1>1, <1>3, <1>4, <1>5 DEF DeliveryOK

\* What the doors know, and count, when no delivery moves.
LEMMA GateStays ==
  ASSUME DoorsInv, RegistryMovesOn, UNCHANGED gate,
         undisturbed' \subseteq undisturbed, \A d \in undisturbed' : Honest(delivery[d].input)'
  PROVE  GateOK' /\ WindowsOK'
<1>1. UNCHANGED <<delivery, windows>>
  BY DEF gate
<1>2. \A d \in Deliveries : IsKnown(delivery[d]) => DeliveryOK(delivery[d])'
  <2>1. \A q : IsKnown(q) /\ DeliveryOK(q) => DeliveryOK(q)'
    BY DeliveryStays DEF DoorsInv
  <2>2. ASSUME NEW d \in Deliveries, IsKnown(delivery[d]) PROVE DeliveryOK(delivery[d])'
    <3>1. PICK q : q = delivery[d]
      OBVIOUS
    <3>2. DeliveryOK(q)'
      BY <2>1, <2>2, <3>1 DEF DoorsInv, GateOK
    <3>3. q = delivery'[d]
      BY <1>1, <3>1
    <3> QED
      BY <3>2, <3>3 DEF DeliveryOK
  <2> QED
    BY <2>2
<1>3. GateOK'
  BY <1>1, <1>2 DEF DoorsInv, GateOK, IsKnown
<1>4. WindowsOK'
  BY <1>1 DEF DoorsInv, WindowsOK, Hits, Bucket, Input
<1> QED
  BY <1>3, <1>4

\* One request of the control plane moves.
LEMMA OfficeMoves ==
  ASSUME DoorsInv, RegistryMovesOn, NEW w \in Onboarders, NEW new,
         onboarder' = [onboarder EXCEPT ![w] = new],
         new = AtDesk \/ new \in SignupRows \cup UpdateRows,
         SignupOK(onboarder[w])', UpdateOK(onboarder[w])',
         sheets' \subseteq [merchant : Shops, slug : Slugs, secret : Secrets],
         \A sheet \in sheets' : sheet \in sheets \/ SheetOK(sheet)'
  PROVE  OfficeOK'
<1>1. /\ onboarder' = [v \in Onboarders |-> onboarder'[v]]
      /\ onboarder'[w] = new /\ \A v \in Onboarders : v # w => onboarder'[v] = onboarder[v]
  BY DEF DoorsInv, OfficeOK
<1>2. \A j : SignupOK(j) /\ UpdateOK(j) => SignupOK(j)' /\ UpdateOK(j)'
  BY SignupStays
<1>3. ASSUME NEW v \in Onboarders PROVE SignupOK(onboarder[v])' /\ UpdateOK(onboarder[v])'
  <2>1. CASE v = w
    BY <2>1
  <2>2. CASE v # w
    <3>1. PICK j : j = onboarder[v]
      OBVIOUS
    <3>2. SignupOK(j)' /\ UpdateOK(j)' /\ j = onboarder'[v]
      BY <1>1, <1>2, <2>2, <3>1 DEF DoorsInv, OfficeOK
    <3> QED
      BY <3>2 DEF SignupOK, UpdateOK
  <2> QED
    BY <2>1, <2>2
<1>4. \A sheet \in sheets' : SheetOK(sheet)'
  BY SheetStays DEF DoorsInv, OfficeOK
<1> QED
  BY <1>1, <1>3, <1>4 DEF DoorsInv, OfficeOK

\* No request moves.
LEMMA OfficeStays ==
  ASSUME DoorsInv, RegistryMovesOn, UNCHANGED <<onboarder, sheets>> PROVE OfficeOK'
<1>1. \A j : SignupOK(j) /\ UpdateOK(j) => SignupOK(j)' /\ UpdateOK(j)'
  BY SignupStays
<1>2. ASSUME NEW v \in Onboarders PROVE SignupOK(onboarder[v])' /\ UpdateOK(onboarder[v])'
  <2>1. PICK j : j = onboarder[v]
    OBVIOUS
  <2>2. SignupOK(j)' /\ UpdateOK(j)' /\ j = onboarder'[v]
    BY <1>1, <2>1 DEF DoorsInv, OfficeOK
  <2> QED
    BY <2>2 DEF SignupOK, UpdateOK
<1>3. \A sheet \in sheets' : SheetOK(sheet)'
  BY SheetStays DEF DoorsInv, OfficeOK
<1> QED
  BY <1>2, <1>3 DEF DoorsInv, OfficeOK

\* What is honest stays so while the registry only grows and time stands still.
LEMMA HonestStays ==
  ASSUME DoorsInv, clock' = clock,
         \A m \in Shops : merchants[m] # NoOne =>
           /\ merchants'[m] # NoOne /\ merchants'[m].slug = merchants[m].slug
           /\ merchants'[m].status = merchants[m].status,
         \A s \in Secrets : webhook_secrets[s] # NoOne => webhook_secrets'[s] = webhook_secrets[s],
         NEW input, Honest(input)
  PROVE  Honest(input)'
<1>1. \A slug : getBySlug(slug) \subseteq getBySlug(slug)'
  BY DEF getBySlug, Active
<1>2. \A m : LiveSecrets(m) \subseteq LiveSecrets(m)'
  BY DEF LiveSecrets
<1>3. Timely(input) => Timely(input)'
  BY DEF Timely, TimelyAt
<1> QED
  BY <1>1, <1>2, <1>3 DEF Honest, MayAsk

\* Nothing that is honest is disturbed.
LEMMA UndisturbedStays ==
  ASSUME DoorsInv, UNCHANGED <<clock, delivery, undisturbed>>,
         \A m \in Shops : merchants[m] # NoOne =>
           /\ merchants'[m] # NoOne /\ merchants'[m].slug = merchants[m].slug
           /\ merchants'[m].status = merchants[m].status,
         \A s \in Secrets : webhook_secrets[s] # NoOne => webhook_secrets'[s] = webhook_secrets[s]
  PROVE  \A d \in undisturbed' : Honest(delivery[d].input)'
<1>1. \A input : Honest(input) => Honest(input)'
  BY HonestStays
<1>2. ASSUME NEW d \in undisturbed PROVE Honest(delivery[d].input)'
  <2>1. PICK input : input = delivery[d].input
    OBVIOUS
  <2>2. Honest(input)' /\ input = delivery'[d].input
    BY <1>1, <2>1 DEF DoorsInv, GateOK
  <2> QED
    BY <2>2 DEF Honest, MayAsk, Timely, TimelyAt
<1> QED
  BY <1>2

\* A signup that stops leaves what is written.
LEMMA LeaveKeeps ==
  ASSUME DoorsInv, NEW w \in Onboarders, Leave(w), RegistryMovesOn, GateOK', WindowsOK',
         sheets' \subseteq [merchant : Shops, slug : Slugs, secret : Secrets],
         \A sheet \in sheets' : sheet \in sheets \/ SheetOK(sheet)'
  PROVE  DoorsInv'
<1>1. onboarder' = [onboarder EXCEPT ![w] = AtDesk] /\ onboarder'[w] = AtDesk
  BY DEF Leave, DoorsInv, OfficeOK
<1>2. AtDesk \notin SignupRows /\ AtDesk \notin UpdateRows
  BY DEF AtDesk, SignupRows, UpdateRows
<1>3. SignupOK(onboarder[w])' /\ UpdateOK(onboarder[w])'
  BY <1>1, <1>2 DEF SignupOK, UpdateOK
<1>4. OfficeOK'
  BY <1>1, <1>3, OfficeMoves
<1> QED
  BY <1>4 DEF DoorsInv, RegistryMovesOn

\* A signup reads the slugs, or an operator asks for a key.
LEMMA SignupBegins ==
  ASSUME DoorsInv, NEW w \in Onboarders, ReadSlugs(w) \/ AskForKey(w) PROVE DoorsInv'
<1>1. /\ RegistryMovesOn /\ UNCHANGED <<clock, registry, sheets, gate, undisturbed>>
  BY RegistryStays DEF DoorsInv, ReadSlugs, AskForKey
<1>2. GateOK' /\ WindowsOK'
  BY <1>1, GateStays, UndisturbedStays DEF registry, gate
<1>3. ASSUME NEW new \in SignupRows, onboarder' = [onboarder EXCEPT ![w] = new], SignupOK(new)
      PROVE  DoorsInv'
  <2>1. onboarder'[w] = new /\ new \notin UpdateRows
    BY <1>3 DEF DoorsInv, OfficeOK, SignupRows, UpdateRows
  <2>2. SignupOK(onboarder[w])' /\ UpdateOK(onboarder[w])'
    BY <1>1, <1>3, <2>1 DEF SignupOK, UpdateOK, registry, Exists, Keyed, HasKey, OwnSecret
  <2>3. OfficeOK'
    BY <1>1, <1>3, <2>2, OfficeMoves DEF DoorsInv, OfficeOK
  <2> QED
    BY <1>1, <1>2, <2>3 DEF DoorsInv, RegistryMovesOn
<1>4. CASE ReadSlugs(w)
  <2>1. PICK slug \in Slugs : onboarder' = [onboarder EXCEPT ![w] =
          [step |-> "insert", slug |-> slug, merchant |-> NoOne, sheet |-> TRUE, secret |-> NoOne]]
    BY <1>4 DEF ReadSlugs
  <2> DEFINE new == [step |-> "insert", slug |-> slug, merchant |-> NoOne, sheet |-> TRUE, secret |-> NoOne]
  <2>2. new \in SignupRows /\ SignupOK(new)
    BY DEF SignupRows, SignupOK
  <2> QED
    BY <1>3, <2>1, <2>2
<1>5. CASE AskForKey(w)
  <2>1. PICK m \in Shops :
          /\ merchants[m] # NoOne
          /\ onboarder' = [onboarder EXCEPT ![w] =
               [step |-> "key", slug |-> NoOne, merchant |-> m, sheet |-> FALSE, secret |-> NoOne]]
    BY <1>5 DEF AskForKey
  <2> DEFINE new == [step |-> "key", slug |-> NoOne, merchant |-> m, sheet |-> FALSE, secret |-> NoOne]
  <2>2. new \in SignupRows /\ SignupOK(new)
    BY <2>1 DEF SignupRows, SignupOK, Exists
  <2> QED
    BY <1>3, <2>1, <2>2
<1> QED
  BY <1>4, <1>5

\* A signup moves on with the row it has just written.
LEMMA SignupMoves ==
  ASSUME DoorsInv, NEW w \in Onboarders, NEW new \in SignupRows,
         onboarder' = [onboarder EXCEPT ![w] = new], RegistryMovesOn, GateOK', WindowsOK',
         UNCHANGED sheets, SignupOK(onboarder[w])'
  PROVE  DoorsInv'
<1>1. onboarder'[w] = new /\ new \notin UpdateRows
  BY DEF DoorsInv, OfficeOK, SignupRows, UpdateRows
<1>2. UpdateOK(onboarder[w])'
  BY <1>1 DEF UpdateOK
<1>3. OfficeOK'
  BY <1>2, OfficeMoves DEF DoorsInv, OfficeOK
<1> QED
  BY <1>3 DEF DoorsInv, RegistryMovesOn

LEMMA InsertMerchantKeeps ==
  ASSUME DoorsInv, NEW w \in Onboarders, InsertMerchant(w) PROVE DoorsInv'
<1> DEFINE j == onboarder[w]
<1>1. j \in SignupRows /\ SignupOK(j) /\ j.step = "insert" /\ j.slug \in Slugs
  <2>1. j.step = "insert" /\ SignupOK(j) /\ (j = AtDesk \/ j \in SignupRows \cup UpdateRows)
    BY DEF InsertMerchant, Atstep, DoorsInv, OfficeOK
  <2>2. j \in SignupRows
    BY <2>1 DEF AtDesk, UpdateRows
  <2> QED
    BY <2>1, <2>2 DEF SignupOK
<1>2. UNCHANGED <<clock, webhook_secrets, key_rows, custody, sheets, gate, undisturbed>>
  BY DEF InsertMerchant
<1>3. CASE Leave(w) /\ UNCHANGED merchants
  <2>1. RegistryMovesOn
    BY <1>2, <1>3, RegistryStays DEF DoorsInv, registry
  <2>2. GateOK' /\ WindowsOK'
    BY <1>2, <1>3, <2>1, GateStays, UndisturbedStays DEF gate
  <2> QED
    BY <1>2, <1>3, <2>1, <2>2, LeaveKeeps DEF DoorsInv, OfficeOK
<1>4. ASSUME NEW m \in FirstFree(merchants, Shops),
             \A n \in Shops : merchants[n] # NoOne => merchants[n].slug # j.slug,
             merchants' = [merchants EXCEPT ![m] =
               [slug |-> j.slug, status |-> "active", signing_key_ref |-> NoOne, suspended_at |-> NoOne]],
             onboarder' = [onboarder EXCEPT ![w] = [j EXCEPT !.step = "key", !.merchant = m]]
      PROVE  DoorsInv'
  <2> DEFINE row == [slug |-> j.slug, status |-> "active", signing_key_ref |-> NoOne, suspended_at |-> NoOne]
             new == [j EXCEPT !.step = "key", !.merchant = m]
  <2>1. m \in Shops /\ merchants[m] = NoOne
    BY DEF FirstFree
  <2>2. /\ row \in MerchantRows /\ row.slug = j.slug /\ row.signing_key_ref = NoOne /\ row # NoOne
        /\ merchants' = [merchants EXCEPT ![m] = row]
    BY <1>1, <1>4, DoorsAssumption DEF MerchantRows
  <2> HIDE DEF row
  <2>3. /\ merchants'[m] = row /\ \A n \in Shops : n # m => merchants'[n] = merchants[n]
        /\ merchants' \in [Shops -> MerchantRows \cup {NoOne}]
    BY <2>1, <2>2 DEF DoorsInv, RegistryOK
  <2>4. RegistryOK'
    BY <1>2, <1>4, <2>1, <2>2, <2>3 DEF DoorsInv, RegistryOK, Exists, Keyed, HasKey
  <2>5. RegistryMovesOn
    BY <1>2, <2>1, <2>3, <2>4
       DEF DoorsInv, RegistryOK, RegistryMovesOn, Exists, Keyed, ActiveSince, OwnSecret, LiveSince
  <2>6. GateOK' /\ WindowsOK'
    BY <1>2, <2>1, <2>3, <2>5, GateStays, UndisturbedStays DEF gate
  <2>7. /\ new \in SignupRows /\ new.step = "key" /\ new.merchant = m /\ new.slug = j.slug
        /\ new.sheet = j.sheet
    BY <1>1, <2>1 DEF SignupRows
  <2> HIDE DEF new
  <2>8. onboarder'[w] = new /\ onboarder' = [onboarder EXCEPT ![w] = new]
    BY <1>4 DEF new, DoorsInv, OfficeOK
  <2>9. SignupOK(onboarder[w])'
    BY <2>1, <2>2, <2>3, <2>7, <2>8 DEF SignupOK, Exists
  <2> QED
    BY <1>2, <2>5, <2>6, <2>7, <2>8, <2>9, SignupMoves
<1> QED
  BY <1>3, <1>4 DEF InsertMerchant

\* The steps of a signup that write a key, its row and its reference.
LEMMA IssueKeyKeeps ==
  ASSUME DoorsInv, NEW w \in Onboarders, IssueKey(w) \/ KeyTimesOut(w) \/ InsertKeyRow(w)
  PROVE  DoorsInv'
<1> DEFINE j == onboarder[w]
<1>1. j \in SignupRows /\ SignupOK(j) /\ j.step \in {"key", "row"} /\ Exists(j.merchant)
  BY DEF IssueKey, KeyTimesOut, InsertKeyRow, Atstep, DoorsInv, OfficeOK, AtDesk, UpdateRows, SignupOK
<1>2. /\ UNCHANGED <<clock, merchants, webhook_secrets, sheets, gate, undisturbed>>
      /\ custody \subseteq custody' /\ key_rows \subseteq key_rows'
  BY DEF IssueKey, KeyTimesOut, InsertKeyRow
<1>3. RegistryMovesOn
  BY <1>2 DEF DoorsInv, RegistryOK, RegistryMovesOn, Exists, Keyed, HasKey, ActiveSince, OwnSecret, LiveSince
<1>4. GateOK' /\ WindowsOK'
  BY <1>2, <1>3, GateStays, UndisturbedStays DEF gate
<1>5. CASE Leave(w)
  BY <1>2, <1>3, <1>4, <1>5, LeaveKeeps DEF DoorsInv, OfficeOK
<1>6. CASE IssueKey(w) \/ InsertKeyRow(w)
  <2> DEFINE next == IF j.step = "key" THEN "row" ELSE "ref"
             new == [j EXCEPT !.step = next]
  <2>1. onboarder' = [onboarder EXCEPT ![w] = new]
    BY <1>6 DEF IssueKey, InsertKeyRow, Go, Atstep
  <2>2. /\ new \in SignupRows /\ new.step = next /\ new.merchant = j.merchant /\ new.slug = j.slug
        /\ new.sheet = j.sheet
    BY <1>1 DEF SignupRows
  <2> HIDE DEF new
  <2>3. onboarder'[w] = new
    BY <2>1 DEF DoorsInv, OfficeOK
  <2>4. /\ next = "row" => j.merchant \in custody'
        /\ next = "ref" => j.merchant \in custody' /\ [merchant |-> j.merchant, ref |-> j.merchant] \in key_rows'
    BY <1>1, <1>2, <1>6 DEF IssueKey, InsertKeyRow, Atstep, SignupOK
  <2>5. next \in {"row", "ref"}
    OBVIOUS
  <2> HIDE DEF next
  <2>6. SignupOK(onboarder[w])'
    BY <1>1, <1>2, <2>2, <2>3, <2>4, <2>5 DEF SignupOK, Exists, HasKey
  <2> QED
    BY <1>2, <1>3, <1>4, <2>1, <2>2, <2>6, SignupMoves
<1> QED
  BY <1>5, <1>6 DEF KeyTimesOut

LEMMA SetKeyRefKeeps ==
  ASSUME DoorsInv, NEW w \in Onboarders, SetKeyRef(w) PROVE DoorsInv'
<1> DEFINE j == onboarder[w]  m == j.merchant
           row == [merchants[m] EXCEPT !.signing_key_ref = m]
<1>1. j \in SignupRows /\ SignupOK(j) /\ j.step = "ref" /\ Exists(m) /\ HasKey(m)
  <2>1. j.step = "ref" /\ SignupOK(j) /\ (j = AtDesk \/ j \in SignupRows \cup UpdateRows)
    BY DEF SetKeyRef, Atstep, DoorsInv, OfficeOK
  <2>2. j \in SignupRows
    BY <2>1 DEF AtDesk, UpdateRows
  <2> QED
    BY <2>1, <2>2 DEF SignupOK
<1>2. /\ UNCHANGED <<clock, webhook_secrets, key_rows, custody, sheets, gate, undisturbed>>
      /\ merchants' = [merchants EXCEPT ![m] = row]
  BY DEF SetKeyRef
<1>3. m \in Shops /\ merchants[m] \in MerchantRows
  BY <1>1 DEF Exists, DoorsInv, RegistryOK
<1>4. /\ row \in MerchantRows /\ row.slug = merchants[m].slug /\ row.status = merchants[m].status
      /\ row.suspended_at = merchants[m].suspended_at /\ row.signing_key_ref = m
      /\ row # NoOne /\ m # NoOne
  BY <1>3, DoorsAssumption DEF MerchantRows
<1> HIDE DEF row
<1>5. /\ merchants'[m] = row /\ \A n \in Shops : n # m => merchants'[n] = merchants[n]
      /\ merchants' \in [Shops -> MerchantRows \cup {NoOne}]
  BY <1>2, <1>3, <1>4 DEF DoorsInv, RegistryOK
<1>6. RegistryOK'
  BY <1>1, <1>2, <1>3, <1>4, <1>5 DEF DoorsInv, RegistryOK, Exists, Keyed, HasKey
<1>7. RegistryMovesOn
  BY <1>1, <1>2, <1>3, <1>4, <1>5, <1>6
     DEF DoorsInv, RegistryOK, RegistryMovesOn, Exists, Keyed, ActiveSince, OwnSecret, LiveSince
<1>8. GateOK' /\ WindowsOK'
  BY <1>2, <1>3, <1>4, <1>5, <1>7, GateStays, UndisturbedStays DEF gate
<1>9. CASE Leave(w)
  BY <1>2, <1>7, <1>8, <1>9, LeaveKeeps DEF DoorsInv, OfficeOK
<1>10. CASE j.sheet /\ Go(w, "secret")
  <2> DEFINE new == [j EXCEPT !.step = "secret"]
  <2>1. onboarder' = [onboarder EXCEPT ![w] = new]
    BY <1>10 DEF Go
  <2>2. /\ new \in SignupRows /\ new.step = "secret" /\ new.merchant = m /\ new.slug = j.slug
        /\ new.sheet
    BY <1>1, <1>10 DEF SignupRows
  <2> HIDE DEF new
  <2>3. onboarder'[w] = new
    BY <2>1 DEF DoorsInv, OfficeOK
  <2>4. new.slug = row.slug
    BY <1>1, <1>4, <1>10, <2>2 DEF SignupOK
  <2>5. SignupOK(onboarder[w])'
    BY <1>1, <1>2, <1>3, <1>4, <1>5, <2>2, <2>3, <2>4 DEF SignupOK, Exists, Keyed, HasKey
  <2> QED
    BY <1>2, <1>7, <1>8, <2>1, <2>2, <2>5, SignupMoves
<1> QED
  BY <1>9, <1>10 DEF SetKeyRef

\* A new secret touches no other row.
LEMMA NewSecretGrows ==
  ASSUME RegistryOK, NEW m \in Shops, NEW s \in FirstFree(webhook_secrets, Secrets),
         webhook_secrets' = [webhook_secrets EXCEPT ![s] = [merchant |-> m, revoked_at |-> NoOne]],
         UNCHANGED <<clock, merchants, key_rows, custody>>
  PROVE  /\ RegistryMovesOn /\ OwnSecret(s, m)' /\ s \in Secrets
         /\ \A r \in Secrets : webhook_secrets[r] # NoOne => webhook_secrets'[r] = webhook_secrets[r]
<1> DEFINE row == [merchant |-> m, revoked_at |-> NoOne]
<1>1. s \in Secrets /\ webhook_secrets[s] = NoOne
  BY DEF FirstFree
<1>2. row \in SecretRows /\ row.merchant = m /\ row # NoOne
  BY DoorsAssumption DEF SecretRows
<1>3. webhook_secrets' = [webhook_secrets EXCEPT ![s] = row]
  OBVIOUS
<1> HIDE DEF row
<1>4. /\ webhook_secrets'[s] = row /\ \A r \in Secrets : r # s => webhook_secrets'[r] = webhook_secrets[r]
      /\ webhook_secrets' \in [Secrets -> SecretRows \cup {NoOne}]
  BY <1>1, <1>2, <1>3 DEF RegistryOK
<1>5. RegistryOK'
  BY <1>4 DEF RegistryOK, Exists, Keyed, HasKey
<1>6. RegistryMovesOn
  BY <1>1, <1>4, <1>5 DEF RegistryOK, RegistryMovesOn, Exists, Keyed, ActiveSince, OwnSecret, LiveSince
<1> QED
  BY <1>1, <1>2, <1>4, <1>6 DEF OwnSecret

LEMMA IssueFirstSecretKeeps ==
  ASSUME DoorsInv, NEW w \in Onboarders, IssueFirstSecret(w) PROVE DoorsInv'
<1> DEFINE j == onboarder[w]
<1>0. PICK m : m = j.merchant
  OBVIOUS
<1>1. j \in SignupRows /\ SignupOK(j) /\ j.step = "secret" /\ Exists(m) /\ m \in Shops
  <2>1. j.step = "secret" /\ SignupOK(j) /\ (j = AtDesk \/ j \in SignupRows \cup UpdateRows)
    BY DEF IssueFirstSecret, Atstep, DoorsInv, OfficeOK
  <2>2. j \in SignupRows
    BY <2>1 DEF AtDesk, UpdateRows
  <2> QED
    BY <1>0, <2>1, <2>2 DEF SignupOK, Exists
<1>2. UNCHANGED <<clock, merchants, key_rows, custody, sheets, gate, undisturbed>>
  BY DEF IssueFirstSecret
<1>3. \A s, r \in FirstFree(webhook_secrets, Secrets) : s \in Secrets /\ s = r
  BY DoorsAssumption DEF FirstFree
<1>4. PICK s \in FirstFree(webhook_secrets, Secrets) :
        webhook_secrets' = [webhook_secrets EXCEPT ![s] = [merchant |-> m, revoked_at |-> NoOne]]
  BY <1>0 DEF IssueFirstSecret, NewSecret
<1>5. PICK r \in FirstFree(webhook_secrets, Secrets) :
        onboarder' = [onboarder EXCEPT ![w].step = "publish", ![w].secret = r]
  BY DEF IssueFirstSecret
<1>6. r = s
  BY <1>3
<1>7. /\ RegistryMovesOn /\ OwnSecret(s, m)' /\ s \in Secrets
      /\ \A k \in Secrets : webhook_secrets[k] # NoOne => webhook_secrets'[k] = webhook_secrets[k]
  BY <1>1, <1>2, <1>4, NewSecretGrows DEF DoorsInv
<1>8. GateOK' /\ WindowsOK'
  BY <1>2, <1>7, GateStays, UndisturbedStays DEF gate
<1> DEFINE new == [j EXCEPT !.step = "publish", !.secret = s]
<1>9. onboarder' = [onboarder EXCEPT ![w] = new]
  BY <1>5, <1>6
<1>10. /\ new \in SignupRows /\ new.step = "publish" /\ new.merchant = m /\ new.slug = j.slug
       /\ new.sheet = j.sheet /\ new.secret = s
  BY <1>0, <1>1, <1>7 DEF SignupRows
<1> HIDE DEF new
<1>11. onboarder'[w] = new
  BY <1>9 DEF DoorsInv, OfficeOK
<1>12. j.sheet /\ Keyed(m) /\ HasKey(m) /\ merchants[m].slug = j.slug
  BY <1>0, <1>1 DEF SignupOK
<1>13. HasKey(m)' /\ Keyed(m)' /\ Exists(m)' /\ merchants'[m].slug = j.slug
  BY <1>1, <1>2, <1>12 DEF HasKey, Keyed, Exists
<1>14. SignupOK(onboarder[w])'
  BY <1>7, <1>10, <1>11, <1>12, <1>13 DEF SignupOK
<1> QED
  BY <1>2, <1>7, <1>8, <1>9, <1>10, <1>14, SignupMoves

\* A signup is answered with its sheet, or fails.
LEMMA SignupEnds ==
  ASSUME DoorsInv, NEW w \in Onboarders, AnswerSheet(w) \/ OnboardingFails(w) PROVE DoorsInv'
<1> DEFINE j == onboarder[w]
           sheet == [merchant |-> j.merchant, slug |-> j.slug, secret |-> j.secret]
<1>1. Leave(w) /\ UNCHANGED <<clock, registry, gate, undisturbed>>
  BY DEF AnswerSheet, OnboardingFails
<1>2. RegistryMovesOn
  BY <1>1, RegistryStays DEF DoorsInv
<1>3. GateOK' /\ WindowsOK'
  BY <1>1, <1>2, GateStays, UndisturbedStays DEF gate, registry
<1>4. CASE OnboardingFails(w)
  <2>1. UNCHANGED sheets
    BY <1>4 DEF OnboardingFails
  <2> QED
    BY <1>1, <1>2, <1>3, <2>1, LeaveKeeps DEF DoorsInv, OfficeOK
<1>5. CASE AnswerSheet(w)
  <2>1. /\ j.step = "publish" /\ SignupOK(j) /\ (j = AtDesk \/ j \in SignupRows \cup UpdateRows)
        /\ sheets' = sheets \cup {sheet}
    BY <1>5 DEF AnswerSheet, Atstep, DoorsInv, OfficeOK
  <2>2. j \in SignupRows
    BY <2>1 DEF AtDesk, UpdateRows
  <2>3. /\ Exists(j.merchant) /\ merchants[j.merchant].slug = j.slug /\ Keyed(j.merchant)
        /\ OwnSecret(j.secret, j.merchant)
    BY <2>1, <2>2 DEF SignupOK
  <2>4. j.merchant \in Shops /\ j.secret \in Secrets /\ j.slug \in Slugs
    BY <2>3 DEF Exists, OwnSecret, DoorsInv, RegistryOK, MerchantRows
  <2>5. sheet.merchant = j.merchant /\ sheet.slug = j.slug /\ sheet.secret = j.secret
        /\ sheet \in [merchant : Shops, slug : Slugs, secret : Secrets]
    BY <2>4
  <2> HIDE DEF sheet
  <2>6. SheetOK(sheet)
    BY <2>3, <2>5 DEF SheetOK
  <2>7. \A card \in [merchant : Shops, slug : Slugs, secret : Secrets] : SheetOK(card) => SheetOK(card)'
    BY <1>2, SheetStays
  <2>8. /\ sheets' \subseteq [merchant : Shops, slug : Slugs, secret : Secrets]
        /\ \A card \in sheets' : card \in sheets \/ SheetOK(card)'
    BY <2>1, <2>5, <2>6, <2>7 DEF DoorsInv, OfficeOK
  <2> QED
    BY <1>1, <1>2, <1>3, <2>8, LeaveKeeps
<1> QED
  BY <1>4, <1>5

\* A secret more, for an operator.
LEMMA RotateInKeeps ==
  ASSUME DoorsInv, NEW m \in Shops, RotateIn(m) PROVE DoorsInv'
<1>1. UNCHANGED <<clock, merchants, key_rows, custody, sheets, onboarder, gate, undisturbed>>
  BY DEF RotateIn, Still
<1>2. PICK s \in FirstFree(webhook_secrets, Secrets) :
        webhook_secrets' = [webhook_secrets EXCEPT ![s] = [merchant |-> m, revoked_at |-> NoOne]]
  BY DEF RotateIn, NewSecret
<1>3. /\ RegistryMovesOn
      /\ \A k \in Secrets : webhook_secrets[k] # NoOne => webhook_secrets'[k] = webhook_secrets[k]
  BY <1>1, <1>2, NewSecretGrows DEF DoorsInv
<1>4. GateOK' /\ WindowsOK'
  BY <1>1, <1>3, GateStays, UndisturbedStays DEF gate
<1>5. OfficeOK'
  BY <1>1, <1>3, OfficeStays
<1> QED
  BY <1>3, <1>4, <1>5 DEF DoorsInv, RegistryMovesOn

\* A secret is revoked: from now on it was live until now.
LEMMA RevokeSecretKeeps ==
  ASSUME DoorsInv, NEW s \in Secrets, RevokeSecret(s) PROVE DoorsInv'
<1> DEFINE row == [webhook_secrets[s] EXCEPT !.revoked_at = clock]
<1>1. /\ UNCHANGED <<clock, merchants, key_rows, custody, sheets, onboarder, gate>>
      /\ webhook_secrets[s] # NoOne /\ webhook_secrets' = [webhook_secrets EXCEPT ![s] = row]
      /\ undisturbed' = {d \in undisturbed : delivery[d].input.secret # s}
  BY DEF RevokeSecret, Still
<1>2. webhook_secrets[s] \in SecretRows /\ clock \in Nat
  BY <1>1 DEF DoorsInv, RegistryOK
<1>3. row \in SecretRows /\ row.merchant = webhook_secrets[s].merchant /\ row.revoked_at = clock /\ row # NoOne
  BY <1>2, DoorsAssumption DEF SecretRows
<1> HIDE DEF row
<1>4. /\ webhook_secrets'[s] = row /\ \A r \in Secrets : r # s => webhook_secrets'[r] = webhook_secrets[r]
      /\ webhook_secrets' \in [Secrets -> SecretRows \cup {NoOne}]
  BY <1>1, <1>3 DEF DoorsInv, RegistryOK
<1>5. RegistryOK'
  BY <1>1, <1>4 DEF DoorsInv, RegistryOK, Exists, Keyed, HasKey
<1>6. RegistryMovesOn
  <2>1. \A r \in Secrets, m \in Shops : OwnSecret(r, m) => OwnSecret(r, m)'
    BY <1>1, <1>3, <1>4 DEF OwnSecret
  <2>2. \A r \in Secrets, t \in Nat : t <= clock /\ LiveSince(r, t) => LiveSince(r, t)'
    BY <1>1, <1>2, <1>3, <1>4 DEF LiveSince
  <2> QED
    BY <1>1, <1>5, <2>1, <2>2 DEF DoorsInv, RegistryOK, RegistryMovesOn, Exists, Keyed, ActiveSince
<1>7. ASSUME NEW d \in undisturbed' PROVE Honest(delivery[d].input)'
  <2>1. PICK input : input = delivery[d].input
    OBVIOUS
  <2>2. Honest(input) /\ input.secret # s
    BY <1>1, <2>1 DEF DoorsInv, GateOK
  <2>3. \A slug : getBySlug(slug)' = getBySlug(slug)
    BY <1>1 DEF getBySlug, Active
  <2>4. \A m : input.secret \in LiveSecrets(m) => input.secret \in LiveSecrets(m)'
    BY <1>4, <2>2 DEF LiveSecrets
  <2>5. Honest(input)'
    BY <1>1, <2>2, <2>3, <2>4 DEF Honest, MayAsk, Timely, TimelyAt
  <2>6. input = delivery'[d].input
    BY <1>1, <2>1 DEF gate
  <2> QED
    BY <2>5, <2>6 DEF Honest, MayAsk, Timely, TimelyAt
<1>8. GateOK' /\ WindowsOK'
  BY <1>1, <1>6, <1>7, GateStays DEF gate
<1>9. OfficeOK'
  BY <1>1, <1>6, OfficeStays
<1> QED
  BY <1>5, <1>8, <1>9 DEF DoorsInv

\* An update is read, and written back.
LEMMA ReadForUpdateKeeps ==
  ASSUME DoorsInv, NEW w \in Onboarders, NEW m \in Shops, NEW patch \in {"active", "suspended", NoOne},
         ReadForUpdate(w, m, patch)
  PROVE  DoorsInv'
<1> DEFINE status == IF patch = NoOne THEN merchants[m].status ELSE patch
           new == [step |-> "update", merchant |-> m, status |-> status]
<1>1. /\ UNCHANGED <<clock, registry, sheets, gate, undisturbed>>
      /\ onboarder' = [onboarder EXCEPT ![w] = new] /\ merchants[m] # NoOne
  BY DEF ReadForUpdate, Still, registry
<1>2. RegistryMovesOn
  BY <1>1, RegistryStays DEF DoorsInv
<1>3. GateOK' /\ WindowsOK'
  BY <1>1, <1>2, GateStays, UndisturbedStays DEF gate, registry
<1>4. status \in {"active", "suspended"}
  BY <1>1 DEF DoorsInv, RegistryOK, MerchantRows
<1> HIDE DEF status
<1>5. new \in UpdateRows /\ new.merchant = m /\ new.step = "update" /\ new \notin SignupRows
  BY <1>4 DEF UpdateRows, SignupRows
<1> HIDE DEF new
<1>6. onboarder'[w] = new
  BY <1>1 DEF DoorsInv, OfficeOK
<1>7. SignupOK(onboarder[w])' /\ UpdateOK(onboarder[w])'
  BY <1>1, <1>5, <1>6 DEF SignupOK, UpdateOK, Exists, registry
<1>8. OfficeOK'
  BY <1>1, <1>2, <1>5, <1>7, OfficeMoves DEF DoorsInv, OfficeOK
<1> QED
  BY <1>2, <1>3, <1>8 DEF DoorsInv, RegistryMovesOn

LEMMA WriteUpdateKeeps ==
  ASSUME DoorsInv, NEW w \in Onboarders, WriteUpdate(w) PROVE DoorsInv'
<1> DEFINE j == onboarder[w]  m == j.merchant  status == j.status
           at == IF status = "suspended" THEN clock ELSE merchants[m].suspended_at
           row == [merchants[m] EXCEPT !.status = status, !.suspended_at = at]
<1>1. j \in UpdateRows /\ UpdateOK(j)
  <2>1. j.step = "update" /\ UpdateOK(j) /\ (j = AtDesk \/ j \in SignupRows \cup UpdateRows)
    BY DEF WriteUpdate, Atstep, DoorsInv, OfficeOK
  <2> QED
    BY <2>1 DEF AtDesk, SignupRows
<1>2. Exists(m) /\ status \in {"active", "suspended"} /\ m \in Shops
  BY <1>1 DEF UpdateOK, UpdateRows
<1>3. merchants[m] \in MerchantRows /\ clock \in Nat
  BY <1>2 DEF Exists, DoorsInv, RegistryOK
<1>4. /\ UNCHANGED <<clock, webhook_secrets, key_rows, custody, sheets, gate>> /\ Leave(w)
      /\ merchants' = [merchants EXCEPT ![m] = row]
      /\ undisturbed' = IF status = "active" THEN undisturbed
           ELSE {d \in undisturbed : delivery[d].input.slug # merchants[m].slug}
  BY DEF WriteUpdate, Still
<1>5. at \in Int \cup {NoOne} /\ (status = "suspended" => at = clock)
      /\ (status # "suspended" => at = merchants[m].suspended_at)
  BY <1>3 DEF MerchantRows
<1> HIDE DEF at
<1>6. /\ row \in MerchantRows /\ row.slug = merchants[m].slug /\ row.status = status
      /\ row.suspended_at = at /\ row.signing_key_ref = merchants[m].signing_key_ref
      /\ row # NoOne
  BY <1>2, <1>3, <1>5, DoorsAssumption DEF MerchantRows
<1> HIDE DEF row, status
<1>7. /\ merchants'[m] = row /\ \A n \in Shops : n # m => merchants'[n] = merchants[n]
      /\ merchants' \in [Shops -> MerchantRows \cup {NoOne}]
  BY <1>2, <1>4, <1>6 DEF DoorsInv, RegistryOK
<1>8. RegistryOK'
  BY <1>2, <1>4, <1>6, <1>7 DEF DoorsInv, RegistryOK, Exists, Keyed, HasKey
<1>9. RegistryMovesOn
  <2>1. \A n \in Shops, t \in Nat : Exists(n) /\ t <= clock /\ ActiveSince(n, t) => ActiveSince(n, t)'
    BY <1>2, <1>3, <1>4, <1>5, <1>6, <1>7 DEF ActiveSince
  <2>2. \A n \in Shops : Exists(n) => /\ Exists(n)' /\ merchants'[n].slug = merchants[n].slug
                                      /\ Keyed(n) => Keyed(n)'
    BY <1>2, <1>6, <1>7 DEF Exists, Keyed
  <2> QED
    BY <1>3, <1>4, <1>8, <2>1, <2>2 DEF RegistryMovesOn, OwnSecret, LiveSince
<1>10. ASSUME NEW d \in undisturbed' PROVE Honest(delivery[d].input)'
  <2>1. PICK input : input = delivery[d].input
    OBVIOUS
  <2>2. Honest(input) /\ d \in undisturbed /\ (status = "active" \/ input.slug # merchants[m].slug)
    BY <1>4, <2>1 DEF DoorsInv, GateOK
  <2>3. getBySlug(input.slug) \subseteq getBySlug(input.slug)'
    BY <1>2, <1>6, <1>7, <2>2 DEF getBySlug, Active
  <2>4. Honest(input)'
    BY <1>4, <2>2, <2>3 DEF Honest, MayAsk, Timely, TimelyAt, LiveSecrets
  <2>5. input = delivery'[d].input
    BY <1>4, <2>1 DEF gate
  <2> QED
    BY <2>4, <2>5 DEF Honest, MayAsk, Timely, TimelyAt
<1>11. GateOK' /\ WindowsOK'
  BY <1>4, <1>9, <1>10, GateStays
<1> QED
  BY <1>4, <1>9, <1>11, LeaveKeeps DEF DoorsInv, OfficeOK

\* Nobody who was counted is forgotten by a step of a delivery.
LEMMA HitsGrow ==
  ASSUME DoorsInv, NEW b \in Buckets, NEW d \in Deliveries, NEW new,
         delivery' = [delivery EXCEPT ![d] = new],
         d \in Hits(b) => /\ new.step \in Recognised \ {"authentic"} /\ new.merchant = delivery[d].merchant
                          /\ new.input = delivery[d].input
  PROVE  /\ IsFiniteSet(Hits(b)) /\ IsFiniteSet(Hits(b)')
         /\ Hits(b) \subseteq Hits(b)'
         /\ Cardinality(Hits(b)) \in Nat /\ Cardinality(Hits(b)') \in Nat
         /\ Cardinality(Hits(b)) <= Cardinality(Hits(b)')
<1>1. /\ delivery'[d] = new /\ \A e \in Deliveries : e # d => delivery'[e] = delivery[e]
  BY DEF DoorsInv, GateOK
<1>2. Hits(b) \subseteq Hits(b)'
  BY <1>1 DEF Hits, Bucket, Input
<1>3. Hits(b) \subseteq Deliveries /\ Hits(b)' \subseteq Deliveries
  BY DEF Hits
<1>4. IsFiniteSet(Hits(b)) /\ IsFiniteSet(Hits(b)')
  BY <1>3, FS_Subset, DoorsAssumption
<1> QED
  BY <1>2, <1>4, FS_Subset, FS_CardinalityType

\* One delivery moves, with what is known of it.
LEMMA DeliveryMoves ==
  ASSUME DoorsInv, NEW d \in Deliveries, NEW new, delivery' = [delivery EXCEPT ![d] = new],
         UNCHANGED <<clock, registry, onboarder, sheets>>,
         new.step \in {"401", "500"} \/ IsKnown(new),
         new.step = "401" => ~new.honest,
         IsKnown(new) => DeliveryOK(new),
         undisturbed' \subseteq undisturbed \cup {d},
         d \in undisturbed' => IsKnown(new) /\ new.step \in {"arrived", "checked"} /\ Honest(new.input),
         WindowsOK'
  PROVE  DoorsInv'
<1>1. RegistryMovesOn
  BY RegistryStays DEF DoorsInv
<1>2. OfficeOK'
  BY <1>1, OfficeStays
<1>3. /\ delivery' = [e \in Deliveries |-> delivery'[e]]
      /\ delivery'[d] = new /\ \A e \in Deliveries : e # d => delivery'[e] = delivery[e]
  BY DEF DoorsInv, GateOK
<1>4. \A q : DeliveryOK(q) => DeliveryOK(q)'
  BY DEF registry, DeliveryOK, Exists, ActiveSince, OwnSecret, LiveSince
<1>5. \A input : Honest(input) => Honest(input)'
  BY DEF registry, Honest, MayAsk, Timely, TimelyAt, getBySlug, Active, LiveSecrets
<1>6. ASSUME NEW e \in Deliveries, IsKnown(delivery'[e]) PROVE DeliveryOK(delivery[e])'
  <2>1. PICK q : q = delivery'[e]
    OBVIOUS
  <2>2. DeliveryOK(q)
    BY <1>3, <1>6, <2>1 DEF DoorsInv, GateOK
  <2>3. DeliveryOK(q)'
    BY <1>4, <2>2
  <2> QED
    BY <2>1, <2>3 DEF DeliveryOK
<1>7. ASSUME NEW e \in undisturbed'
      PROVE  /\ e \in Deliveries /\ IsKnown(delivery'[e]) /\ delivery'[e].step \in {"arrived", "checked"}
             /\ Honest(delivery[e].input)'
  <2>1. PICK input : input = delivery'[e].input
    OBVIOUS
  <2>2. /\ e \in Deliveries /\ IsKnown(delivery'[e]) /\ delivery'[e].step \in {"arrived", "checked"}
        /\ Honest(input)
    BY <1>3, <2>1 DEF DoorsInv, GateOK
  <2>3. Honest(input)'
    BY <1>5, <2>2
  <2>4. Honest(delivery[e].input)'
    BY <2>1, <2>3 DEF Honest, MayAsk, Timely, TimelyAt
  <2> QED
    BY <2>2, <2>4
<1>8. GateOK'
  BY <1>3, <1>6, <1>7 DEF DoorsInv, GateOK, IsKnown
<1> QED
  BY <1>1, <1>2, <1>8 DEF DoorsInv, RegistryMovesOn

\* The windows are as they were, or some have expired.
LEMMA WindowsStay ==
  ASSUME DoorsInv, NEW d \in Deliveries, NEW new, delivery' = [delivery EXCEPT ![d] = new],
         delivery[d].step \in Recognised \ {"authentic"} =>
           /\ new.step \in Recognised \ {"authentic"} /\ new.merchant = delivery[d].merchant
           /\ new.input = delivery[d].input,
         UNCHANGED windows
  PROVE  WindowsOK'
<1>1. ASSUME NEW b \in Buckets, windows[b] # NoOne
      PROVE  windows[b].count <= Cardinality(Hits(b)')
  <2>1. d \in Hits(b) => delivery[d].step \in Recognised \ {"authentic"}
    BY DEF Hits
  <2>2. /\ Cardinality(Hits(b)) \in Nat /\ Cardinality(Hits(b)') \in Nat
        /\ Cardinality(Hits(b)) <= Cardinality(Hits(b)')
    BY <2>1, HitsGrow
  <2>3. windows[b].count \in Nat /\ windows[b].count <= Cardinality(Hits(b))
    BY <1>1 DEF DoorsInv, WindowsOK, WindowRows
  <2> QED
    BY <2>2, <2>3
<1> QED
  BY <1>1 DEF DoorsInv, WindowsOK

\* What a step of a delivery leaves alone.
LEMMA AtTheDoor ==
  UntouchedByDoor => UNCHANGED <<clock, registry, onboarder, sheets>>
BY DEF UntouchedByDoor, office

LEMMA ArrivalKeeps ==
  ASSUME DoorsInv, NEW d \in Deliveries, Arrive(d) PROVE DoorsInv'
<1>1. PICK input \in DeliveryInputs :
        /\ delivery' = [delivery EXCEPT ![d] =
             [step |-> "arrived", input |-> input, arrived |-> clock, merchant |-> NoOne, order |-> NoOne]]
        /\ undisturbed' = IF IF input.door = "verdict" THEN MayAsk(input)
                             ELSE /\ Timely(input)
                                  /\ \E m \in getBySlug(input.slug) :
                                       input.door = "claims" \/ input.secret \in LiveSecrets(m)
                            THEN undisturbed \cup {d} ELSE undisturbed
  BY DEF Arrive
<1> DEFINE new == [step |-> "arrived", input |-> input, arrived |-> clock, merchant |-> NoOne, order |-> NoOne]
<1>2. delivery[d].step = "outside" /\ UNCHANGED windows /\ UntouchedByDoor /\ clock \in Nat
  BY DEF Arrive, InStage, DoorsInv, RegistryOK
<1>3. d \notin undisturbed
  BY <1>2 DEF DoorsInv, GateOK
<1>4. /\ IsKnown(new) /\ new.step = "arrived" /\ new.input = input /\ new.arrived = clock
      /\ delivery' = [delivery EXCEPT ![d] = new]
  BY <1>1, <1>2 DEF IsKnown, Known
<1> HIDE DEF new
<1>5. DeliveryOK(new)
  BY <1>2, <1>4 DEF DeliveryOK, Recognised
<1>6. undisturbed' \subseteq undisturbed \cup {d} /\ (d \in undisturbed' => Honest(input))
  BY <1>1, <1>3 DEF Honest
<1>7. WindowsOK'
  BY <1>2, <1>4, WindowsStay DEF Recognised
<1> QED
  BY <1>2, <1>4, <1>5, <1>6, <1>7, AtTheDoor, DeliveryMoves

\* A 401 is not for who is honest.
LEMMA RefuseKeeps ==
  ASSUME DoorsInv, NEW d \in Deliveries, Refuse(d), d \notin undisturbed,
         delivery[d].step \in {"arrived", "checked"}, UntouchedByDoor, UNCHANGED windows
  PROVE  DoorsInv'
<1> DEFINE honest == d \in undisturbed  new == [step |-> "401", honest |-> honest]
<1>1. delivery' = [delivery EXCEPT ![d] = new] /\ undisturbed' = undisturbed \ {d}
  BY DEF Refuse
<1>2. honest = FALSE
  OBVIOUS
<1> HIDE DEF honest
<1>3. new.step = "401" /\ ~new.honest /\ ~IsKnown(new)
  BY <1>2 DEF IsKnown, Known
<1> HIDE DEF new
<1>4. WindowsOK'
  BY <1>1, WindowsStay DEF Recognised
<1> QED
  BY <1>1, <1>3, <1>4, AtTheDoor, DeliveryMoves

\* A delivery at a door is known, with what is known of it.
LEMMA KnownAtTheDoor ==
  ASSUME DoorsInv, NEW d \in Deliveries, delivery[d].step \in {"arrived", "checked"} \cup Recognised
  PROVE  /\ IsKnown(delivery[d]) /\ DeliveryOK(delivery[d]) /\ delivery[d].arrived \in Nat
         /\ delivery[d].input \in DeliveryInputs /\ delivery[d].merchant \in Shops \cup {NoOne}
         /\ clock \in Nat
BY DEF DoorsInv, GateOK, RegistryOK, IsKnown, Known, Recognised

\* Who has the slug is active, and the only one.
LEMMA SlugIsOnes ==
  ASSUME DoorsInv, NEW slug, NEW m \in getBySlug(slug)
  PROVE  /\ Exists(m) /\ merchants[m].slug = slug /\ \A t : ActiveSince(m, t)
         /\ \A n \in Shops : Exists(n) /\ merchants[n].slug = slug => n = m
BY DEF DoorsInv, RegistryOK, getBySlug, Active, Exists, ActiveSince

LEMMA PrecheckKeeps ==
  ASSUME DoorsInv, NEW d \in Deliveries, Precheck(d) PROVE DoorsInv'
<1> DEFINE q == delivery[d]
<1>1. q.step = "arrived" /\ q.input.door \notin {"claims", "verdict"} /\ UNCHANGED windows /\ UntouchedByDoor
  BY DEF Precheck, InStage, Input
<1>2. IsKnown(q) /\ DeliveryOK(q)
  BY <1>1, KnownAtTheDoor
<1>3. ASSUME d \in undisturbed
      PROVE  getBySlug(q.input.slug) # {} /\ Timely(q.input) /\ q.input.secret # NoOne
  <2>1. Honest(q.input)
    BY <1>3 DEF DoorsInv, GateOK
  <2> QED
    BY <1>1, <2>1, DoorsAssumption DEF Honest, LiveSecrets
<1>4. CASE Refuse(d) /\ (getBySlug(q.input.slug) = {} \/ q.input.secret = NoOne \/ ~Timely(q.input))
  BY <1>1, <1>3, <1>4, RefuseKeeps
<1>5. ASSUME NEW m \in getBySlug(q.input.slug), UNCHANGED undisturbed,
             delivery' = [delivery EXCEPT ![d] = [q EXCEPT !.step = "checked", !.merchant = m]]
      PROVE  DoorsInv'
  <2> DEFINE new == [q EXCEPT !.step = "checked", !.merchant = m]
  <2>1. Exists(m) /\ m \in Shops /\ merchants[m].slug = q.input.slug /\ ActiveSince(m, q.arrived)
    BY SlugIsOnes DEF Exists
  <2>2. /\ IsKnown(new) /\ new.step = "checked" /\ new.merchant = m /\ new.input = q.input
        /\ new.arrived = q.arrived
    BY <1>2, <2>1 DEF IsKnown, Known
  <2>3. delivery' = [delivery EXCEPT ![d] = new]
    BY <1>5
  <2> HIDE DEF new
  <2>4. DeliveryOK(new)
    BY <1>1, <1>2, <2>1, <2>2 DEF DeliveryOK, Recognised
  <2>5. WindowsOK'
    BY <1>1, <2>3, WindowsStay DEF Recognised
  <2>6. undisturbed' \subseteq undisturbed \cup {d} /\ (d \in undisturbed' => Honest(new.input))
    BY <1>5, <2>2 DEF DoorsInv, GateOK
  <2> QED
    BY <1>1, <2>2, <2>3, <2>4, <2>5, <2>6, AtTheDoor, DeliveryMoves
<1>6. (Refuse(d) /\ (getBySlug(q.input.slug) = {} \/ q.input.secret = NoOne \/ ~Timely(q.input)))
      \/ (UNCHANGED undisturbed
          /\ \E m \in getBySlug(q.input.slug) :
               delivery' = [delivery EXCEPT ![d] = [q EXCEPT !.step = "checked", !.merchant = m]])
  BY DEF Precheck, Input
<1> QED
  BY <1>4, <1>5, <1>6

\* A delivery is recognised as a merchant's.
LEMMA RecogniseKeeps ==
  ASSUME DoorsInv, NEW d \in Deliveries, NEW m, Recognise(d, m), UntouchedByDoor, UNCHANGED windows,
         delivery[d].step \in {"arrived", "checked"},
         delivery[d].input.door # "verdict",
         Exists(m), merchants[m].slug = delivery[d].input.slug, ActiveSince(m, delivery[d].arrived),
         delivery[d].input.door # "claims" =>
           OwnSecret(delivery[d].input.secret, m) /\ LiveSince(delivery[d].input.secret, delivery[d].arrived)
  PROVE  DoorsInv'
<1> DEFINE q == delivery[d]  new == [q EXCEPT !.step = "authentic", !.merchant = m]
<1>1. delivery' = [delivery EXCEPT ![d] = new] /\ undisturbed' = undisturbed \ {d} /\ m \in Shops
  BY DEF Recognise, Exists
<1>2. IsKnown(q) /\ DeliveryOK(q)
  BY KnownAtTheDoor
<1>3. /\ IsKnown(new) /\ new.step = "authentic" /\ new.merchant = m /\ new.input = q.input
      /\ new.arrived = q.arrived
  BY <1>1, <1>2 DEF IsKnown, Known
<1> HIDE DEF new
<1>4. DeliveryOK(new)
  BY <1>2, <1>3 DEF DeliveryOK, Recognised
<1>5. WindowsOK'
  BY <1>1, WindowsStay DEF Recognised
<1> QED
  BY <1>1, <1>3, <1>4, <1>5, AtTheDoor, DeliveryMoves

LEMMA VerifySignatureKeeps ==
  ASSUME DoorsInv, NEW d \in Deliveries, VerifySignature(d) PROVE DoorsInv'
<1> DEFINE q == delivery[d]  m == q.merchant
<1>1. q.step = "checked" /\ UNCHANGED windows /\ UntouchedByDoor
  BY DEF VerifySignature, InStage
<1>2. IsKnown(q) /\ DeliveryOK(q)
  BY <1>1, KnownAtTheDoor
<1>3. /\ Exists(m) /\ merchants[m].slug = q.input.slug /\ ActiveSince(m, q.arrived)
      /\ q.input.door \notin {"claims", "verdict"}
  BY <1>1, <1>2 DEF DeliveryOK
<1>4. CASE q.input.secret \in LiveSecrets(m) /\ Recognise(d, m)
  <2>1. OwnSecret(q.input.secret, m) /\ LiveSince(q.input.secret, q.arrived)
    BY <1>4 DEF LiveSecrets, OwnSecret, LiveSince
  <2> QED
    BY <1>1, <1>3, <1>4, <2>1, RecogniseKeeps
<1>5. CASE q.input.secret \notin LiveSecrets(m) /\ Refuse(d)
  <2>1. ASSUME d \in undisturbed PROVE FALSE
    <3>1. PICK n \in getBySlug(q.input.slug) : q.input.secret \in LiveSecrets(n)
      BY <1>3, <2>1 DEF DoorsInv, GateOK, Honest
    <3>2. n = m
      BY <1>3, SlugIsOnes DEF Exists
    <3> QED
      BY <1>5, <3>1, <3>2
  <2> QED
    BY <1>1, <1>5, <2>1, RefuseKeeps
<1> QED
  BY <1>4, <1>5 DEF VerifySignature, verifyWebhookSignature, activeWebhookSecrets, Input

LEMMA AuthenticateKeyKeeps ==
  ASSUME DoorsInv, NEW d \in Deliveries, AuthenticateKey(d) PROVE DoorsInv'
<1> DEFINE q == delivery[d]
<1>1. q.step = "arrived" /\ q.input.door = "claims" /\ UNCHANGED windows /\ UntouchedByDoor
  BY DEF AuthenticateKey, InStage, Input
<1>2. CASE getBySlug(q.input.slug) = {} /\ Refuse(d)
  <2>1. d \notin undisturbed
    BY <1>1, <1>2 DEF DoorsInv, GateOK, Honest
  <2> QED
    BY <1>1, <1>2, <2>1, RefuseKeeps
<1>3. ASSUME NEW m \in getBySlug(q.input.slug), Recognise(d, m) PROVE DoorsInv'
  <2>1. Exists(m) /\ merchants[m].slug = q.input.slug /\ ActiveSince(m, q.arrived)
    BY SlugIsOnes
  <2> QED
    BY <1>1, <1>3, <2>1, RecogniseKeeps
<1>4. (getBySlug(q.input.slug) = {} /\ Refuse(d)) \/ \E m \in getBySlug(q.input.slug) : Recognise(d, m)
  BY DEF AuthenticateKey, Input
<1> QED
  BY <1>2, <1>3, <1>4

LEMMA ReadVerdictKeeps ==
  ASSUME DoorsInv, NEW d \in Deliveries, ReadVerdict(d) PROVE DoorsInv'
<1> DEFINE q == delivery[d]
<1>1. q.step = "arrived" /\ q.input.door = "verdict" /\ UNCHANGED windows /\ UntouchedByDoor
  BY DEF ReadVerdict, InStage, Input
<1>2. IsKnown(q) /\ DeliveryOK(q)
  BY <1>1, KnownAtTheDoor
<1>3. CASE ~MayAsk(q.input) /\ Refuse(d)
  <2>1. d \notin undisturbed
    BY <1>1, <1>3 DEF DoorsInv, GateOK, Honest
  <2> QED
    BY <1>1, <1>3, <2>1, RefuseKeeps
<1>4. CASE MayAsk(q.input) /\ To(d, "told") /\ undisturbed' = undisturbed \ {d}
  <2> DEFINE new == [q EXCEPT !.step = "told"]
  <2>1. delivery' = [delivery EXCEPT ![d] = new]
    BY <1>4 DEF To
  <2>2. /\ IsKnown(new) /\ new.step = "told" /\ new.input = q.input /\ new.arrived = q.arrived
    BY <1>2 DEF IsKnown, Known
  <2> HIDE DEF new
  <2>3. /\ q.input.claimant # NoOne
        /\ q.input.quoted \/ /\ Exists(q.input.claimant)
                             /\ merchants[q.input.claimant].slug = q.input.slug
                             /\ ActiveSince(q.input.claimant, q.arrived)
    BY <1>4, SlugIsOnes DEF MayAsk
  <2>4. DeliveryOK(new)
    BY <1>2, <2>2, <2>3 DEF DeliveryOK, Recognised
  <2>5. WindowsOK'
    BY <1>1, <2>1, WindowsStay DEF Recognised
  <2> QED
    BY <1>1, <1>4, <2>1, <2>2, <2>4, <2>5, AtTheDoor, DeliveryMoves
<1> QED
  BY <1>3, <1>4 DEF ReadVerdict, Input

\* A recognised delivery goes on.
LEMMA GoesOn ==
  ASSUME DoorsInv, NEW d \in Deliveries, NEW step \in {"opening", "counted", "429", "refused", "lost"},
         delivery[d].step \in Recognised, To(d, step), UntouchedByDoor, undisturbed' \subseteq undisturbed
  PROVE  /\ UNCHANGED windows => DoorsInv'
         /\ WindowsOK' => DoorsInv'
<1> DEFINE q == delivery[d]  new == [q EXCEPT !.step = step]
<1>1. delivery' = [delivery EXCEPT ![d] = new]
  BY DEF To
<1>2. IsKnown(q) /\ DeliveryOK(q)
  BY KnownAtTheDoor
<1>3. /\ IsKnown(new) /\ new.step = step /\ new.merchant = q.merchant /\ new.input = q.input
      /\ new.arrived = q.arrived
  BY <1>2 DEF IsKnown, Known
<1> HIDE DEF new
<1>4. DeliveryOK(new)
  BY <1>2, <1>3 DEF DeliveryOK, Recognised
<1>5. d \notin undisturbed
  BY DEF DoorsInv, GateOK, Recognised
<1>6. WindowsOK' => DoorsInv'
  BY <1>1, <1>3, <1>4, <1>5, AtTheDoor, DeliveryMoves
<1>7. ASSUME UNCHANGED windows PROVE WindowsOK'
  BY <1>1, <1>3, <1>7, WindowsStay DEF Recognised
<1> QED
  BY <1>6, <1>7

\* The bucket of a recognised delivery.
LEMMA BucketIsOne ==
  ASSUME DoorsInv, NEW d \in Deliveries, delivery[d].step \in Recognised
  PROVE  Bucket(d) \in Buckets
<1>1. /\ delivery[d].merchant \in Shops /\ delivery[d].input.door # "verdict"
      /\ delivery[d].input \in DeliveryInputs
  BY KnownAtTheDoor DEF DeliveryOK, Exists
<1> QED
  BY <1>1, DoorsAssumption DEF Bucket, Buckets, Input

LEMMA CountHitKeeps ==
  ASSUME DoorsInv, NEW d \in Deliveries, CountHit(d) PROVE DoorsInv'
<1> DEFINE q == delivery[d]
<1>0. PICK b : b = Bucket(d)
  OBVIOUS
<1> DEFINE count == IF windows[b] = NoOne THEN 1 ELSE windows[b].count + 1
           expires == IF count = 1 THEN NoOne ELSE windows[b].expires
           row == [count |-> count, expires |-> expires]
           step == CASE count = 1 -> "opening" [] count > DoorLimit -> "429" [] OTHER -> "counted"
           new == [q EXCEPT !.step = step]
<1>1. /\ q.step = "authentic" /\ UntouchedByDoor /\ UNCHANGED undisturbed
      /\ windows' = [windows EXCEPT ![b] = row] /\ To(d, step)
  BY <1>0 DEF CountHit, InStage
<1>2. b \in Buckets
  BY <1>0, <1>1, BucketIsOne DEF Recognised
<1>3. /\ windows[b] = NoOne \/ (windows[b] \in WindowRows /\ windows[b].count <= Cardinality(Hits(b)))
      /\ windows \in [Buckets -> WindowRows \cup {NoOne}]
  BY <1>2 DEF DoorsInv, WindowsOK
<1>4. count \in Nat /\ expires \in Int \cup {NoOne}
  BY <1>3 DEF WindowRows
<1>5. step \in {"opening", "429", "counted"}
  OBVIOUS
<1> HIDE DEF step
<1>6. IsKnown(q)
  BY <1>1, KnownAtTheDoor DEF Recognised
<1>7. /\ new.step = step /\ new.merchant = q.merchant /\ new.input = q.input
      /\ delivery' = [delivery EXCEPT ![d] = new]
  BY <1>1, <1>6 DEF To, IsKnown, Known
<1> HIDE DEF new
<1>8. \A c \in Buckets :
        /\ IsFiniteSet(Hits(c)) /\ IsFiniteSet(Hits(c)') /\ Hits(c) \subseteq Hits(c)'
        /\ Cardinality(Hits(c)) \in Nat /\ Cardinality(Hits(c)') \in Nat
        /\ Cardinality(Hits(c)) <= Cardinality(Hits(c)')
  BY <1>5, <1>7, HitsGrow DEF Recognised
<1>9. Cardinality(Hits(b)) + 1 <= Cardinality(Hits(b)')
  <2>1. d \notin Hits(b)
    BY <1>1 DEF Hits
  <2>2. delivery'[d] = new
    BY <1>7 DEF DoorsInv, GateOK
  <2>3. d \in Hits(b)'
    BY <1>0, <1>5, <1>7, <2>2 DEF Hits, Bucket, Input, Recognised
  <2>4. Hits(b) \cup {d} \subseteq Hits(b)'
    BY <1>2, <1>8, <2>3
  <2>5. Cardinality(Hits(b) \cup {d}) = Cardinality(Hits(b)) + 1
    BY <1>2, <1>8, <2>1, FS_AddElement
  <2>6. Cardinality(Hits(b) \cup {d}) <= Cardinality(Hits(b)')
    BY <1>2, <1>8, <2>4, FS_Subset
  <2> QED
    BY <2>5, <2>6
<1>10. count <= Cardinality(Hits(b)')
  BY <1>2, <1>3, <1>8, <1>9 DEF WindowRows
<1>11. row \in WindowRows /\ row.count = count
  BY <1>4 DEF WindowRows
<1> HIDE DEF row, count
<1>12. /\ windows' \in [Buckets -> WindowRows \cup {NoOne}]
       /\ windows'[b] = row /\ \A c \in Buckets : c # b => windows'[c] = windows[c]
  BY <1>1, <1>2, <1>3, <1>11
<1>13. ASSUME NEW c \in Buckets, windows'[c] # NoOne PROVE windows'[c].count <= Cardinality(Hits(c)')
  <2>1. CASE c = b
    BY <1>10, <1>11, <1>12, <2>1
  <2>2. CASE c # b
    <3>1. windows[c].count \in Nat /\ windows[c].count <= Cardinality(Hits(c))
      BY <1>3, <1>12, <1>13, <2>2 DEF DoorsInv, WindowsOK, WindowRows
    <3> QED
      BY <1>8, <1>12, <2>2, <3>1
  <2> QED
    BY <2>1, <2>2
<1>14. WindowsOK'
  BY <1>12, <1>13 DEF WindowsOK
<1> QED
  BY <1>1, <1>5, <1>14, GoesOn DEF Recognised

LEMMA SetExpiryKeeps ==
  ASSUME DoorsInv, NEW d \in Deliveries, SetExpiry(d) PROVE DoorsInv'
<1> DEFINE q == delivery[d]  new == [q EXCEPT !.step = "counted"]
<1>0. PICK b : b = Bucket(d)
  OBVIOUS
<1>1. /\ q.step = "opening" /\ UntouchedByDoor /\ UNCHANGED undisturbed /\ To(d, "counted")
      /\ windows' = IF windows[b] = NoOne THEN windows
                    ELSE [windows EXCEPT ![b] = [windows[b] EXCEPT !.expires = clock + DoorWindow]]
  BY <1>0 DEF SetExpiry, InStage
<1>2. CASE windows[b] = NoOne
  BY <1>1, <1>2, GoesOn DEF Recognised
<1>3. CASE windows[b] # NoOne
  <2> DEFINE row == [windows[b] EXCEPT !.expires = clock + DoorWindow]
  <2>1. b \in Buckets
    BY <1>0, <1>1, BucketIsOne DEF Recognised
  <2>2. windows[b] \in WindowRows /\ clock + DoorWindow \in Int
    BY <1>3, <2>1, DoorsAssumption DEF DoorsInv, WindowsOK, RegistryOK
  <2>3. row \in WindowRows /\ row.count = windows[b].count
    BY <2>2 DEF WindowRows
  <2>4. windows' = [windows EXCEPT ![b] = row]
    BY <1>1, <1>3
  <2> HIDE DEF row
  <2>5. /\ windows' \in [Buckets -> WindowRows \cup {NoOne}]
        /\ \A c \in Buckets : windows'[c] # NoOne =>
             windows[c] # NoOne /\ windows'[c].count = windows[c].count
    BY <1>3, <2>1, <2>3, <2>4 DEF DoorsInv, WindowsOK
  <2>6. IsKnown(q)
    BY <1>1, KnownAtTheDoor DEF Recognised
  <2>7. /\ new.step = "counted" /\ new.merchant = q.merchant /\ new.input = q.input
        /\ delivery' = [delivery EXCEPT ![d] = new]
    BY <1>1, <2>6 DEF To, IsKnown, Known
  <2> HIDE DEF new
  <2>8. ASSUME NEW c \in Buckets, windows'[c] # NoOne PROVE windows'[c].count <= Cardinality(Hits(c)')
    <3>1. /\ Cardinality(Hits(c)) \in Nat /\ Cardinality(Hits(c)') \in Nat
          /\ Cardinality(Hits(c)) <= Cardinality(Hits(c)')
      BY <2>7, HitsGrow DEF Recognised
    <3>2. windows[c].count \in Nat /\ windows[c].count <= Cardinality(Hits(c))
      BY <2>5, <2>8 DEF DoorsInv, WindowsOK, WindowRows
    <3> QED
      BY <2>5, <2>8, <3>1, <3>2
  <2>9. WindowsOK'
    BY <2>5, <2>8 DEF WindowsOK
  <2> QED
    BY <1>1, <2>9, GoesOn DEF Recognised
<1> QED
  BY <1>2, <1>3

\* The limiter opens, and a delivery is refused, let in or lost.
LEMMA LastStepsKeep ==
  ASSUME DoorsInv, NEW d \in Deliveries, RedisFails(d) \/ Admit(d) \/ DeliveryLost(d) PROVE DoorsInv'
<1> DEFINE q == delivery[d]
<1>1. UNCHANGED windows /\ UntouchedByDoor /\ undisturbed' \subseteq undisturbed
  BY DEF RedisFails, Admit, DeliveryLost
<1>2. CASE RedisFails(d)
  BY <1>1, <1>2, GoesOn DEF RedisFails, Recognised
<1>3. CASE Admit(d) /\ To(d, "refused")
  BY <1>1, <1>3, GoesOn DEF Admit, InStage, Recognised
<1>4. CASE Admit(d) /\ Input(d).claimant \in {NoOne, delivery[d].merchant} /\ PassOn(d)
  <2> DEFINE order == orderIn(q.input.door, q.input.carrier)
             new == [q EXCEPT !.step = "admitted", !.order = order]
  <2>1. /\ delivery' = [delivery EXCEPT ![d] = new] /\ q.step = "counted"
        /\ q.input.claimant \in {NoOne, q.merchant}
    BY <1>4 DEF PassOn, Input, Admit, InStage
  <2>2. IsKnown(q) /\ DeliveryOK(q)
    BY <2>1, KnownAtTheDoor DEF Recognised
  <2>3. order.token \in {q.input.carrier.field, NoOne}
    BY DEF orderIn
  <2> HIDE DEF order
  <2>4. /\ IsKnown(new) /\ new.step = "admitted" /\ new.merchant = q.merchant /\ new.input = q.input
        /\ new.arrived = q.arrived /\ new.order = order
    BY <2>2 DEF IsKnown, Known
  <2> HIDE DEF new
  <2>5. DeliveryOK(new)
    BY <2>1, <2>2, <2>3, <2>4 DEF DeliveryOK, Recognised
  <2>6. WindowsOK'
    BY <1>1, <2>1, <2>4, WindowsStay DEF Recognised
  <2>7. d \notin undisturbed
    BY <2>1 DEF DoorsInv, GateOK
  <2> QED
    BY <1>1, <2>1, <2>4, <2>5, <2>6, <2>7, AtTheDoor, DeliveryMoves
<1>5. CASE DeliveryLost(d) /\ InStage(d, "opening")
  BY <1>1, <1>5, GoesOn DEF DeliveryLost, InStage, Recognised
<1>6. CASE DeliveryLost(d) /\ ~InStage(d, "opening")
  <2> DEFINE new == [step |-> "500"]
  <2>1. /\ delivery' = [delivery EXCEPT ![d] = new] /\ undisturbed' = undisturbed \ {d}
        /\ q.step \in {"arrived", "checked"}
    BY <1>6 DEF DeliveryLost, InStage
  <2>2. new.step = "500" /\ ~IsKnown(new)
    BY DEF IsKnown, Known
  <2> HIDE DEF new
  <2>3. WindowsOK'
    BY <1>1, <2>1, WindowsStay DEF Recognised
  <2> QED
    BY <1>1, <2>1, <2>2, <2>3, AtTheDoor, DeliveryMoves
<1> QED
  BY <1>2, <1>3, <1>4, <1>5, <1>6 DEF Admit

\* Time passes, and windows expire.
LEMMA PassTimeKeeps == ASSUME DoorsInv, PassTime PROVE DoorsInv'
<1>1. /\ clock' = clock + 1 /\ clock \in Nat
      /\ UNCHANGED <<merchants, webhook_secrets, key_rows, custody, onboarder, sheets, delivery>>
      /\ undisturbed' = {d \in undisturbed : TimelyAt(Input(d), clock')}
  BY DEF PassTime, registry, office, DoorsInv, RegistryOK
<1>2. RegistryOK'
  BY <1>1 DEF DoorsInv, RegistryOK, Exists, Keyed, HasKey
<1>3. RegistryMovesOn
  BY <1>1, <1>2 DEF RegistryMovesOn, Exists, Keyed, ActiveSince, OwnSecret, LiveSince
<1>4. OfficeOK'
  BY <1>1, <1>3, OfficeStays
<1>5. \A q : IsKnown(q) /\ DeliveryOK(q) => DeliveryOK(q)'
  BY <1>3, DeliveryStays DEF DoorsInv
<1>6. ASSUME NEW d \in Deliveries, IsKnown(delivery[d]) PROVE DeliveryOK(delivery[d])'
  <2>1. PICK q : q = delivery[d]
    OBVIOUS
  <2>2. DeliveryOK(q)' /\ q = delivery'[d]
    BY <1>1, <1>5, <1>6, <2>1 DEF DoorsInv, GateOK
  <2> QED
    BY <2>2 DEF DeliveryOK
<1>7. ASSUME NEW d \in undisturbed' PROVE Honest(delivery[d].input)'
  <2>1. PICK input : input = delivery[d].input
    OBVIOUS
  <2>2. Honest(input) /\ TimelyAt(input, clock')
    BY <1>1, <2>1 DEF DoorsInv, GateOK, Input
  <2>3. Honest(input)'
    BY <1>1, <2>2 DEF Honest, MayAsk, Timely, getBySlug, Active, LiveSecrets
  <2>4. input = delivery'[d].input
    BY <1>1, <2>1
  <2> QED
    BY <2>3, <2>4 DEF Honest, MayAsk, Timely, TimelyAt
<1>8. GateOK'
  BY <1>1, <1>6, <1>7 DEF DoorsInv, GateOK, IsKnown
<1>9. /\ windows' \in [Buckets -> WindowRows \cup {NoOne}]
      /\ \A b \in Buckets : windows'[b] # NoOne => windows'[b] = windows[b]
  BY DEF PassTime, DoorsInv, WindowsOK
<1>10. WindowsOK'
  BY <1>1, <1>9 DEF DoorsInv, WindowsOK, Hits, Bucket, Input
<1> QED
  BY <1>2, <1>4, <1>8, <1>10 DEF DoorsInv

\* Every step of merchants, operators and deliveries keeps the invariant.
LEMMA DoorsStep == DoorsInv /\ [DoorsNext]_doorVars => DoorsInv'
<1> SUFFICES ASSUME DoorsInv, [DoorsNext]_doorVars PROVE DoorsInv'
  OBVIOUS
<1>1. CASE UNCHANGED doorVars
  <2>1. UNCHANGED <<clock, registry, onboarder, sheets, gate, undisturbed>>
    BY <1>1 DEF doorVars, office
  <2>2. RegistryMovesOn
    BY <2>1, RegistryStays DEF DoorsInv
  <2>3. GateOK' /\ WindowsOK'
    BY <2>1, <2>2, GateStays, UndisturbedStays DEF gate, registry
  <2>4. OfficeOK'
    BY <2>1, <2>2, OfficeStays
  <2> QED
    BY <2>2, <2>3, <2>4 DEF DoorsInv, RegistryMovesOn
<1>2. CASE \E w \in Onboarders :
             \/ ReadSlugs(w) \/ InsertMerchant(w) \/ AskForKey(w) \/ IssueKey(w) \/ KeyTimesOut(w)
             \/ InsertKeyRow(w) \/ SetKeyRef(w) \/ IssueFirstSecret(w) \/ AnswerSheet(w)
             \/ OnboardingFails(w) \/ WriteUpdate(w)
             \/ \E m \in Shops, patch \in {"active", "suspended", NoOne} : ReadForUpdate(w, m, patch)
  BY <1>2, SignupBegins, InsertMerchantKeeps, IssueKeyKeeps, SetKeyRefKeeps, IssueFirstSecretKeeps,
     SignupEnds, ReadForUpdateKeeps, WriteUpdateKeeps
<1>3. CASE (\E m \in Shops : RotateIn(m)) \/ (\E s \in Secrets : RevokeSecret(s))
  BY <1>3, RotateInKeeps, RevokeSecretKeeps
<1>4. CASE \E d \in Deliveries :
             \/ Arrive(d) \/ Precheck(d) \/ VerifySignature(d) \/ AuthenticateKey(d) \/ ReadVerdict(d)
             \/ CountHit(d) \/ SetExpiry(d) \/ RedisFails(d) \/ Admit(d) \/ DeliveryLost(d)
  BY <1>4, ArrivalKeeps, PrecheckKeeps, VerifySignatureKeeps, AuthenticateKeyKeeps, ReadVerdictKeeps,
     CountHitKeeps, SetExpiryKeeps, LastStepsKeep
<1> QED
  BY <1>1, <1>2, <1>3, <1>4, PassTimeKeeps DEF DoorsNext

LEMMA DoorsInvOnboards == DoorsInv => OnboardedIsComplete
<1> SUFFICES ASSUME DoorsInv PROVE OnboardedIsComplete
  OBVIOUS
<1>1. ASSUME NEW sheet \in sheets
      PROVE  /\ {m \in Shops : merchants[m] # NoOne /\ merchants[m].slug = sheet.slug} = {sheet.merchant}
             /\ webhook_secrets[sheet.secret] # NoOne
             /\ webhook_secrets[sheet.secret].merchant = sheet.merchant
             /\ merchants[sheet.merchant].signing_key_ref # NoOne
  <2>1. SheetOK(sheet)
    BY DEF DoorsInv, OfficeOK
  <2> QED
    BY <2>1 DEF SheetOK, Exists, OwnSecret, Keyed, DoorsInv, RegistryOK
<1>2. \A m \in Shops : merchants[m] # NoOne /\ merchants[m].signing_key_ref # NoOne =>
        m \in custody /\ [merchant |-> m, ref |-> merchants[m].signing_key_ref] \in key_rows
  BY DEF DoorsInv, RegistryOK, Keyed, Exists, HasKey
<1> QED
  BY <1>1, <1>2 DEF OnboardedIsComplete

LEMMA DoorsInvIsFair == DoorsInv => DoorsAreFair
<1> SUFFICES ASSUME DoorsInv PROVE DoorsAreFair
  OBVIOUS
<1>1. ASSUME NEW d \in Deliveries, InStage(d, "admitted")
      PROVE  LET m == delivery[d].merchant  secret == webhook_secrets[Input(d).secret]
             IN  /\ merchants[m].slug = Input(d).slug
                 /\ Input(d).door # "claims" =>
                      /\ secret.merchant = m
                      /\ secret.revoked_at = NoOne \/ secret.revoked_at >= delivery[d].arrived
                 /\ Input(d).claimant \in {NoOne, m}
                 /\ merchants[m].status = "active" \/ merchants[m].suspended_at >= delivery[d].arrived
                 /\ delivery[d].order.token \in {Input(d).carrier.field, NoOne}
  <2>1. DeliveryOK(delivery[d]) /\ delivery[d].step = "admitted"
    BY <1>1, KnownAtTheDoor DEF InStage, Recognised
  <2> QED
    BY <2>1 DEF DeliveryOK, Recognised, Input, OwnSecret, LiveSince, ActiveSince
<1>2. ASSUME NEW d \in Deliveries, InStage(d, "told")
      PROVE  /\ Input(d).claimant # NoOne
             /\ Input(d).quoted \/ LET m == merchants[Input(d).claimant]
                                   IN  /\ m.slug = Input(d).slug
                                       /\ m.status = "active" \/ m.suspended_at >= delivery[d].arrived
  <2>1. DeliveryOK(delivery[d]) /\ delivery[d].step = "told"
    BY <1>2 DEF InStage, DoorsInv, GateOK
  <2> QED
    BY <2>1 DEF DeliveryOK, Input, ActiveSince
<1>3. \A d \in Deliveries : InStage(d, "401") => ~delivery[d].honest
  BY DEF DoorsInv, GateOK, InStage
<1>4. ASSUME NEW b \in Buckets, windows[b] # NoOne
      PROVE  windows[b].count <= Cardinality({d \in Deliveries :
               /\ delivery[d].step \notin {"outside", "arrived", "checked", "401", "500"} /\ Bucket(d) = b
               /\ \/ Input(d).door = "claims"
                  \/ /\ Input(d).secret \in Secrets
                     /\ webhook_secrets[Input(d).secret].merchant = delivery[d].merchant})
  <2> DEFINE own == {d \in Deliveries :
               /\ delivery[d].step \notin {"outside", "arrived", "checked", "401", "500"} /\ Bucket(d) = b
               /\ \/ Input(d).door = "claims"
                  \/ /\ Input(d).secret \in Secrets
                     /\ webhook_secrets[Input(d).secret].merchant = delivery[d].merchant}
  <2>1. ASSUME NEW d \in Hits(b) PROVE d \in own
    <3>1. d \in Deliveries /\ delivery[d].step \in Recognised /\ Bucket(d) = b
      BY DEF Hits
    <3>2. DeliveryOK(delivery[d])
      BY <3>1, KnownAtTheDoor
    <3> QED
      BY <3>1, <3>2 DEF DeliveryOK, Recognised, Input, OwnSecret
  <2>2. Hits(b) \subseteq own /\ own \subseteq Deliveries
    BY <2>1
  <2> HIDE DEF own
  <2>3. IsFiniteSet(own) /\ IsFiniteSet(Hits(b))
    BY <2>2, FS_Subset, DoorsAssumption
  <2>4. /\ Cardinality(Hits(b)) <= Cardinality(own)
        /\ Cardinality(Hits(b)) \in Nat /\ Cardinality(own) \in Nat
    BY <2>2, <2>3, FS_Subset, FS_CardinalityType
  <2>5. windows[b].count \in Nat /\ windows[b].count <= Cardinality(Hits(b))
    BY <1>4 DEF DoorsInv, WindowsOK, WindowRows
  <2>6. windows[b].count <= Cardinality(own)
    BY <2>4, <2>5
  <2> QED
    BY <2>6 DEF own
<1>5. DOMAIN windows = Buckets
  BY DEF DoorsInv, WindowsOK
<1> QED
  BY <1>1, <1>2, <1>3, <1>4, <1>5 DEF DoorsAreFair

\* Whoever got an integration sheet is onboarded, wherever signups stop or race.
THEOREM OnboardedCorrect == DoorsSpec => []OnboardedIsComplete
BY DoorsInvInit, DoorsStep, DoorsInvOnboards, PTL DEF DoorsSpec

\* The doors let in and tell what they should, turn away nobody who is honest, and
\* count no delivery twice, whatever operators rotate, revoke and suspend meanwhile.
THEOREM DoorsCorrect == DoorsSpec => []DoorsAreFair
BY DoorsInvInit, DoorsStep, DoorsInvIsFair, PTL DEF DoorsSpec

-----------------------------------------------------------------------------
(* Netting.                                                                *)

\* The lines of a set in the accounts of a party come to a whole number.
LEMMA SignedIsWhole ==
  ASSUME NEW id \in EntrySetIds, NEW party \in Parties
  PROVE  SignedOf[id][party] \in Int
<1>0. PICK R, f : /\ R = {r \in Roles : partyForAccount(r, id.conversion) = party}
                  /\ f = [role \in R |-> LinesOf(id)[role]]
  OBVIOUS
<1>1. IsFiniteSet(Roles)
  <2>1. IsFiniteSet({"merchant_payable"})
    BY FS_Singleton
  <2>2. IsFiniteSet({"merchant_payable"} \cup {"agent_receivable"})
    BY <2>1, FS_AddElement
  <2>3. IsFiniteSet(({"merchant_payable"} \cup {"agent_receivable"}) \cup {"platform_revenue"})
    BY <2>2, FS_AddElement
  <2>4. IsFiniteSet((({"merchant_payable"} \cup {"agent_receivable"}) \cup {"platform_revenue"}) \cup {"reserve"})
    BY <2>3, FS_AddElement
  <2>5. Roles = (({"merchant_payable"} \cup {"agent_receivable"}) \cup {"platform_revenue"}) \cup {"reserve"}
    BY DEF Roles
  <2> QED
    BY <2>4, <2>5
<1>2. \A role \in Roles : LinesOf(id)[role] \in Int
  <2>1. PICK bounty \in Int : bounty = BountyOf[id.conversion]
    BY NettingAssumption DEF EntrySetIds
  <2>2. PICK split : split = SplitBounty(bounty, TakeRateBps, CommissionBps)
    OBVIOUS
  <2>3. split.platform \in Int /\ split.agent \in Int /\ split.reserve \in Int
    <3>1. PICK p \in Int, a \in Int : /\ p = (bounty * TakeRateBps) \div BasisPoints
                                     /\ a = (bounty * CommissionBps) \div BasisPoints
      BY NettingAssumption DEF BasisPoints
    <3>2. split = [platform |-> p, agent |-> a, reserve |-> (bounty - p) - a]
      BY <2>2, <3>1 DEF SplitBounty
    <3> QED
      BY <3>2
  <2>4. PICK lines : lines = ConversionLines(bounty, split)
    OBVIOUS
  <2>5. /\ \A role \in Roles : lines[role] \in Int
        /\ \A role \in Roles : ReversalLines(lines)[role] \in Int
    BY <2>3, <2>4 DEF ConversionLines, ReversalLines, Roles
  <2>6. LinesOf(id) = IF id.kind = "set" THEN lines ELSE ReversalLines(lines)
    BY <2>1, <2>2, <2>4 DEF LinesOf
  <2> QED
    BY <2>5, <2>6
<1>3. Amounts(f, R)
  <2>1. R \subseteq Roles
    BY <1>0
  <2>2. IsFiniteSet(R)
    BY <1>1, <2>1, FS_Subset
  <2> QED
    BY <1>0, <1>2, <2>1, <2>2 DEF Amounts
<1>4. SignedOf[id][party] = SumFunction(f)
  BY <1>0 DEF SignedOf
<1>5. SumFunction(f) = SumFunctionOnSet(f, R)
  BY <1>0 DEF SumFunction
<1> QED
  BY <1>3, <1>4, <1>5, SumType

Signed(party, ids) == [id \in ids |-> SignedOf[id][party]]

\* What sets come to that are taken in two parts.
LEMMA SignedSplits ==
  ASSUME NEW party \in Parties, NEW A \in SUBSET EntrySetIds, NEW B \in SUBSET EntrySetIds,
         IsFiniteSet(A), IsFiniteSet(B), A \cap B = {}
  PROVE  /\ SignedFor(party, A) \in Int /\ SignedFor(party, B) \in Int
         /\ SignedFor(party, A \cup B) = SignedFor(party, A) + SignedFor(party, B)
<1>1. IsFiniteSet(A \cup B)
  BY FS_Union
<1>2. PICK h : h = Signed(party, A \cup B)
  OBVIOUS
<1>3. \A id \in A \cup B : h[id] = SignedOf[id][party] /\ h[id] \in Int
  BY <1>2, SignedIsWhole DEF Signed
<1>4. ASSUME NEW S \in SUBSET (A \cup B)
      PROVE  SignedFor(party, S) = SumFunctionOnSet(h, S)
  <2>1. PICK f : f = Signed(party, S)
    OBVIOUS
  <2>2. DOMAIN f = S /\ \A id \in S : h[id] = f[id] /\ h[id] \in Int
    BY <1>3, <2>1 DEF Signed
  <2>3. Amounts(h, S)
    BY <1>1, <2>2, FS_Subset DEF Amounts
  <2>4. SumFunctionOnSet(h, S) = SumFunctionOnSet(f, S)
    BY <2>2, <2>3, SumSame
  <2> QED
    BY <2>1, <2>2, <2>4 DEF Signed, SignedFor, SumFunction
<1>5. Amounts(h, A \cup B)
  BY <1>1, <1>3 DEF Amounts
<1>6. /\ SumFunctionOnSet(h, A) \in Int /\ SumFunctionOnSet(h, B) \in Int
      /\ SumFunctionOnSet(h, A \cup B) = SumFunctionOnSet(h, A) + SumFunctionOnSet(h, B)
  BY <1>5, SumSplits
<1> QED
  BY <1>4, <1>6

\* What is signed for a party is a number.
LEMMA SignedType ==
  ASSUME NEW party \in Parties, NEW A \in SUBSET EntrySetIds, IsFiniteSet(A)
  PROVE  SignedFor(party, A) \in Int
<1>1. IsFiniteSet({}) /\ {} \in SUBSET EntrySetIds /\ A \cap {} = {}
  BY FS_EmptySet
<1> QED
  BY <1>1, SignedSplits

Positions == [party : Parties, signed : Int]
OneEach(positions) ==
  \A j, k \in 1 .. Len(positions) : positions[j].party = positions[k].party => j = k

\* A fold has one position for each party whose lines do not cancel out, of
\* what they come to.
LEMMA FoldIs ==
  ASSUME NEW ids \in SUBSET EntrySetIds, IsFiniteSet(ids)
  PROVE  /\ foldPositions(ids) \in Seq(Positions) /\ OneEach(foldPositions(ids))
         /\ \A j \in 1 .. Len(foldPositions(ids)) :
              foldPositions(ids)[j].signed = SignedFor(foldPositions(ids)[j].party, ids)
         /\ \A party \in Parties : SignedFor(party, ids) # 0 =>
              \E j \in 1 .. Len(foldPositions(ids)) : foldPositions(ids)[j].party = party
<1>1. PICK f : f = [i \in DOMAIN PartyOrder |->
                     [party |-> PartyOrder[i], signed |-> SignedFor(PartyOrder[i], ids)]]
  OBVIOUS
<1>2. PICK K : K = {i \in DOMAIN PartyOrder : f[i].signed # 0}
  OBVIOUS
<1>3. PartyOrder \in Seq(Parties) /\ DOMAIN PartyOrder = 1 .. Len(PartyOrder)
  BY NettingAssumption
<1>4. \A party \in Parties : SignedFor(party, ids) \in Int
  BY SignedType
<1>5. f \in Seq(Positions) /\ Len(f) = Len(PartyOrder)
  BY <1>1, <1>3, <1>4 DEF Positions
<1>6. K \in SUBSET (1 .. Len(f))
  BY <1>2, <1>3, <1>5
<1>7. foldPositions(ids) = Only(f, K)
  BY <1>1, <1>2 DEF foldPositions
<1>a. PICK p, n : p = Only(f, K) /\ n = Len(p)
  OBVIOUS
<1>b. p \in Seq(Positions) /\ Chosen(p, f, K)
  BY <1>5, <1>6, <1>a, OnlyIs
<1>8. PICK place \in [1 .. n -> K] :
        /\ \A k \in 1 .. n : p[k] = f[place[k]]
        /\ \A i \in K : \E k \in 1 .. n : place[k] = i
        /\ \A j, k \in 1 .. n : j < k => place[j] < place[k]
  BY <1>a, <1>b DEF Chosen
<1>9. n \in Nat
  BY <1>a, <1>b
<1>10. \A i \in 1 .. Len(f) : f[i].party = PartyOrder[i] /\ f[i].signed = SignedFor(PartyOrder[i], ids)
  BY <1>1, <1>3, <1>5
<1>11. ASSUME NEW j \in 1 .. n, NEW k \in 1 .. n, p[j].party = p[k].party
       PROVE  j = k
  <2>1. place[j] \in 1 .. Len(f) /\ place[k] \in 1 .. Len(f)
    BY <1>6, <1>8
  <2>2. PartyOrder[place[j]] = PartyOrder[place[k]]
    BY <1>8, <1>10, <1>11, <2>1
  <2>3. place[j] = place[k]
    BY <1>3, <1>5, <2>1, <2>2, NettingAssumption
  <2>4. ~(j < k) /\ ~(k < j)
    BY <1>8, <2>1, <2>3
  <2> QED
    BY <2>4
<1>12. ASSUME NEW j \in 1 .. n PROVE p[j].signed = SignedFor(p[j].party, ids)
  <2>1. place[j] \in 1 .. Len(f) /\ p[j] = f[place[j]]
    BY <1>6, <1>8
  <2> QED
    BY <1>10, <2>1
<1>13. ASSUME NEW party \in Parties, SignedFor(party, ids) # 0
       PROVE  \E j \in 1 .. n : p[j].party = party
  <2>1. PICK i \in DOMAIN PartyOrder : PartyOrder[i] = party
    BY DEF Parties
  <2>2. i \in K
    BY <1>2, <1>3, <1>5, <1>10, <1>13, <2>1
  <2> QED
    BY <1>6, <1>8, <1>10, <2>1, <2>2
<1> QED
  BY <1>7, <1>a, <1>b, <1>11, <1>12, <1>13 DEF OneEach

\* What a fold tells a party is what its lines come to.
LEMMA FoldTells ==
  ASSUME NEW ids \in SUBSET EntrySetIds, IsFiniteSet(ids), NEW event,
         event.positions = foldPositions(ids), NEW party \in Parties
  PROVE  ToldBy(event, party) = SignedFor(party, ids)
<1>1. PICK p : p = event.positions
  OBVIOUS
<1>2. /\ p \in Seq(Positions) /\ OneEach(p)
      /\ \A j \in 1 .. Len(p) : p[j].signed = SignedFor(p[j].party, ids)
      /\ SignedFor(party, ids) # 0 => \E j \in 1 .. Len(p) : p[j].party = party
  BY <1>1, FoldIs
<1>3. PICK J, f : J = {j \in DOMAIN p : p[j].party = party} /\ f = [i \in J |-> p[i].signed]
  OBVIOUS
<1>4. ToldBy(event, party) = SumFunction(f)
  BY <1>1, <1>3 DEF ToldBy
<1>5. J \subseteq 1 .. Len(p) /\ DOMAIN f = J /\ \A i \in J : f[i] = SignedFor(party, ids)
  BY <1>2, <1>3
<1>6. SignedFor(party, ids) \in Int
  BY SignedType
<1>7. CASE J = {}
  <2>1. SumFunction(f) = 0
    BY <1>5, <1>7, TotalOfNothing
  <2> QED
    BY <1>2, <1>3, <1>4, <1>7, <2>1
<1>8. CASE J # {}
  <2>1. PICK j \in J : TRUE
    BY <1>8
  <2>2. J = {} \cup {j}
    BY <1>2, <1>3, <2>1 DEF OneEach
  <2>3. PICK e : e = [i \in {} |-> 0]
    OBVIOUS
  <2>4. DOMAIN e = {} /\ SumFunction(e) = 0
    BY <2>3, TotalOfNothing
  <2>5. f \in [{} \cup {j} -> Int]
    <3>1. f = [i \in J |-> SignedFor(party, ids)]
      BY <1>3, <1>5
    <3> QED
      BY <1>6, <2>2, <3>1
  <2>6. SumFunction(f) = SumFunction(e) + f[j]
    BY <2>4, <2>5, FS_EmptySet, TotalExtends
  <2> QED
    BY <1>4, <1>5, <1>6, <2>1, <2>4, <2>6
<1> QED
  BY <1>7, <1>8

NettedEvents == [netting_run_id : Nat, period : Months, positions : Seq(Positions)]

\* What the events told a party is a whole number, and one more event adds what it tells.
LEMMA ToldByIsWhole ==
  ASSUME NEW event \in NettedEvents, NEW party
  PROVE  ToldBy(event, party) \in Int
<1>1. PICK p : p = event.positions
  OBVIOUS
<1>2. PICK J, f : J = {j \in DOMAIN p : p[j].party = party} /\ f = [i \in J |-> p[i].signed]
  OBVIOUS
<1>3. p \in Seq(Positions)
  BY <1>1 DEF NettedEvents
<1>4. IsFiniteSet(1 .. Len(p))
  <2>1. 1 \in Int /\ Len(p) \in Int
    BY <1>3
  <2> QED
    BY <2>1, FS_Interval, Zenon
<1>5. J \subseteq 1 .. Len(p) /\ \A i \in J : f[i] \in Int
  <2>1. \A i \in 1 .. Len(p) : p[i].signed \in Int
    <3>1. \A i \in 1 .. Len(p) : p[i] \in Positions
      BY <1>3
    <3> QED
      BY <3>1 DEF Positions
  <2>2. J \subseteq 1 .. Len(p) /\ \A i \in J : f[i] = p[i].signed
    BY <1>2, <1>3
  <2> QED
    BY <2>1, <2>2
<1>6. Amounts(f, J)
  BY <1>4, <1>5, FS_Subset DEF Amounts
<1>7. SumFunctionOnSet(f, J) \in Int
  BY <1>6, SumType
<1> QED
  BY <1>1, <1>2, <1>7 DEF ToldBy, SumFunction

\* What a ledger's events tell a party, and when one is appended.
TotalTold(s, party) == SumFunction([i \in DOMAIN s |-> ToldBy(s[i], party)])

\* An event adds what it says to what was told.
LEMMA ToldGrows ==
  ASSUME NEW s \in Seq(NettedEvents), NEW event \in NettedEvents, NEW party
  PROVE  /\ TotalTold(s, party) \in Int
         /\ TotalTold(Append(s, event), party) = TotalTold(s, party) + ToldBy(event, party)
<1>0. PICK n \in Nat : n = Len(s)
  OBVIOUS
<1>1. PICK t, k : t = Append(s, event) /\ k = n + 1
  OBVIOUS
<1>2. /\ DOMAIN s = 1 .. n /\ DOMAIN t = (1 .. n) \cup {k} /\ k \notin 1 .. n
      /\ \A i \in 1 .. n : t[i] = s[i] /\ s[i] \in NettedEvents
      /\ t[k] = event
  BY <1>0, <1>1
<1>3. IsFiniteSet(1 .. n)
  <2>1. 1 \in Int /\ n \in Int
    BY <1>0
  <2> QED
    BY <2>1, FS_Interval, Zenon
<1>4. PICK S, f, g : /\ S = 1 .. n /\ f = [i \in DOMAIN s |-> ToldBy(s[i], party)]
                     /\ g = [i \in DOMAIN t |-> ToldBy(t[i], party)]
  OBVIOUS
<1>5. DOMAIN f = S /\ (\A i \in S : f[i] = g[i]) /\ g[k] = ToldBy(event, party)
  BY <1>1, <1>2, <1>4
<1>6. g \in [S \cup {k} -> Int]
  <2>1. g = [i \in S \cup {k} |-> ToldBy(t[i], party)]
    BY <1>1, <1>2, <1>4
  <2>2. \A i \in S \cup {k} : t[i] \in NettedEvents
    BY <1>2, <1>4
  <2> QED
    BY <2>1, <2>2, ToldByIsWhole
<1>7. IsFiniteSet(S) /\ k \notin S
  BY <1>2, <1>3, <1>4
<1>8. /\ IsFiniteSet(DOMAIN f) /\ k \notin DOMAIN f /\ DOMAIN g = DOMAIN f \cup {k} /\ g[k] \in Int
      /\ \A y \in DOMAIN f : g[y] \in Int /\ f[y] = g[y]
  BY <1>5, <1>6, <1>7
<1>9. SumFunction(f) \in Int /\ SumFunction(g) = SumFunction(f) + g[k]
  BY <1>8, TotalExtends
<1> QED
  BY <1>1, <1>4, <1>5, <1>9 DEF TotalTold

\* What was told to a party is a number.
LEMMA ToldIsWhole ==
  ASSUME settlement_netted \in Seq(NettedEvents), NEW party
  PROVE  ToldTo(party) \in Int
<1>1. PICK s, f : s = settlement_netted /\ f = [i \in DOMAIN s |-> ToldBy(s[i], party)]
  OBVIOUS
<1>2. \A i \in DOMAIN s : f[i] \in Int
  BY <1>1, ToldByIsWhole
<1>3. IsFiniteSet(DOMAIN s)
  <2>1. 1 \in Int /\ Len(s) \in Int /\ DOMAIN s = 1 .. Len(s)
    BY <1>1
  <2>2. IsFiniteSet(1 .. Len(s))
    BY <2>1, FS_Interval, Zenon
  <2> QED
    BY <2>1, <2>2
<1>4. Amounts(f, DOMAIN s)
  BY <1>2, <1>3 DEF Amounts
<1>5. SumFunctionOnSet(f, DOMAIN s) \in Int
  BY <1>4, SumType
<1> QED
  BY <1>1, <1>5 DEF ToldTo, SumFunction

ClerkOK(c) ==
  \/ c = Resting
  \/ c \in [stage : {"wait", "fold"}, period : Months, at : {c.at}, netting_run_id : Nat,
            sets : SUBSET EntrySetIds]

ClerksType ==
  /\ clerk = [n \in Clerks |-> clerk[n]]
  /\ \A n \in Clerks : ClerkOK(clerk[n])

EventsType == settlement_netted \in Seq(NettedEvents)

\* Sets that were posted and netted are sets, and only finitely many are.
SetsOK ==
  /\ \A row \in posting \cup entry_sets : row.id \in EntrySetIds
  /\ IsFiniteSet(Posted) /\ Netted \subseteq Posted
  /\ \A n \in Clerks : clerk[n] # Resting => clerk[n].sets \subseteq Posted

\* A run that folds holds its sets alone.
HoldersOK ==
  \A n \in Clerks : clerk[n].stage = "fold" =>
    /\ clerk[n].sets \cap Netted = {}
    /\ \A m \in Clerks \ {n} : clerk[m].stage = "fold" => clerk[n].sets \cap clerk[m].sets = {}

\* Each event is of a run of its own, and no run is under way that has one.
RunsOK ==
  /\ runs \in Nat
  /\ \A i \in 1 .. Len(settlement_netted) :
       settlement_netted[i].netting_run_id \in 1 .. runs /\ OneEach(settlement_netted[i].positions)
  /\ \A i, j \in 1 .. Len(settlement_netted) :
       settlement_netted[i].netting_run_id = settlement_netted[j].netting_run_id => i = j
  /\ \A n \in Clerks : clerk[n] # Resting =>
       /\ clerk[n].netting_run_id \in 1 .. runs
       /\ \A i \in 1 .. Len(settlement_netted) : settlement_netted[i].netting_run_id # clerk[n].netting_run_id
       /\ \A m \in Clerks \ {n} : clerk[m] # Resting => clerk[m].netting_run_id # clerk[n].netting_run_id

NettingInv == ClerksType /\ EventsType /\ SetsOK /\ HoldersOK /\ RunsOK /\ NettingLosesNothing

LEMMA NettingInitially == NettingInit => NettingInv
<1> SUFFICES ASSUME NettingInit PROVE NettingInv
  OBVIOUS
<1>1. Posted = {} /\ Netted = {} /\ settlement_netted = <<>>
  BY DEF NettingInit, Posted, Netted
<1>2. NettingLosesNothing
  <2> SUFFICES ASSUME NEW party \in Parties
               PROVE  ToldTo(party) + SignedFor(party, Posted \ Netted) = livePosition(party)
    BY DEF NettingLosesNothing
  <2>1. ToldTo(party) = 0
    <3>1. DOMAIN [i \in DOMAIN settlement_netted |-> ToldBy(settlement_netted[i], party)] = {}
      BY <1>1
    <3> QED
      BY <3>1, TotalOfNothing DEF ToldTo
  <2>2. SignedFor(party, {}) \in Int
    BY FS_EmptySet, SignedType
  <2> QED
    BY <1>1, <2>1, <2>2 DEF livePosition
<1>3. SetsOK
  BY <1>1, FS_EmptySet DEF SetsOK, NettingInit
<1> QED
  BY <1>1, <1>2, <1>3 DEF NettingInit, NettingInv, ClerksType, ClerkOK, EventsType, HoldersOK, RunsOK, Resting

\* Posting a set, and committing it.
LEMMA PostingKept ==
  ASSUME NettingInv,
         (\E id \in EntrySetIds : BeginPosting(id)) \/ (\E row \in posting : CommitPosting(row)) \/ NextMonth
  PROVE  NettingInv'
<1>1. UNCHANGED <<clerk, netted_sets, settlement_netted, runs>>
  BY DEF BeginPosting, CommitPosting, NextMonth
<1>2. Netted' = Netted
  BY <1>1 DEF Netted
<1>3. /\ \A row \in (posting \cup entry_sets)' : row.id \in EntrySetIds
      /\ \E S \in SUBSET EntrySetIds : IsFiniteSet(S) /\ Posted' = Posted \cup S
  <2>1. CASE \E id \in EntrySetIds : BeginPosting(id)
    <3>1. PICK id \in EntrySetIds : BeginPosting(id)
      BY <2>1
    <3>2. posting' = posting \cup {[id |-> id, at |-> month]} /\ entry_sets' = entry_sets
      BY <3>1 DEF BeginPosting
    <3>3. Posted' = Posted \cup {}
      BY <3>2 DEF Posted
    <3>4. \A row \in (posting \cup entry_sets)' : row.id \in EntrySetIds
      BY <3>2 DEF NettingInv, SetsOK
    <3> QED
      BY <3>3, <3>4, FS_EmptySet
  <2>2. CASE \E row \in posting : CommitPosting(row)
    <3>1. PICK row \in posting : CommitPosting(row)
      BY <2>2
    <3>2. posting' = posting \ {row} /\ entry_sets' = entry_sets \cup {row} /\ row.id \in EntrySetIds
      BY <3>1 DEF CommitPosting, NettingInv, SetsOK
    <3>3. Posted' = Posted \cup {row.id}
      BY <3>2 DEF Posted
    <3>4. IsFiniteSet({row.id})
      BY FS_Singleton
    <3>5. \A r \in (posting \cup entry_sets)' : r.id \in EntrySetIds
      BY <3>2 DEF NettingInv, SetsOK
    <3> QED
      BY <3>2, <3>3, <3>4, <3>5
  <2>3. CASE NextMonth
    <3>1. posting' = posting /\ entry_sets' = entry_sets
      BY <2>3 DEF NextMonth
    <3>2. Posted' = Posted \cup {}
      BY <3>1 DEF Posted
    <3> QED
      BY <3>1, <3>2, FS_EmptySet DEF NettingInv, SetsOK
  <2> QED
    BY <2>1, <2>2, <2>3
<1>4. PICK S \in SUBSET EntrySetIds : IsFiniteSet(S) /\ Posted' = Posted \cup S
  BY <1>3
<1>5. Posted \subseteq EntrySetIds /\ Netted \subseteq Posted /\ IsFiniteSet(Posted)
  BY DEF Posted, NettingInv, SetsOK
<1>6. SetsOK'
  <2>1. IsFiniteSet(Posted')
    BY <1>4, <1>5, FS_Union
  <2> QED
    BY <1>1, <1>2, <1>3, <1>4, <2>1 DEF NettingInv, SetsOK
<1>7. NettingLosesNothing'
  <2> SUFFICES ASSUME NEW party \in Parties
               PROVE  ToldTo(party)' + SignedFor(party, Posted' \ Netted') = SignedFor(party, Posted')
    BY DEF NettingLosesNothing, livePosition, SignedFor, SignedOf, LinesOf, EntrySetIds, Parties
  <2>1. ToldTo(party)' = ToldTo(party)
    BY <1>1 DEF ToldTo, ToldBy
  <2>2. ToldTo(party) + SignedFor(party, Posted \ Netted) = SignedFor(party, Posted)
    BY DEF NettingInv, NettingLosesNothing, livePosition
  <2>3. PICK N, A, B : /\ N = Posted \ Netted /\ A = Posted /\ B = S \ Posted
    OBVIOUS
  <2>4. IsFiniteSet(N) /\ IsFiniteSet(A) /\ IsFiniteSet(B)
    BY <1>4, <1>5, <2>3, FS_Subset
  <2>5. N \cap B = {} /\ A \cap B = {} /\ Posted' \ Netted' = N \cup B /\ Posted' = A \cup B
    BY <1>2, <1>4, <1>5, <2>3
  <2>6. N \in SUBSET EntrySetIds /\ A \in SUBSET EntrySetIds /\ B \in SUBSET EntrySetIds
    BY <1>4, <1>5, <2>3
  <2>7. /\ SignedFor(party, N) \in Int /\ SignedFor(party, B) \in Int /\ SignedFor(party, A) \in Int
        /\ SignedFor(party, N \cup B) = SignedFor(party, N) + SignedFor(party, B)
        /\ SignedFor(party, A \cup B) = SignedFor(party, A) + SignedFor(party, B)
    BY <2>4, <2>5, <2>6, SignedSplits
  <2> QED
    <3>1. /\ SignedFor(party, Posted \ Netted) = SignedFor(party, N) /\ SignedFor(party, Posted) = SignedFor(party, A)
          /\ SignedFor(party, Posted' \ Netted') = SignedFor(party, N \cup B)
          /\ SignedFor(party, Posted') = SignedFor(party, A \cup B)
      BY <2>3, <2>5
    <3>2. PICK told \in Int : told = ToldTo(party)
      BY ToldIsWhole DEF NettingInv, EventsType
    <3> QED
      BY <2>1, <2>2, <2>7, <3>1, <3>2
<1> QED
  BY <1>1, <1>2, <1>6, <1>7 DEF NettingInv, ClerksType, EventsType, HoldersOK, RunsOK
\* A run that begins, or ends without an outcome, or claims its sets.
LEMMA ClerkStepKept ==
  ASSUME NettingInv, NEW n \in Clerks, NEW c, ClerkOK(c), c # Resting => c.sets \subseteq Posted,
         clerk' = [clerk EXCEPT ![n] = c], runs' \in Nat, runs' >= runs,
         UNCHANGED <<posting, entry_sets, netting_runs, netted_sets, settlement_netted>>,
         c # Resting =>
           /\ c.netting_run_id \in 1 .. runs'
           /\ \/ c.netting_run_id \notin 1 .. runs
              \/ clerk[n] # Resting /\ c.netting_run_id = clerk[n].netting_run_id,
         c.stage = "fold" =>
           /\ c.sets \cap Netted = {}
           /\ \A m \in Clerks \ {n} : clerk[m].stage = "fold" => c.sets \cap clerk[m].sets = {}
  PROVE  NettingInv'
<1>1. /\ \A m \in Clerks : clerk[m]' = IF m = n THEN c ELSE clerk[m]
      /\ clerk' = [m \in Clerks |-> clerk'[m]]
  BY DEF NettingInv, ClerksType
<1>2. Posted' = Posted /\ Netted' = Netted
  BY DEF Posted, Netted
<1>3. ClerksType'
  BY <1>1 DEF NettingInv, ClerksType
<1>4. SetsOK'
  BY <1>1, <1>2 DEF NettingInv, SetsOK
<1>5. HoldersOK'
  BY <1>1, <1>2 DEF NettingInv, HoldersOK
<1>6. RunsOK'
  <2>1. \A i \in 1 .. Len(settlement_netted) :
          settlement_netted[i].netting_run_id \in 1 .. runs' /\ OneEach(settlement_netted[i].positions)
    BY DEF NettingInv, RunsOK
  <2>2. ASSUME NEW m \in Clerks, clerk'[m] # Resting
        PROVE  /\ clerk'[m].netting_run_id \in 1 .. runs'
               /\ \A i \in 1 .. Len(settlement_netted) :
                    settlement_netted[i].netting_run_id # clerk'[m].netting_run_id
               /\ \A o \in Clerks \ {m} : clerk'[o] # Resting => clerk'[o].netting_run_id # clerk'[m].netting_run_id
    BY <1>1, <2>2 DEF NettingInv, RunsOK
  <2>3. UNCHANGED settlement_netted /\ runs' \in Nat
    OBVIOUS
  <2>4. \A i, j \in 1 .. Len(settlement_netted) :
          settlement_netted[i].netting_run_id = settlement_netted[j].netting_run_id => i = j
    BY DEF NettingInv, RunsOK
  <2> QED
    BY <2>1, <2>2, <2>3, <2>4 DEF RunsOK, OneEach
<1>7. NettingLosesNothing'
  <2> SUFFICES ASSUME NEW party \in Parties
               PROVE  ToldTo(party)' + SignedFor(party, Posted' \ Netted') = SignedFor(party, Posted')
    BY DEF NettingLosesNothing, livePosition, SignedFor, SignedOf, LinesOf, EntrySetIds, Parties
  <2>1. ToldTo(party)' = ToldTo(party)
    BY DEF ToldTo, ToldBy
  <2>2. ToldTo(party) + SignedFor(party, Posted \ Netted) = SignedFor(party, Posted)
    BY DEF NettingInv, NettingLosesNothing, livePosition
  <2> QED
    BY <1>2, <2>1, <2>2
<1>8. EventsType'
  BY DEF NettingInv, EventsType
<1> QED
  BY <1>3, <1>4, <1>5, <1>6, <1>7, <1>8 DEF NettingInv

\* What a clerk does before it commits, or gives up, is kept.
LEMMA ClerksKept ==
  ASSUME NettingInv, NEW n \in Clerks,
         (\E period \in Months : BeginNetting(n, period)) \/ ClaimSets(n) \/ AbortNetting(n)
  PROVE  NettingInv'
<1>1. clerk = [m \in Clerks |-> clerk[m]] /\ ClerkOK(clerk[n])
  BY DEF NettingInv, ClerksType
<1>2. CASE \E period \in Months : BeginNetting(n, period)
  <2>1. PICK period \in Months : BeginNetting(n, period)
    BY <1>2
  <2>2. PICK c : c = [stage |-> "wait", period |-> period, at |-> month,
                      netting_run_id |-> runs + 1, sets |-> Posted \ Netted]
    OBVIOUS
  <2>3. clerk' = [clerk EXCEPT ![n] = c] /\ runs' = runs + 1 /\ runs \in Nat
    BY <2>1, <2>2 DEF BeginNetting, NettingInv, RunsOK
  <2>4. Posted \subseteq EntrySetIds
    BY DEF NettingInv, SetsOK, Posted
  <2>5. ClerkOK(c) /\ c.sets \subseteq Posted /\ c # Resting
    BY <2>2, <2>3, <2>4 DEF ClerkOK, Resting
  <2>6. c.netting_run_id \in 1 .. runs' /\ c.netting_run_id \notin 1 .. runs /\ c.stage # "fold"
    BY <2>2, <2>3
  <2>7. UNCHANGED <<posting, entry_sets, netting_runs, netted_sets, settlement_netted>>
    BY <2>1 DEF BeginNetting
  <2>8. runs' \in Nat /\ runs' >= runs
    BY <2>3
  <2> QED
    BY <2>3, <2>5, <2>6, <2>7, <2>8, ClerkStepKept
<1>3. CASE ClaimSets(n)
  <2>1. clerk[n].stage = "wait" /\ clerk[n] # Resting
    BY <1>3 DEF ClaimSets, Resting
  <2>2. PICK c : c = [clerk[n] EXCEPT !.stage = "fold", !.sets = @ \ Netted]
    OBVIOUS
  <2>3. clerk[n] \in [stage : {"wait", "fold"}, period : Months, at : {clerk[n].at}, netting_run_id : Nat,
                      sets : SUBSET EntrySetIds]
    BY <1>1, <2>1 DEF ClerkOK
  <2>4. /\ c.stage = "fold" /\ c.at = clerk[n].at /\ c.netting_run_id = clerk[n].netting_run_id
        /\ c.sets = clerk[n].sets \ Netted
        /\ c \in [stage : {"wait", "fold"}, period : Months, at : {c.at}, netting_run_id : Nat,
                  sets : SUBSET EntrySetIds]
    BY <2>2, <2>3
  <2>5. clerk' = [clerk EXCEPT ![n] = c] /\ UNCHANGED <<posting, entry_sets, netting_runs, netted_sets,
                 settlement_netted, runs>>
    BY <1>1, <1>3, <2>2 DEF ClaimSets
  <2>6. ClerkOK(c) /\ c # Resting /\ c.sets \subseteq Posted
    BY <2>1, <2>4 DEF ClerkOK, Resting, NettingInv, SetsOK
  <2>7. \A m \in Clerks \ {n} : clerk[m].stage = "fold" => c.sets \cap clerk[m].sets = {}
    BY <1>3, <2>4 DEF ClaimSets, HeldBy
  <2>8. c.netting_run_id \in 1 .. runs' /\ runs' \in Nat /\ runs' >= runs
    BY <2>1, <2>4, <2>5 DEF NettingInv, RunsOK
  <2> QED
    BY <2>1, <2>4, <2>5, <2>6, <2>7, <2>8, ClerkStepKept
<1>4. CASE AbortNetting(n)
  <2>1. clerk' = [clerk EXCEPT ![n] = Resting] /\ UNCHANGED <<posting, entry_sets, netting_runs, netted_sets,
                 settlement_netted, runs>>
    BY <1>4 DEF AbortNetting
  <2>2. ClerkOK(Resting) /\ Resting.stage # "fold"
    BY DEF ClerkOK, Resting
  <2>3. runs' \in Nat /\ runs' >= runs
    BY <2>1 DEF NettingInv, RunsOK
  <2> QED
    BY <2>1, <2>2, <2>3, ClerkStepKept
<1> QED
  BY <1>2, <1>3, <1>4

\* The commit of a run: what the parties were told grows by what was un-netted no more.
LEMMA CommitKept ==
  ASSUME NettingInv, NEW n \in Clerks, CommitNetting(n)
  PROVE  NettingInv'
<1>1. PICK c : c = clerk[n]
  OBVIOUS
<1>2. /\ c.stage = "fold" /\ c # Resting /\ ClerkOK(c)
      /\ clerk = [m \in Clerks |-> clerk[m]]
  BY <1>1 DEF CommitNetting, NettingInv, ClerksType, Resting
<1>3. PICK event : event = [netting_run_id |-> c.netting_run_id, period |-> c.period,
                            positions |-> foldPositions(c.sets)]
  OBVIOUS
<1>4. /\ settlement_netted' = Append(settlement_netted, event)
      /\ netted_sets' = netted_sets \cup {[entry_set_id |-> id, netting_run_id |-> c.netting_run_id] : id \in c.sets}
      /\ clerk' = [clerk EXCEPT ![n] = Resting]
      /\ UNCHANGED <<posting, entry_sets, runs>>
  BY <1>1, <1>3 DEF CommitNetting
<1>5. /\ Posted \subseteq EntrySetIds /\ IsFiniteSet(Posted) /\ Netted \subseteq Posted
      /\ c.sets \subseteq Posted /\ c.sets \cap Netted = {}
  BY <1>1, <1>2 DEF NettingInv, SetsOK, HoldersOK, Posted
<1>6. c.sets \in SUBSET EntrySetIds /\ IsFiniteSet(c.sets) /\ IsFiniteSet(Posted \ (Netted \cup c.sets))
  BY <1>5, FS_Subset
<1>7. /\ foldPositions(c.sets) \in Seq(Positions) /\ OneEach(foldPositions(c.sets))
  BY <1>6, FoldIs
<1>8. event \in NettedEvents /\ OneEach(event.positions)
  <2>1. c.netting_run_id \in Nat /\ c.period \in Months
    BY <1>2 DEF ClerkOK
  <2> QED
    BY <1>3, <1>7, <2>1 DEF NettedEvents
<1>9. Posted' = Posted /\ Netted' = Netted \cup c.sets
  <2>1. Posted' = Posted
    BY <1>4 DEF Posted
  <2>2. PICK S, run, old : S = c.sets /\ run = c.netting_run_id /\ old = netted_sets
    OBVIOUS
  <2>3. netted_sets' = old \cup {[entry_set_id |-> id, netting_run_id |-> run] : id \in S}
    BY <1>4, <2>2
  <2>4. {row.entry_set_id : row \in netted_sets'} = {row.entry_set_id : row \in old} \cup S
    <3>1. PICK more : more = {[entry_set_id |-> id, netting_run_id |-> run] : id \in S}
      OBVIOUS
    <3>2. \A row \in more : row.entry_set_id \in S
      BY <3>1
    <3>3. \A id \in S : \E row \in more : row.entry_set_id = id
      <4> SUFFICES ASSUME NEW id \in S PROVE \E row \in more : row.entry_set_id = id
        OBVIOUS
      <4>1. [entry_set_id |-> id, netting_run_id |-> run] \in more
        BY <3>1
      <4> QED
        BY <4>1
    <3>4. netted_sets' = old \cup more
      BY <2>3, <3>1
    <3> QED
      BY <3>2, <3>3, <3>4
  <2> QED
    BY <2>1, <2>2, <2>4 DEF Netted
<1>10. \A m \in Clerks : clerk'[m] = IF m = n THEN Resting ELSE clerk[m]
  BY <1>2, <1>4
<1>11. ClerksType'
  <2>1. clerk' = [m \in Clerks |-> clerk'[m]]
    BY <1>2, <1>4
  <2> QED
    BY <1>10, <2>1 DEF NettingInv, ClerksType, ClerkOK
<1>12. EventsType'
  BY <1>4, <1>8 DEF NettingInv, EventsType
<1>13. SetsOK'
  BY <1>4, <1>5, <1>9, <1>10 DEF NettingInv, SetsOK
<1>14. HoldersOK'
  <2>1. \A m \in Clerks \ {n} : clerk[m].stage = "fold" => clerk[m].sets \cap c.sets = {}
    BY <1>1, <1>2 DEF NettingInv, HoldersOK
  <2> QED
    BY <1>9, <1>10, <2>1 DEF NettingInv, HoldersOK, Resting
<1>15. RunsOK'
  <2>0. PICK s, t : s = settlement_netted /\ t = settlement_netted'
    OBVIOUS
  <2>1. /\ s \in Seq(NettedEvents) /\ t = Append(s, event) /\ Len(t) = Len(s) + 1 /\ Len(s) \in Nat
        /\ \A i \in 1 .. Len(t) : t[i] = IF i = Len(t) THEN event ELSE s[i]
    BY <1>4, <1>8, <2>0 DEF NettingInv, EventsType
  <2>2. /\ c.netting_run_id \in 1 .. runs /\ event.netting_run_id = c.netting_run_id
        /\ \A i \in 1 .. Len(s) : s[i].netting_run_id # c.netting_run_id
        /\ \A m \in Clerks \ {n} : clerk[m] # Resting => clerk[m].netting_run_id # c.netting_run_id
    BY <1>1, <1>2, <1>3, <2>0 DEF NettingInv, RunsOK
  <2>3. \A i \in 1 .. Len(t) : t[i].netting_run_id \in 1 .. runs /\ OneEach(t[i].positions)
    BY <1>8, <2>0, <2>1, <2>2 DEF NettingInv, RunsOK
  <2>4. \A i, j \in 1 .. Len(t) : t[i].netting_run_id = t[j].netting_run_id => i = j
    <3>1. \A i, j \in 1 .. Len(s) : s[i].netting_run_id = s[j].netting_run_id => i = j
      BY <2>0 DEF NettingInv, RunsOK
    <3> QED
      BY <2>1, <2>2, <3>1
  <2>5. ASSUME NEW m \in Clerks, clerk'[m] # Resting
        PROVE  /\ clerk'[m].netting_run_id \in 1 .. runs
               /\ \A i \in 1 .. Len(t) : t[i].netting_run_id # clerk'[m].netting_run_id
               /\ \A o \in Clerks \ {m} : clerk'[o] # Resting => clerk'[o].netting_run_id # clerk'[m].netting_run_id
    <3>1. m # n /\ clerk'[m] = clerk[m]
      BY <1>10, <2>5
    <3>2. /\ clerk[m].netting_run_id \in 1 .. runs
          /\ \A i \in 1 .. Len(s) : s[i].netting_run_id # clerk[m].netting_run_id
          /\ \A o \in Clerks \ {m} : clerk[o] # Resting => clerk[o].netting_run_id # clerk[m].netting_run_id
      BY <2>0, <2>5, <3>1 DEF NettingInv, RunsOK
    <3> QED
      BY <1>10, <2>1, <2>2, <2>5, <3>1, <3>2
  <2> QED
    BY <1>4, <2>0, <2>3, <2>4, <2>5 DEF NettingInv, RunsOK, OneEach
<1>16. NettingLosesNothing'
  <2> SUFFICES ASSUME NEW party \in Parties
               PROVE  ToldTo(party)' + SignedFor(party, Posted' \ Netted') = SignedFor(party, Posted')
    BY DEF NettingLosesNothing, livePosition, SignedFor, SignedOf, LinesOf, EntrySetIds, Parties
  <2>1. ToldTo(party)' = ToldTo(party) + SignedFor(party, c.sets) /\ ToldTo(party) \in Int
    <3>1. settlement_netted \in Seq(NettedEvents)
      BY DEF NettingInv, EventsType
    <3>2. TotalTold(settlement_netted, party) \in Int /\ TotalTold(Append(settlement_netted, event), party) =
            TotalTold(settlement_netted, party) + ToldBy(event, party)
      BY <1>8, <3>1, ToldGrows
    <3>3. ToldBy(event, party) = SignedFor(party, c.sets)
      BY <1>3, <1>6, FoldTells
    <3>4. ToldTo(party) = TotalTold(settlement_netted, party)
      BY DEF ToldTo, TotalTold
    <3>5. ToldTo(party)' = TotalTold(settlement_netted', party)
      BY DEF ToldTo, TotalTold, ToldBy
    <3> QED
      BY <1>4, <3>2, <3>3, <3>4, <3>5
  <2>2. PICK N : N = Posted \ (Netted \cup c.sets)
    OBVIOUS
  <2>3. /\ Posted' \ Netted' = N /\ Posted' = Posted /\ Posted \ Netted = N \cup c.sets
        /\ N \cap c.sets = {} /\ N \in SUBSET EntrySetIds /\ IsFiniteSet(N)
    BY <1>5, <1>6, <1>9, <2>2
  <2>4. /\ SignedFor(party, N) \in Int /\ SignedFor(party, c.sets) \in Int
        /\ SignedFor(party, N \cup c.sets) = SignedFor(party, N) + SignedFor(party, c.sets)
    BY <1>6, <2>3, SignedSplits
  <2>5. ToldTo(party) + SignedFor(party, Posted \ Netted) = SignedFor(party, Posted)
    BY DEF NettingInv, NettingLosesNothing, livePosition
  <2> QED
    <3>1. ToldTo(party) + SignedFor(party, N \cup c.sets) = SignedFor(party, Posted)
      BY <2>3, <2>5
    <3>2. SignedFor(party, Posted' \ Netted') = SignedFor(party, N) /\ SignedFor(party, Posted') = SignedFor(party, Posted)
      BY <2>3
    <3> QED
      BY <2>1, <2>4, <3>1, <3>2
<1> QED
  BY <1>11, <1>12, <1>13, <1>14, <1>15, <1>16 DEF NettingInv
-----------------------------------------------------------------------------
(* Payouts.                                                                *)

Events == 1 .. Len(settlement_netted)
PositionsOf(i) == 1 .. Len(settlement_netted[i].positions)
PartyOf(i, j) == settlement_netted[i].positions[j].party
KeyOf(i, j) == [netting_run_id |-> settlement_netted[i].netting_run_id, party |-> PartyOf(i, j)]
AmountOf(i, j) == Size(settlement_netted[i].positions[j].signed)

\* Where a worker stands: at a position of an event or, between two of
\* them, behind the last.
Placed(c) ==
  /\ c \in [stage : {"next", "account", "pin", "transfer", "record", "enrich"}, seq : Events, index : Nat \ {0}]
  /\ c.index <= Len(settlement_netted[c.seq].positions) + 1
  /\ c.stage # "next" => c.index \in PositionsOf(c.seq)

\* A table has a row for no key but that of a position, one at most, of its amount.
Paying(rows) ==
  /\ \A row \in rows : \E i \in Events : \E j \in PositionsOf(i) :
       row.key = KeyOf(i, j) /\ row.amount = AmountOf(i, j)
  /\ \A row, other \in rows : row.key = other.key => row = other

StripeKnows(party) == rail = "stripe" => \E account \in stripe_accounts : account.key = party
HasTransfer(key) == rail = "stripe" => \E row \in transfers : row.key = key

Done(i, j) ==
  /\ \E row \in payout_statements : row.key = KeyOf(i, j) /\ row.enriched
  /\ PartyOf(i, j) \in payout_accounts
  /\ HasTransfer(KeyOf(i, j))

DoneTo(last) == \A i \in Events : i <= last => \A j \in PositionsOf(i) : Done(i, j)

\* What a worker at c has behind it is done,
Behind(c) ==
  /\ DoneTo(c.seq - 1)
  /\ \A j \in PositionsOf(c.seq) : j < c.index => Done(c.seq, j)

\* and of the position it stands at the part that its stage comes after.
Reached(c) ==
  /\ c.stage = "pin" => StripeKnows(PartyOf(c.seq, c.index))
  /\ c.stage \in {"transfer", "record", "enrich"} => PartyOf(c.seq, c.index) \in payout_accounts
  /\ c.stage \in {"record", "enrich"} => HasTransfer(KeyOf(c.seq, c.index))
  /\ c.stage = "enrich" => HasStatement(KeyOf(c.seq, c.index))

WorkersOK ==
  /\ worker = [w \in PayoutWorkers |-> worker[w]]
  /\ \A w \in PayoutWorkers : worker[w] # Waiting =>
       Placed(worker[w]) /\ Behind(worker[w]) /\ Reached(worker[w])

StatementsType ==
  \A row \in payout_statements : row \in [key : {row.key}, amount : {row.amount}, enriched : BOOLEAN]

TablesOK ==
  /\ StatementsType /\ Paying(transfers) /\ Paying(payout_statements)
  /\ \A party \in payout_accounts : StripeKnows(party)

CursorOK == last_seq \in 0 .. Len(settlement_netted) /\ DoneTo(last_seq)

PayoutsInv == NettingInv /\ WorkersOK /\ TablesOK /\ CursorOK

LEMMA PayoutsInitially == Init => PayoutsInv
<1> SUFFICES ASSUME Init PROVE PayoutsInv
  OBVIOUS
<1>1. NettingInv
  BY NettingInitially DEF Init
<1>2. settlement_netted = <<>> /\ Events = {}
  BY DEF Init, NettingInit, Events
<1>3. WorkersOK /\ TablesOK /\ CursorOK
  BY <1>2 DEF Init, PayoutsInit, WorkersOK, TablesOK, StatementsType, CursorOK, Paying, DoneTo
<1> QED
  BY <1>1, <1>3 DEF PayoutsInv

\* What is done stays done as long as the tables lose nothing.
Keeping ==
  /\ UNCHANGED rail
  /\ \A row \in payout_statements : \E other \in payout_statements' :
       other.key = row.key /\ (row.enriched => other.enriched)
  /\ payout_accounts \subseteq payout_accounts'
  /\ transfers \subseteq transfers'
  /\ stripe_accounts \subseteq stripe_accounts'

\* What is done for a position stays done ...
LEMMA DoneStays ==
  ASSUME Keeping, NEW i, NEW j, settlement_netted'[i] = settlement_netted[i]
  PROVE  Done(i, j) => Done(i, j)'
<1>1. PartyOf(i, j)' = PartyOf(i, j) /\ KeyOf(i, j)' = KeyOf(i, j)
  BY DEF PartyOf, KeyOf
<1> QED
  BY <1>1 DEF Keeping, Done, HasTransfer

\* ... and what a worker has reached stays reached.
LEMMA ReachedStays ==
  ASSUME Keeping, NEW c, settlement_netted'[c.seq] = settlement_netted[c.seq]
  PROVE  Reached(c) => Reached(c)'
<1>1. PartyOf(c.seq, c.index)' = PartyOf(c.seq, c.index) /\ KeyOf(c.seq, c.index)' = KeyOf(c.seq, c.index)
  BY DEF PartyOf, KeyOf
<1> QED
  BY <1>1 DEF Keeping, Reached, HasTransfer, HasStatement, StripeKnows

\* The ledger only grows, and the payouts it names stay what they are.
LEMMA LedgerGrows ==
  ASSUME PayoutsInv, NettingInv', UNCHANGED payouts,
         settlement_netted' = settlement_netted \/ \E event : settlement_netted' = Append(settlement_netted, event)
  PROVE  PayoutsInv'
<1>0. PICK s, t : s = settlement_netted /\ t = settlement_netted'
  OBVIOUS
<1>1. Len(s) \in Nat /\ Len(t) \in Nat /\ Len(s) <= Len(t) /\ \A i \in 1 .. Len(s) : t[i] = s[i]
  BY <1>0 DEF PayoutsInv, NettingInv, EventsType
<1>2. Keeping /\ UNCHANGED <<worker, last_seq, payout_accounts, payout_statements, transfers, stripe_accounts, rail>>
  BY DEF Keeping, payouts, stripe
<1>3. /\ Events = 1 .. Len(s) /\ Events' = 1 .. Len(t) /\ Events \subseteq Events'
      /\ \A i \in Events : settlement_netted'[i] = settlement_netted[i]
  BY <1>0, <1>1 DEF Events
<1>4. \A i \in Events : PositionsOf(i)' = PositionsOf(i)
  BY <1>3 DEF PositionsOf
<1>5. \A i \in Events : \A j : Done(i, j) => Done(i, j)'
  BY <1>2, <1>3, DoneStays
<1>6. ASSUME NEW last \in 0 .. Len(s), DoneTo(last) PROVE DoneTo(last)'
  <2> SUFFICES ASSUME NEW i \in Events', i <= last, NEW j \in PositionsOf(i)' PROVE Done(i, j)'
    BY DEF DoneTo
  <2>1. i \in Events
    BY <1>1, <1>3
  <2> QED
    BY <1>4, <1>5, <1>6, <2>1 DEF DoneTo
<1>7. WorkersOK'
  <2>1. worker' = [w \in PayoutWorkers |-> worker'[w]]
    BY <1>2 DEF PayoutsInv, WorkersOK
  <2>2. ASSUME NEW w \in PayoutWorkers, worker[w] # Waiting
        PROVE  Placed(worker[w])' /\ Behind(worker[w])' /\ Reached(worker[w])'
    <3>1. PICK c : c = worker[w] /\ c = worker'[w]
      BY <1>2
    <3>2. Placed(c) /\ Behind(c) /\ Reached(c) /\ c.seq \in Events
      BY <2>2, <3>1 DEF PayoutsInv, WorkersOK, Placed
    <3>3. Placed(c)'
      BY <1>3, <1>4, <3>2 DEF Placed
    <3>4. Reached(c)'
      BY <1>2, <1>3, <3>2, ReachedStays
    <3>5. DoneTo(c.seq - 1)'
      <4>1. c.seq - 1 \in 0 .. Len(s) /\ DoneTo(c.seq - 1)
        BY <1>3, <3>2 DEF Behind
      <4> QED
        BY <1>6, <4>1
    <3>6. Behind(c)'
      BY <1>4, <1>5, <3>2, <3>5 DEF Behind
    <3> QED
      BY <3>1, <3>3, <3>4, <3>6
  <2> QED
    BY <1>2, <2>1, <2>2 DEF WorkersOK
<1>8. \A i \in Events : \A j : KeyOf(i, j)' = KeyOf(i, j) /\ AmountOf(i, j)' = AmountOf(i, j)
  BY <1>3 DEF KeyOf, PartyOf, AmountOf
<1>9. ASSUME NEW rows, Paying(rows) PROVE Paying(rows)'
  BY <1>3, <1>4, <1>8, <1>9 DEF Paying
<1>10. TablesOK'
  <2>1. Paying(transfers)' /\ Paying(payout_statements)'
    BY <1>2, <1>9 DEF PayoutsInv, TablesOK
  <2> QED
    BY <1>2, <2>1 DEF PayoutsInv, TablesOK, StatementsType, StripeKnows
<1>11. CursorOK'
  <2>1. PICK last : last = last_seq /\ last = last_seq'
    BY <1>2
  <2>2. last \in 0 .. Len(s) /\ DoneTo(last)
    BY <1>0, <2>1 DEF PayoutsInv, CursorOK
  <2>3. DoneTo(last)' /\ last \in 0 .. Len(t)
    BY <1>1, <1>6, <2>2
  <2> QED
    BY <1>0, <2>1, <2>3 DEF CursorOK
<1> QED
  BY <1>7, <1>10, <1>11 DEF PayoutsInv

\* Payouts leave netting alone.
LEMMA NettingStays ==
  ASSUME NettingInv, UNCHANGED netting
  PROVE  NettingInv'
<1>1. UNCHANGED <<month, posting, entry_sets, clerk, netting_runs, netted_sets, settlement_netted, runs>>
  BY DEF netting
<1>2. Posted' = Posted /\ Netted' = Netted
  BY <1>1 DEF Posted, Netted
<1>3. NettingLosesNothing'
  <2> SUFFICES ASSUME NEW party \in Parties
               PROVE  ToldTo(party)' + SignedFor(party, Posted' \ Netted') = SignedFor(party, Posted')
    BY DEF NettingLosesNothing, livePosition, SignedFor, SignedOf, LinesOf, EntrySetIds, Parties
  <2>1. ToldTo(party)' = ToldTo(party)
    BY <1>1 DEF ToldTo, ToldBy
  <2>2. ToldTo(party) + SignedFor(party, Posted \ Netted) = SignedFor(party, Posted)
    BY DEF NettingInv, NettingLosesNothing, livePosition
  <2> QED
    BY <1>2, <2>1, <2>2
<1>4. ClerksType' /\ EventsType' /\ HoldersOK'
  BY <1>1, <1>2 DEF NettingInv, ClerksType, EventsType, HoldersOK
<1>5. SetsOK'
  BY <1>1, <1>2 DEF NettingInv, SetsOK
<1>6. RunsOK'
  BY <1>1 DEF NettingInv, RunsOK, OneEach
<1> QED
  BY <1>3, <1>4, <1>5, <1>6 DEF NettingInv

\* One worker moves.
LEMMA WorkerMoves ==
  ASSUME PayoutsInv, NEW w \in PayoutWorkers, NEW c, worker' = [worker EXCEPT ![w] = c], UNCHANGED netting,
         Keeping, TablesOK',
         last_seq' = last_seq \/ (last_seq' \in Events /\ DoneTo(last_seq')),
         c # Waiting =>
           /\ Placed(c) /\ DoneTo(c.seq - 1) /\ Reached(c)'
           /\ \A j \in PositionsOf(c.seq) : j < c.index => Done(c.seq, j) \/ Done(c.seq, j)'
  PROVE  PayoutsInv'
<1>1. UNCHANGED settlement_netted /\ UNCHANGED Events
  BY DEF netting, Events
<1>2. \A i : PositionsOf(i)' = PositionsOf(i)
  BY <1>1 DEF PositionsOf
<1>3. \A i, j : Done(i, j) => Done(i, j)'
  BY <1>1, DoneStays
<1>4. ASSUME NEW last, DoneTo(last) PROVE DoneTo(last)'
  BY <1>1, <1>2, <1>3, <1>4 DEF DoneTo
<1>5. \A d : Placed(d)' <=> Placed(d)
  BY <1>1 DEF Placed, Events, PositionsOf
<1>6. WorkersOK'
  <2>1. \A v \in PayoutWorkers : worker'[v] = IF v = w THEN c ELSE worker[v]
    BY DEF PayoutsInv, WorkersOK
  <2>2. worker' = [v \in PayoutWorkers |-> worker'[v]]
    BY DEF PayoutsInv, WorkersOK
  <2>3. ASSUME NEW v \in PayoutWorkers, worker'[v] # Waiting
        PROVE  Placed(worker[v])' /\ Behind(worker[v])' /\ Reached(worker[v])'
    <3>1. PICK d : d = worker'[v]
      OBVIOUS
    <3>2. CASE v = w
      <4>1. d = c /\ d # Waiting
        BY <2>1, <2>3, <3>1, <3>2
      <4>2. Placed(d)' /\ Reached(d)' /\ DoneTo(d.seq - 1)'
        BY <1>4, <1>5, <4>1
      <4>3. Behind(d)'
        BY <1>2, <1>3, <4>1, <4>2 DEF Behind
      <4> QED
        BY <3>1, <4>2, <4>3
    <3>3. CASE v # w
      <4>1. d = worker[v] /\ d # Waiting
        BY <2>1, <2>3, <3>1, <3>3
      <4>2. Placed(d) /\ Behind(d) /\ Reached(d)
        BY <4>1 DEF PayoutsInv, WorkersOK
      <4>3. Placed(d)' /\ Reached(d)'
        BY <1>1, <1>5, <4>2, ReachedStays
      <4>4. DoneTo(d.seq - 1)'
        BY <1>4, <4>2 DEF Behind
      <4>5. Behind(d)'
        BY <1>2, <1>3, <4>2, <4>4 DEF Behind
      <4> QED
        BY <3>1, <4>3, <4>5
    <3> QED
      BY <3>2, <3>3
  <2> QED
    BY <2>2, <2>3 DEF WorkersOK
<1>7. CursorOK'
  <2>1. PICK last : last = last_seq'
    OBVIOUS
  <2>2. last \in 0 .. Len(settlement_netted) /\ DoneTo(last)
    <3>1. CASE last_seq' = last_seq
      BY <2>1, <3>1 DEF PayoutsInv, CursorOK
    <3>2. CASE last_seq' \in Events /\ DoneTo(last_seq')
      <4>1. last \in Events /\ DoneTo(last)
        BY <2>1, <3>2
      <4> QED
        BY <4>1 DEF Events, PayoutsInv, NettingInv, EventsType
    <3> QED
      BY <3>1, <3>2
  <2>3. DoneTo(last)'
    BY <1>4, <2>2
  <2> QED
    BY <1>1, <2>1, <2>2, <2>3 DEF CursorOK
<1>8. NettingInv'
  BY NettingStays DEF PayoutsInv
<1> QED
  BY <1>6, <1>7, <1>8 DEF PayoutsInv
\* Where a worker stands, and the position it is at.
LEMMA WorkerIs ==
  ASSUME PayoutsInv, NEW w \in PayoutWorkers, worker[w].stage # "idle"
  PROVE  /\ worker[w] # Waiting /\ Placed(worker[w]) /\ Behind(worker[w]) /\ Reached(worker[w])
         /\ worker = [v \in PayoutWorkers |-> worker[v]]
         /\ PositionOf(w).party = PartyOf(worker[w].seq, worker[w].index)
         /\ IdempotencyKey(w) = KeyOf(worker[w].seq, worker[w].index)
         /\ Size(PositionOf(w).signed) = AmountOf(worker[w].seq, worker[w].index)
<1>1. worker[w] # Waiting
  BY DEF Waiting
<1>2. Placed(worker[w]) /\ Behind(worker[w]) /\ Reached(worker[w]) /\ worker = [v \in PayoutWorkers |-> worker[v]]
  BY <1>1 DEF PayoutsInv, WorkersOK
<1>3. PositionOf(w) = settlement_netted[worker[w].seq].positions[worker[w].index]
  BY DEF PositionOf, EventOf
<1>4. IdempotencyKey(w) = KeyOf(worker[w].seq, worker[w].index)
  BY <1>3 DEF IdempotencyKey, KeyOf, PartyOf, EventOf
<1> QED
  BY <1>1, <1>2, <1>3, <1>4 DEF PartyOf, AmountOf

\* A netted event has a sequence of positions.
LEMMA EventIs ==
  ASSUME PayoutsInv, NEW i \in Events
  PROVE  settlement_netted[i].positions \in Seq(Positions) /\ Len(settlement_netted[i].positions) \in Nat
<1>1. settlement_netted[i] \in NettedEvents
  BY DEF PayoutsInv, NettingInv, EventsType, Events
<1> QED
  BY <1>1 DEF NettedEvents

\* A worker goes on to another stage of the position it is at.
LEMMA Onwards ==
  ASSUME PayoutsInv, NEW w \in PayoutWorkers, worker[w].stage # "idle", NEW stage \in {"account", "pin", "transfer", "record", "enrich"},
         worker[w].index \in PositionsOf(worker[w].seq), Advance(w, stage), UNCHANGED <<netting, last_seq>>,
         Keeping, TablesOK', NEW c, c = [worker[w] EXCEPT !.stage = stage], Reached(c)'
  PROVE  PayoutsInv'
<1>2. /\ Placed(worker[w]) /\ Behind(worker[w]) /\ worker = [v \in PayoutWorkers |-> worker[v]]
  BY WorkerIs
<1>3. /\ c.seq = worker[w].seq /\ c.index = worker[w].index /\ c.stage = stage
      /\ c \in [stage : {"next", "account", "pin", "transfer", "record", "enrich"}, seq : Events, index : Nat \ {0}]
  BY <1>2 DEF Placed
<1>4. Placed(c) /\ DoneTo(c.seq - 1) /\ \A j \in PositionsOf(c.seq) : j < c.index => Done(c.seq, j)
  BY <1>2, <1>3 DEF Placed, Behind
<1>5. worker' = [worker EXCEPT ![w] = c]
  BY <1>2 DEF Advance
<1> QED
  BY <1>4, <1>5, WorkerMoves

\* A row is made for a position that has none.
LEMMA RowAdded ==
  ASSUME NEW rows, Paying(rows), UNCHANGED settlement_netted,
         NEW i \in Events, NEW j \in PositionsOf(i), NEW row, row.key = KeyOf(i, j), row.amount = AmountOf(i, j),
         \A other \in rows : other.key # KeyOf(i, j)
  PROVE  Paying(rows \cup {row})'
<1>1. Paying(rows \cup {row})
  BY DEF Paying
<1> QED
  BY <1>1 DEF Paying, Events, PositionsOf, KeyOf, PartyOf, AmountOf

\* What is paid for stays so.
LEMMA RowsStay ==
  ASSUME NEW rows, Paying(rows), UNCHANGED settlement_netted
  PROVE  Paying(rows)'
BY DEF Paying, Events, PositionsOf, KeyOf, PartyOf, AmountOf

\* Inserting a statement row, or finding it there, leaves one.
LEMMA InsertedIs ==
  ASSUME PayoutsInv, UNCHANGED settlement_netted, NEW i \in Events, NEW j \in PositionsOf(i),
         payout_statements' = Inserted(KeyOf(i, j), AmountOf(i, j))
  PROVE  /\ StatementsType' /\ Paying(payout_statements)'
         /\ payout_statements \subseteq payout_statements' /\ HasStatement(KeyOf(i, j))'
<1>1. Paying(payout_statements) /\ StatementsType
  BY DEF PayoutsInv, TablesOK
<1>2. PICK key, amount : key = KeyOf(i, j) /\ amount = AmountOf(i, j)
  OBVIOUS
<1>3. KeyOf(i, j)' = key
  BY <1>2 DEF KeyOf, PartyOf
<1>4. CASE HasStatement(key)
  <2>1. payout_statements' = payout_statements
    BY <1>2, <1>4 DEF Inserted
  <2> QED
    BY <1>1, <1>3, <1>4, <2>1, RowsStay DEF HasStatement, StatementsType
<1>5. CASE ~HasStatement(key)
  <2>1. PICK rows, row : rows = payout_statements /\ row = [key |-> key, amount |-> amount, enriched |-> FALSE]
    OBVIOUS
  <2>2. payout_statements' = rows \cup {row}
    BY <1>2, <1>5, <2>1 DEF Inserted
  <2>3. row.key = KeyOf(i, j) /\ row.amount = AmountOf(i, j) /\ \A other \in rows : other.key # KeyOf(i, j)
    BY <1>2, <1>5, <2>1 DEF HasStatement
  <2>4. Paying(rows \cup {row})'
    BY <1>1, <2>1, <2>3, RowAdded
  <2>5. StatementsType'
    <3>1. row \in [key : {row.key}, amount : {row.amount}, enriched : BOOLEAN]
      BY <2>1
    <3> QED
      BY <1>1, <2>1, <2>2, <3>1 DEF StatementsType
  <2> QED
    BY <1>2, <1>3, <2>1, <2>2, <2>3, <2>4, <2>5 DEF HasStatement
<1> QED
  BY <1>4, <1>5

\* Stripe has a transfer for a position after it was asked for one.
LEMMA PostedIs ==
  ASSUME PayoutsInv, UNCHANGED settlement_netted, NEW i \in Events, NEW j \in PositionsOf(i),
         transfers' = Post(transfers, KeyOf(i, j), AmountOf(i, j))
  PROVE  Paying(transfers)' /\ transfers \subseteq transfers' /\ HasTransfer(KeyOf(i, j))'
<1>1. Paying(transfers)
  BY DEF PayoutsInv, TablesOK
<1>2. PICK key, amount : key = KeyOf(i, j) /\ amount = AmountOf(i, j)
  OBVIOUS
<1>3. KeyOf(i, j)' = key
  BY <1>2 DEF KeyOf, PartyOf
<1>4. CASE \E row \in transfers : row.key = key
  <2>1. transfers' = transfers
    BY <1>2, <1>4 DEF Post
  <2> QED
    BY <1>1, <1>3, <1>4, <2>1, RowsStay DEF HasTransfer
<1>5. CASE ~\E row \in transfers : row.key = key
  <2>1. PICK rows, row : rows = transfers /\ row = [key |-> key, amount |-> amount]
    OBVIOUS
  <2>2. transfers' = rows \cup {row}
    BY <1>2, <1>5, <2>1 DEF Post
  <2>3. row.key = KeyOf(i, j) /\ row.amount = AmountOf(i, j) /\ \A other \in rows : other.key # KeyOf(i, j)
    BY <1>2, <1>5, <2>1
  <2>4. Paying(rows \cup {row})'
    BY <1>1, <2>1, <2>3, RowAdded
  <2> QED
    BY <1>2, <1>3, <2>1, <2>2, <2>3, <2>4 DEF HasTransfer
<1> QED
  BY <1>4, <1>5

\* Every step of a payout is kept.
LEMMA PayKept ==
  ASSUME PayoutsInv, NEW w \in PayoutWorkers, Pay(w), UNCHANGED netting
  PROVE  PayoutsInv'
<1>0. UNCHANGED settlement_netted /\ worker = [v \in PayoutWorkers |-> worker[v]]
  BY DEF netting, PayoutsInv, WorkersOK
<1>1. TablesOK /\ UNCHANGED <<rail, payout_accounts, payout_statements, transfers, stripe_accounts>> => TablesOK' /\ Keeping
  <2> SUFFICES ASSUME TablesOK, UNCHANGED <<rail, payout_accounts, payout_statements, transfers, stripe_accounts>>
               PROVE  TablesOK' /\ Keeping
    OBVIOUS
  <2>1. Paying(transfers)' /\ Paying(payout_statements)'
    <3>1. PICK a, b : a = transfers /\ b = payout_statements
      OBVIOUS
    <3>2. Paying(a)' /\ Paying(b)'
      BY <1>0, <3>1, RowsStay DEF TablesOK
    <3> QED
      BY <3>1, <3>2
  <2> QED
    BY <2>1 DEF TablesOK, StatementsType, StripeKnows, Keeping
<1>a. TablesOK
  BY DEF PayoutsInv
<1>2. CASE TakeEvent(w)
  <2>1. PICK c : c = [stage |-> "next", seq |-> last_seq + 1, index |-> 1]
    OBVIOUS
  <2>2. last_seq \in 0 .. Len(settlement_netted) /\ last_seq < Len(settlement_netted) /\ DoneTo(last_seq)
    BY <1>2 DEF TakeEvent, PayoutsInv, CursorOK
  <2>3. settlement_netted \in Seq(NettedEvents) /\ c.seq \in Events /\ c.seq - 1 = last_seq
    BY <2>1, <2>2 DEF PayoutsInv, NettingInv, EventsType, Events
  <2>4. Len(settlement_netted[c.seq].positions) \in Nat
    BY <2>3 DEF Events, NettedEvents
  <2>5. Placed(c) /\ DoneTo(c.seq - 1) /\ Reached(c)'
    BY <2>1, <2>2, <2>3, <2>4 DEF Placed, Reached
  <2>6. \A j \in PositionsOf(c.seq) : ~(j < c.index)
    BY <2>1 DEF PositionsOf
  <2>7. TablesOK' /\ Keeping
    BY <1>1, <1>2, <1>a DEF TakeEvent, stripe
  <2>8. worker' = [worker EXCEPT ![w] = c] /\ last_seq' = last_seq
    BY <1>2, <2>1 DEF TakeEvent
  <2> QED
    BY <2>5, <2>6, <2>7, <2>8, WorkerMoves
<1>3. CASE Resolve(w)
  <2>1. TablesOK' /\ Keeping /\ last_seq' = last_seq /\ worker[w].stage # "idle"
    BY <1>1, <1>3, <1>a DEF Resolve, stripe
  <2>2. CASE HasFold(w)
    <3>1. Advance(w, "account") /\ worker[w].index \in PositionsOf(worker[w].seq)
      <4>1. Advance(w, "account") /\ worker[w].index \in DOMAIN settlement_netted[worker[w].seq].positions
        BY <1>3, <2>2 DEF Resolve, EventOf
      <4>2. worker[w].seq \in Events
        BY <2>1, WorkerIs DEF Placed
      <4>3. settlement_netted[worker[w].seq].positions \in Seq(Positions)
        BY <4>2, EventIs
      <4> QED
        BY <4>1, <4>3 DEF PositionsOf
    <3>2. PICK c : c = [worker[w] EXCEPT !.stage = "account"]
      OBVIOUS
    <3>3. Reached(c)'
      <4>1. worker[w] \in [stage : {"next", "account", "pin", "transfer", "record", "enrich"}, seq : Events, index : Nat \ {0}]
        BY <2>1, WorkerIs DEF Placed
      <4>2. c.stage = "account"
        BY <3>2, <4>1
      <4> QED
        BY <4>2 DEF Reached
    <3> QED
      BY <2>1, <3>1, <3>2, <3>3, Onwards
  <2>3. CASE ~HasFold(w)
    <3>1. worker' = [worker EXCEPT ![w] = Waiting]
      BY <1>3, <2>3 DEF Resolve
    <3> QED
      BY <2>1, <3>1, WorkerMoves
  <2> QED
    BY <2>2, <2>3
<1>4. CASE worker[w].stage \in {"account", "pin", "transfer", "record", "enrich"}
  <2>1. PICK i, j : i = worker[w].seq /\ j = worker[w].index
    OBVIOUS
  <2>2. PICK at : at = worker[w]
    OBVIOUS
  <2>3. /\ at \in [stage : {"next", "account", "pin", "transfer", "record", "enrich"}, seq : Events, index : Nat \ {0}]
        /\ at.seq = i /\ at.index = j /\ i \in Events /\ j \in PositionsOf(i) /\ Reached(at) /\ Behind(at)
    BY <1>4, <2>1, <2>2, WorkerIs DEF Placed
  <2>4. PositionOf(w).party = PartyOf(i, j) /\ IdempotencyKey(w) = KeyOf(i, j) /\ Size(PositionOf(w).signed) = AmountOf(i, j)
    BY <1>4, <2>1, WorkerIs
  <2>5. PartyOf(i, j)' = PartyOf(i, j) /\ KeyOf(i, j)' = KeyOf(i, j)
    BY <1>0 DEF PartyOf, KeyOf
  <2>6. Paying(transfers)' \/ transfers' # transfers
    BY <1>0, RowsStay DEF PayoutsInv, TablesOK
  <2>7. Paying(payout_statements)' \/ payout_statements' # payout_statements
    BY <1>0, RowsStay DEF PayoutsInv, TablesOK
  <2>8. ASSUME NEW stage \in {"pin", "transfer", "record", "enrich"}, Advance(w, stage), last_seq' = last_seq,
               Keeping, TablesOK',
               stage = "pin" => StripeKnows(PartyOf(i, j))',
               stage # "pin" => PartyOf(i, j) \in payout_accounts',
               stage \in {"record", "enrich"} => HasTransfer(KeyOf(i, j))',
               stage = "enrich" => HasStatement(KeyOf(i, j))'
        PROVE  PayoutsInv'
    <3>1. PICK c : c = [at EXCEPT !.stage = stage]
      OBVIOUS
    <3>2. c.stage = stage /\ c.seq = i /\ c.index = j
      BY <2>3, <3>1
    <3>3. Reached(c)'
      BY <2>5, <2>8, <3>2 DEF Reached, StripeKnows, HasTransfer, HasStatement
    <3>4. worker[w].stage # "idle" /\ worker[w].index \in PositionsOf(worker[w].seq) /\ c = [worker[w] EXCEPT !.stage = stage]
      BY <1>4, <2>2, <2>3, <3>1
    <3> QED
      BY <2>8, <3>3, <3>4, Onwards
  <2>9. CASE CreateAccount(w)
    <3>1. /\ payout_accounts' = payout_accounts \cup {PartyOf(i, j)} /\ Advance(w, "transfer") /\ rail = "simulated"
          /\ UNCHANGED <<rail, last_seq, payout_statements, stripe_accounts, transfers>>
      BY <2>4, <2>9 DEF CreateAccount, stripe
    <3>2. Keeping /\ TablesOK'
      BY <1>a, <2>6, <2>7, <3>1 DEF Keeping, TablesOK, StatementsType, StripeKnows
    <3> QED
      BY <2>8, <3>1, <3>2
  <2>10. CASE CreateStripeAccount(w)
    <3>1. UNCHANGED <<rail, last_seq, payout_accounts, payout_statements, transfers>>
      BY <2>10 DEF CreateStripeAccount
    <3>2. CASE PartyOf(i, j) \in payout_accounts
      <4>1. Advance(w, "transfer") /\ UNCHANGED stripe_accounts
        BY <2>4, <2>10, <3>2 DEF CreateStripeAccount
      <4> QED
        BY <1>1, <1>a, <2>8, <3>1, <3>2, <4>1
    <3>3. CASE PartyOf(i, j) \notin payout_accounts
      <4>1. stripe_accounts' = Post(stripe_accounts, PartyOf(i, j), 0) /\ Advance(w, "pin")
        BY <2>4, <2>10, <3>3 DEF CreateStripeAccount
      <4>2. stripe_accounts \subseteq stripe_accounts' /\ \E account \in stripe_accounts' : account.key = PartyOf(i, j)
        <5>1. PICK S, party, row : S = stripe_accounts /\ party = PartyOf(i, j) /\ row = [key |-> party, amount |-> 0]
          OBVIOUS
        <5>2. stripe_accounts' = IF \E account \in S : account.key = party THEN S ELSE S \cup {row}
          BY <4>1, <5>1 DEF Post
        <5>3. row.key = party
          BY <5>1
        <5>4. S \subseteq stripe_accounts' /\ \E account \in stripe_accounts' : account.key = party
          BY <5>2, <5>3
        <5> QED
          BY <5>1, <5>4
      <4>3. Keeping
        BY <3>1, <4>2 DEF Keeping
      <4>4. TablesOK'
        BY <1>a, <2>6, <2>7, <3>1, <4>2 DEF TablesOK, StatementsType, StripeKnows
      <4>5. StripeKnows(PartyOf(i, j))'
        BY <2>5, <4>2 DEF StripeKnows
      <4> QED
        BY <2>8, <3>1, <4>1, <4>3, <4>4, <4>5
    <3> QED
      BY <3>2, <3>3
  <2>11. CASE PinStripeAccount(w)
    <3>1. /\ payout_accounts' = payout_accounts \cup {PartyOf(i, j)} /\ Advance(w, "transfer") /\ at.stage = "pin"
          /\ UNCHANGED <<rail, last_seq, payout_statements, stripe_accounts, transfers>>
      BY <2>2, <2>4, <2>11 DEF PinStripeAccount, stripe
    <3>2. StripeKnows(PartyOf(i, j))
      BY <2>3, <3>1 DEF Reached
    <3>3. Keeping
      BY <3>1 DEF Keeping
    <3>4. TablesOK'
      BY <1>a, <2>6, <2>7, <3>1, <3>2 DEF TablesOK, StatementsType, StripeKnows
    <3> QED
      BY <2>8, <3>1, <3>3, <3>4
  <2>12. CASE Transfer(w)
    <3>1. /\ payout_statements' = Inserted(KeyOf(i, j), AmountOf(i, j)) /\ Advance(w, "record") /\ at.stage = "transfer"
          /\ UNCHANGED <<rail, last_seq, payout_accounts, stripe_accounts, transfers>> /\ rail = "simulated"
      BY <2>2, <2>4, <2>12 DEF Transfer, stripe
    <3>2. StatementsType' /\ Paying(payout_statements)' /\ payout_statements \subseteq payout_statements'
      BY <1>0, <2>3, <3>1, InsertedIs
    <3>3. Keeping
      BY <3>1, <3>2 DEF Keeping
    <3>4. TablesOK'
      BY <1>a, <2>6, <3>1, <3>2 DEF TablesOK, StatementsType, StripeKnows
    <3>5. PartyOf(i, j) \in payout_accounts' /\ HasTransfer(KeyOf(i, j))'
      BY <2>3, <3>1 DEF Reached, HasTransfer
    <3> QED
      BY <2>8, <3>1, <3>3, <3>4, <3>5
  <2>13. CASE StripeTransfer(w)
    <3>1. /\ transfers' = Post(transfers, KeyOf(i, j), AmountOf(i, j)) /\ Advance(w, "record") /\ at.stage = "transfer"
          /\ UNCHANGED <<rail, last_seq, payout_accounts, stripe_accounts, payout_statements>>
      BY <2>2, <2>4, <2>13 DEF StripeTransfer
    <3>2. Paying(transfers)' /\ transfers \subseteq transfers' /\ HasTransfer(KeyOf(i, j))'
      BY <1>0, <2>3, <3>1, PostedIs
    <3>3. Keeping
      BY <3>1, <3>2 DEF Keeping
    <3>4. TablesOK'
      BY <1>a, <2>7, <3>1, <3>2 DEF TablesOK, StatementsType, StripeKnows
    <3>5. PartyOf(i, j) \in payout_accounts'
      BY <2>3, <3>1 DEF Reached
    <3> QED
      BY <2>8, <3>1, <3>2, <3>3, <3>4, <3>5
  <2>14. CASE RecordTransfer(w)
    <3>1. /\ payout_statements' = Inserted(KeyOf(i, j), AmountOf(i, j)) /\ Advance(w, "enrich") /\ at.stage = "record"
          /\ UNCHANGED <<rail, last_seq, payout_accounts, stripe_accounts, transfers>>
      BY <2>2, <2>4, <2>14 DEF RecordTransfer, stripe
    <3>2. /\ StatementsType' /\ Paying(payout_statements)'
          /\ payout_statements \subseteq payout_statements' /\ HasStatement(KeyOf(i, j))'
      BY <1>0, <2>3, <3>1, InsertedIs
    <3>3. Keeping
      BY <3>1, <3>2 DEF Keeping
    <3>4. TablesOK'
      BY <1>a, <2>6, <3>1, <3>2 DEF TablesOK, StatementsType, StripeKnows
    <3>5. PartyOf(i, j) \in payout_accounts' /\ HasTransfer(KeyOf(i, j))
      BY <2>3, <3>1 DEF Reached
    <3>6. HasTransfer(KeyOf(i, j))'
      BY <2>5, <3>1, <3>5 DEF HasTransfer
    <3> QED
      BY <2>8, <3>1, <3>2, <3>3, <3>4, <3>5, <3>6
  <2>15. CASE Enrich(w)
    <3>0. PICK key, rows : key = KeyOf(i, j) /\ rows = payout_statements
      OBVIOUS
    <3>1. /\ payout_statements' = {IF row.key = key THEN [row EXCEPT !.enriched = TRUE] ELSE row : row \in rows}
          /\ worker' = [worker EXCEPT ![w].stage = "next", ![w].index = @ + 1] /\ at.stage = "enrich"
          /\ UNCHANGED <<rail, last_seq, payout_accounts, stripe_accounts, transfers>>
      BY <2>2, <2>4, <2>15, <3>0 DEF Enrich, stripe
    <3>2. PICK c : c = [at EXCEPT !.stage = "next", !.index = @ + 1]
      OBVIOUS
    <3>3. j \in Nat \ {0} /\ j + 1 \in Nat \ {0} /\ j <= Len(settlement_netted[i].positions)
      BY <2>3, EventIs DEF PositionsOf
    <3>4. /\ c.stage = "next" /\ c.seq = i /\ c.index = j + 1
          /\ c \in [stage : {"next", "account", "pin", "transfer", "record", "enrich"}, seq : Events, index : Nat \ {0}]
      BY <2>3, <3>2, <3>3
    <3>5. Placed(c)
      BY <2>3, <3>3, <3>4, EventIs DEF Placed
    <3>6. worker' = [worker EXCEPT ![w] = c]
      BY <1>0, <2>2, <3>1, <3>2
    <3>7. PICK f : f = [row \in rows |-> [key |-> row.key, amount |-> row.amount,
                                        enriched |-> IF row.key = key THEN TRUE ELSE row.enriched]]
      OBVIOUS
    <3>8. payout_statements' = {f[row] : row \in rows}
      <4>1. ASSUME NEW row \in rows
            PROVE  f[row] = IF row.key = key THEN [row EXCEPT !.enriched = TRUE] ELSE row
        <5>1. PICK k, a, e : k = row.key /\ a = row.amount /\ e = row.enriched
          OBVIOUS
        <5>2. row \in [key : {k}, amount : {a}, enriched : BOOLEAN] /\ row.enriched = e
          BY <1>a, <3>0, <5>1 DEF TablesOK, StatementsType
        <5>3. row = [key |-> k, amount |-> a, enriched |-> e]
          BY <5>2
        <5> QED
          BY <3>7, <5>1, <5>3
      <4> QED
        BY <3>1, <4>1
    <3>9. \A row \in rows : /\ f[row].key = row.key /\ f[row].amount = row.amount
                            /\ row.enriched \/ row.key = key => f[row].enriched
      BY <3>7
    <3>10. TablesOK' /\ Keeping
      <4>1. \A row \in payout_statements : f[row] \in payout_statements'
        BY <3>0, <3>8
      <4>2. Keeping
        BY <3>0, <3>1, <3>9, <4>1 DEF Keeping
      <4>3. Paying(payout_statements') /\ UNCHANGED Events
        BY <1>0, <1>a, <3>0, <3>8, <3>9 DEF TablesOK, Paying, Events
      <4>4. Paying(payout_statements)'
        <5>1. PICK set : set = payout_statements'
          OBVIOUS
        <5>2. Paying(set)'
          BY <1>0, <4>3, <5>1, RowsStay
        <5> QED
          BY <5>1, <5>2
      <4>5. StatementsType'
        <5>1. \A row \in rows : row.enriched \in BOOLEAN
          BY <1>a, <3>0 DEF TablesOK, StatementsType
        <5>2. \A row \in rows : f[row] \in [key : {f[row].key}, amount : {f[row].amount}, enriched : BOOLEAN]
          BY <3>7, <5>1
        <5> QED
          BY <3>8, <5>2 DEF StatementsType
      <4> QED
        BY <1>a, <2>6, <3>1, <4>2, <4>4, <4>5 DEF TablesOK, StripeKnows
    <3>11. Done(i, j)'
      <4>1. \E row \in rows : row.key = key
        BY <2>3, <3>0, <3>1 DEF Reached, HasStatement
      <4>2. \E other \in payout_statements' : other.key = key /\ other.enriched
        BY <3>8, <3>9, <4>1
      <4>3. PartyOf(i, j) \in payout_accounts /\ HasTransfer(key)
        BY <2>3, <3>0, <3>1 DEF Reached
      <4> QED
        BY <2>5, <3>0, <3>1, <4>2, <4>3 DEF Done, HasTransfer
    <3>12. ASSUME NEW k \in PositionsOf(i), k < c.index PROVE Done(i, k) \/ Done(i, k)'
      <4>1. CASE k = j
        BY <3>11, <4>1
      <4>2. CASE k # j
        <5>1. k < j
          BY <3>3, <3>4, <3>12, <4>2, EventIs DEF PositionsOf
        <5> QED
          BY <2>3, <5>1 DEF Behind
      <4> QED
        BY <4>1, <4>2
    <3>13. DoneTo(c.seq - 1) /\ Reached(c)'
      BY <2>3, <3>4 DEF Behind, Reached
    <3> QED
      BY <3>1, <3>4, <3>5, <3>6, <3>10, <3>12, <3>13, WorkerMoves
  <2> QED
    BY <1>4, <2>9, <2>10, <2>11, <2>12, <2>13, <2>14, <2>15 DEF Pay, TakeEvent, Resolve, MoveCursor, Waiting
<1>5. CASE MoveCursor(w)
  <2>1. /\ worker[w].stage = "next" /\ worker[w].index \notin DOMAIN settlement_netted[worker[w].seq].positions
        /\ last_seq' = worker[w].seq /\ worker' = [worker EXCEPT ![w] = Waiting]
        /\ UNCHANGED <<rail, payout_accounts, payout_statements, stripe_accounts, transfers>>
    BY <1>5 DEF MoveCursor, EventOf, stripe
  <2>2. PICK at : at = worker[w]
    OBVIOUS
  <2>3. Placed(at) /\ Behind(at)
    BY <2>1, <2>2, WorkerIs
  <2>4. at.seq \in Events /\ at.seq \in Nat /\ at.index \in Nat \ {0} /\ at.index <= Len(settlement_netted[at.seq].positions) + 1
    BY <2>3 DEF Placed, Events
  <2>5. settlement_netted[at.seq].positions \in Seq(Positions)
    BY <2>4, EventIs
  <2>6. \A j \in PositionsOf(at.seq) : j < at.index
    BY <2>1, <2>2, <2>4, <2>5 DEF PositionsOf
  <2>7. DoneTo(at.seq)
    <3> SUFFICES ASSUME NEW i \in Events, i <= at.seq, NEW j \in PositionsOf(i) PROVE Done(i, j)
      BY DEF DoneTo
    <3>1. CASE i = at.seq
      BY <2>3, <2>6, <3>1 DEF Behind
    <3>2. CASE i # at.seq
      <4>1. i <= at.seq - 1
        BY <2>4, <3>2 DEF Events
      <4> QED
        BY <2>3, <4>1 DEF Behind, DoneTo
    <3> QED
      BY <3>1, <3>2
  <2>8. TablesOK' /\ Keeping
    BY <1>1, <1>a, <2>1
  <2>9. last_seq' \in Events /\ DoneTo(last_seq')
    BY <2>1, <2>2, <2>4, <2>7
  <2> QED
    BY <2>1, <2>8, <2>9, WorkerMoves
<1> QED
  BY <1>2, <1>3, <1>4, <1>5 DEF Pay, CreateAccount, CreateStripeAccount, PinStripeAccount, Transfer,
     StripeTransfer, RecordTransfer, Enrich

\* A failure is kept.
LEMMA FailKept ==
  ASSUME PayoutsInv, NEW w \in PayoutWorkers, FailPayout(w), UNCHANGED netting
  PROVE  PayoutsInv'
<1>1. UNCHANGED <<rail, last_seq, payout_accounts, payout_statements, transfers, stripe_accounts, settlement_netted>>
  BY DEF FailPayout, stripe, netting
<1>2. worker' = [worker EXCEPT ![w] = Waiting]
  BY DEF FailPayout
<1>3. Keeping
  BY <1>1 DEF Keeping
<1>4. TablesOK'
  <2>1. PICK a, b : a = transfers /\ b = payout_statements
    OBVIOUS
  <2>2. Paying(a)' /\ Paying(b)'
    BY <1>1, <2>1, RowsStay DEF PayoutsInv, TablesOK
  <2> QED
    BY <1>1, <2>1, <2>2 DEF PayoutsInv, TablesOK, StatementsType, StripeKnows
<1> QED
  BY <1>1, <1>2, <1>3, <1>4, WorkerMoves

\* A rebuild forgets the tables; what Stripe has it keeps.
LEMMA WipeKept ==
  ASSUME PayoutsInv, Wipe, UNCHANGED netting
  PROVE  PayoutsInv'
<1>1. /\ UNCHANGED <<rail, worker, transfers, stripe_accounts, settlement_netted>>
      /\ payout_statements' = {} /\ payout_accounts' = {} /\ last_seq' = 0
      /\ \A w \in PayoutWorkers : worker[w] = Waiting
  BY DEF Wipe, stripe, netting
<1>2. WorkersOK'
  BY <1>1 DEF PayoutsInv, WorkersOK
<1>3. TablesOK'
  <2>1. PICK a : a = transfers
    OBVIOUS
  <2>2. Paying(a)'
    BY <1>1, <2>1, RowsStay DEF PayoutsInv, TablesOK
  <2>3. Paying(payout_statements)'
    BY <1>1 DEF Paying
  <2> QED
    BY <1>1, <2>1, <2>2, <2>3 DEF TablesOK, StatementsType
<1>4. CursorOK'
  <2>1. Len(settlement_netted) \in Nat
    BY DEF PayoutsInv, NettingInv, EventsType
  <2>2. \A i \in Events' : ~(i <= 0)
    BY DEF Events
  <2> QED
    BY <1>1, <2>1, <2>2 DEF CursorOK, DoneTo
<1>5. NettingInv'
  BY NettingStays DEF PayoutsInv
<1> QED
  BY <1>2, <1>3, <1>4, <1>5 DEF PayoutsInv

\* Every step of netting and of payouts keeps the invariant.
LEMMA PayoutsKept ==
  ASSUME PayoutsInv, [Next]_<<netting, payouts>>
  PROVE  PayoutsInv'
<1>1. CASE NettingStep /\ UNCHANGED payouts
  <2>1. CASE \E n \in Clerks : CommitNetting(n)
    <3>1. PICK n \in Clerks : CommitNetting(n)
      BY <2>1
    <3>2. NettingInv' /\ \E event : settlement_netted' = Append(settlement_netted, event)
      BY <3>1, CommitKept DEF PayoutsInv, CommitNetting
    <3> QED
      BY <1>1, <3>2, LedgerGrows
  <2>2. CASE (\E id \in EntrySetIds : BeginPosting(id)) \/ (\E row \in posting : CommitPosting(row)) \/ NextMonth
    <3>1. NettingInv'
      BY <2>2, PostingKept DEF PayoutsInv
    <3>2. settlement_netted' = settlement_netted
      BY <2>2 DEF BeginPosting, CommitPosting, NextMonth
    <3> QED
      BY <1>1, <3>1, <3>2, LedgerGrows
  <2>3. CASE \E n \in Clerks : (\E period \in Months : BeginNetting(n, period)) \/ ClaimSets(n) \/ AbortNetting(n)
    <3>1. NettingInv'
      BY <2>3, ClerksKept DEF PayoutsInv
    <3>2. settlement_netted' = settlement_netted
      BY <2>3 DEF BeginNetting, ClaimSets, AbortNetting
    <3> QED
      BY <1>1, <3>1, <3>2, LedgerGrows
  <2> QED
    BY <1>1, <2>1, <2>2, <2>3 DEF NettingStep
<1>2. CASE PayoutsStep /\ UNCHANGED netting
  <2>1. CASE Wipe
    BY <1>2, <2>1, WipeKept
  <2>2. CASE \E w \in PayoutWorkers : Pay(w) \/ FailPayout(w)
    BY <1>2, <2>2, PayKept, FailKept
  <2> QED
    BY <1>2, <2>1, <2>2 DEF PayoutsStep
<1>3. CASE UNCHANGED <<netting, payouts>>
  <2>1. UNCHANGED payouts /\ NettingInv' /\ settlement_netted' = settlement_netted
    BY <1>3, NettingStays DEF PayoutsInv, netting
  <2> QED
    BY <2>1, LedgerGrows
<1> QED
  BY <1>1, <1>2, <1>3 DEF Next

\* The payouts of one position are the rows of its key.
LEMMA PaidIsKeyed ==
  ASSUME PayoutsInv, NEW rows, Paying(rows), NEW i \in Events, NEW j \in PositionsOf(i)
  PROVE  PaidFor(settlement_netted[i].netting_run_id, PartyOf(i, j), rows) =
           {row \in rows : row.key = KeyOf(i, j)}
<1>1. PICK run, party : run = settlement_netted[i].netting_run_id /\ party = PartyOf(i, j)
  OBVIOUS
<1>2. \A row \in rows : row.key = [netting_run_id |-> run, party |-> party] <=>
        row.key.netting_run_id = run /\ row.key.party = party
  <2> SUFFICES ASSUME NEW row \in rows
               PROVE  row.key = [netting_run_id |-> run, party |-> party] <=>
                        row.key.netting_run_id = run /\ row.key.party = party
    OBVIOUS
  <2>1. PICK h \in Events : \E k \in PositionsOf(h) : row.key = KeyOf(h, k)
    BY DEF Paying
  <2>2. PICK k \in PositionsOf(h) : row.key = KeyOf(h, k)
    BY <2>1
  <2>3. PICK r, p : row.key = [netting_run_id |-> r, party |-> p]
    BY <2>2 DEF KeyOf
  <2> QED
    BY <2>3
<1>3. KeyOf(i, j) = [netting_run_id |-> run, party |-> party]
  BY <1>1 DEF KeyOf
<1> QED
  BY <1>1, <1>2, <1>3 DEF PaidFor

\* Two positions have different keys.
LEMMA PositionsDiffer ==
  ASSUME PayoutsInv, NEW i \in Events, NEW j \in PositionsOf(i), NEW h \in Events, NEW k \in PositionsOf(h),
         KeyOf(i, j) = KeyOf(h, k)
  PROVE  i = h /\ j = k
<1>1. settlement_netted[i].netting_run_id = settlement_netted[h].netting_run_id /\ PartyOf(i, j) = PartyOf(h, k)
  BY DEF KeyOf
<1>2. i = h
  BY <1>1 DEF PayoutsInv, NettingInv, RunsOK, Events
<1>3. OneEach(settlement_netted[i].positions)
  BY DEF PayoutsInv, NettingInv, RunsOK, Events
<1> QED
  BY <1>1, <1>2, <1>3 DEF OneEach, PartyOf, PositionsOf

\* The invariant implies that each fold is paid once.
LEMMA PayoutsHold == ASSUME PayoutsInv PROVE EachFoldIsPaidOnce
<1>1. DOMAIN settlement_netted = Events
  BY DEF PayoutsInv, NettingInv, EventsType, Events
<1>2. \A i \in Events : DOMAIN settlement_netted[i].positions = PositionsOf(i)
  BY EventIs DEF PositionsOf
<1>3. ASSUME NEW i \in Events, NEW j \in PositionsOf(i), NEW rows \in {transfers, payout_statements}
      PROVE  LET paid == PaidFor(settlement_netted[i].netting_run_id, PartyOf(i, j), rows)
             IN  Cardinality(paid) <= 1 /\ \A row \in paid : row.amount = AmountOf(i, j)
  <2> DEFINE paid == PaidFor(settlement_netted[i].netting_run_id, PartyOf(i, j), rows)
  <2>1. Paying(rows)
    BY DEF PayoutsInv, TablesOK
  <2>2. paid = {row \in rows : row.key = KeyOf(i, j)}
    BY <2>1, PaidIsKeyed
  <2>3. \A row \in paid : row.amount = AmountOf(i, j)
    <3> SUFFICES ASSUME NEW row \in paid PROVE row.amount = AmountOf(i, j)
      OBVIOUS
    <3>1. row \in rows /\ row.key = KeyOf(i, j)
      BY <2>2
    <3>2. PICK h \in Events : \E k \in PositionsOf(h) : row.key = KeyOf(h, k) /\ row.amount = AmountOf(h, k)
      BY <2>1, <3>1 DEF Paying
    <3>3. PICK k \in PositionsOf(h) : row.key = KeyOf(h, k) /\ row.amount = AmountOf(h, k)
      BY <3>2
    <3>4. i = h /\ j = k
      BY <3>1, <3>3, PositionsDiffer
    <3> QED
      BY <3>3, <3>4
  <2>4. Cardinality(paid) <= 1
    <3>1. CASE paid = {}
      BY <3>1, FS_EmptySet
    <3>2. CASE paid # {}
      <4>1. PICK row \in paid : TRUE
        BY <3>2
      <4>2. paid = {row}
        BY <2>1, <2>2, <4>1 DEF Paying
      <4>3. Cardinality({row}) = 1
        BY FS_Singleton
      <4> QED
        BY <4>2, <4>3
    <3> QED
      BY <3>1, <3>2
  <2> QED
    BY <2>3, <2>4
<1>4. ASSUME NEW i \in Events, NEW j \in PositionsOf(i), i <= last_seq
      PROVE  LET paid(rows) == PaidFor(settlement_netted[i].netting_run_id, PartyOf(i, j), rows)
             IN  /\ paid(payout_statements) # {}
                 /\ \A row \in paid(payout_statements) : row.enriched
                 /\ PartyOf(i, j) \in payout_accounts
                 /\ rail = "stripe" =>
                      /\ paid(transfers) # {}
                      /\ \E account \in stripe_accounts : account.key = PartyOf(i, j)
  <2>1. Done(i, j)
    BY <1>4 DEF PayoutsInv, CursorOK, DoneTo
  <2>2. Paying(transfers) /\ Paying(payout_statements)
    BY DEF PayoutsInv, TablesOK
  <2>3. /\ PaidFor(settlement_netted[i].netting_run_id, PartyOf(i, j), transfers) =
             {row \in transfers : row.key = KeyOf(i, j)}
        /\ PaidFor(settlement_netted[i].netting_run_id, PartyOf(i, j), payout_statements) =
             {row \in payout_statements : row.key = KeyOf(i, j)}
    BY <2>2, PaidIsKeyed
  <2>4. PICK row \in payout_statements : row.key = KeyOf(i, j) /\ row.enriched
    BY <2>1 DEF Done
  <2>5. \A other \in payout_statements : other.key = KeyOf(i, j) => other = row
    BY <2>2, <2>4 DEF Paying
  <2>6. PartyOf(i, j) \in payout_accounts /\ StripeKnows(PartyOf(i, j)) /\ HasTransfer(KeyOf(i, j))
    BY <2>1 DEF Done, PayoutsInv, TablesOK
  <2> QED
    BY <2>3, <2>4, <2>5, <2>6 DEF StripeKnows, HasTransfer
<1>5. ASSUME NEW row \in transfers \cup payout_statements
      PROVE  \E i \in Events : settlement_netted[i].netting_run_id = row.key.netting_run_id
  <2>1. PICK i \in Events : \E j \in PositionsOf(i) : row.key = KeyOf(i, j)
    BY DEF PayoutsInv, TablesOK, Paying
  <2> QED
    BY <2>1 DEF KeyOf
<1>6. NettingLosesNothing
  BY DEF PayoutsInv, NettingInv
<1>7. \A i \in Events : \A j \in PositionsOf(i) :
        /\ PartyOf(i, j) = settlement_netted[i].positions[j].party
        /\ AmountOf(i, j) = Size(settlement_netted[i].positions[j].signed)
  BY DEF PartyOf, AmountOf
<1> QED
  BY <1>1, <1>2, <1>3, <1>4, <1>5, <1>6, <1>7 DEF EachFoldIsPaidOnce

\* However runs, workers, failures and rebuilds interleave: no fold is lost
\* or told twice, no position is paid twice or in another amount, and behind
\* the cursor every position is paid and recorded (simulator.ts:123,
\* simulated.ts:102).
THEOREM PayoutsCorrect == Spec => []EachFoldIsPaidOnce
<1>1. Init => PayoutsInv
  BY PayoutsInitially
<1>2. PayoutsInv /\ [Next]_<<netting, payouts>> => PayoutsInv'
  BY PayoutsKept
<1>3. PayoutsInv => EachFoldIsPaidOnce
  BY PayoutsHold
<1> QED
  BY <1>1, <1>2, <1>3, PTL DEF Spec

=============================================================================
