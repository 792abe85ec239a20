---------------------------- MODULE ErrandReducer ----------------------------
(***************************************************************************)
(* The errand as data: the diagram of the pure reducer                     *)
(* (apps/valet/src/errand/reducer.ts) and what an event writes into the    *)
(* row besides the state (errand/store.ts).                                *)
(*                                                                         *)
(* A token is the quote it was minted for and whether it carries an        *)
(* approval; an approval is named after its quote, which has at most one.  *)
(***************************************************************************)
EXTENDS Naturals

CONSTANTS Quotes, None

Diagram ==
  { <<"BRIEFED",           "SEARCH_STARTED",     "SEARCHING">>,
    <<"SEARCHING",         "QUOTE_RECEIVED",     "QUOTED">>,
    <<"SEARCHING",         "SEARCH_FAILED",      "FAILED">>,
    <<"SEARCHING",         "TIMED_OUT",          "FAILED">>,
    <<"QUOTED",            "APPROVAL_REQUESTED", "AWAITING_APPROVAL">>,
    <<"QUOTED",            "APPROVAL_SKIPPED",   "APPROVED">>,
    <<"QUOTED",            "APPROVAL_GRANTED",   "APPROVED">>,
    <<"QUOTED",            "TIMED_OUT",          "EXPIRED">>,
    <<"AWAITING_APPROVAL", "APPROVAL_GRANTED",   "APPROVED">>,
    <<"AWAITING_APPROVAL", "APPROVAL_DECLINED",  "DECLINED">>,
    <<"AWAITING_APPROVAL", "TIMED_OUT",          "EXPIRED">>,
    <<"APPROVED",          "EXECUTION_STARTED",  "EXECUTING">>,
    <<"APPROVED",          "TIMED_OUT",          "EXPIRED">>,
    <<"EXECUTING",         "CLAIM_VERIFIED",     "CONFIRMED">>,
    <<"EXECUTING",         "CLAIM_REJECTED",     "FAILED">>,
    <<"EXECUTING",         "TIMED_OUT",          "FAILED">>,
    <<"FAILED",            "RETRY",              "EXECUTING">> }

States ==
  {"BRIEFED", "SEARCHING", "QUOTED", "AWAITING_APPROVAL", "APPROVED",
   "EXECUTING", "CONFIRMED", "FAILED", "DECLINED", "EXPIRED"}

EventTypes ==
  {"SEARCH_STARTED", "QUOTE_RECEIVED", "SEARCH_FAILED", "TIMED_OUT",
   "APPROVAL_REQUESTED", "APPROVAL_GRANTED", "APPROVAL_SKIPPED",
   "APPROVAL_DECLINED", "EXECUTION_STARTED", "CLAIM_VERIFIED",
   "CLAIM_REJECTED", "RETRY"}

Accepts(state, type) == \E to \in States : <<state, type, to>> \in Diagram
Terminal == {s \in States : \A type \in EventTypes : ~Accepts(s, type)}

Tokens == [quote : Quotes, apr : BOOLEAN]
Events == [type : EventTypes, quote : Quotes \cup {None}, claim : Nat]

Event(type) == [type |-> type, quote |-> None, claim |-> 0]
QuoteEvent(type, q) == [type |-> type, quote |-> q, claim |-> 0]
ClaimEvent(type, c) == [type |-> type, quote |-> None, claim |-> c]

Rows == [state : States, mandate : BOOLEAN, quote : Quotes \cup {None},
         token : Tokens \cup {None}, approval : Quotes \cup {None}, claim : Nat]

Briefed(mandate) ==
  [state |-> "BRIEFED", mandate |-> mandate, quote |-> None,
   token |-> None, approval |-> None, claim |-> 0]

\* The row after an event that takes it to a state: a quote brings its token,
\* an approval the token minted again, a verdict the claim.
Quoting == {"QUOTE_RECEIVED", "APPROVAL_GRANTED"}
Patched(row, to, e) ==
  [state    |-> to,
   mandate  |-> row.mandate,
   quote    |-> IF e.type = "QUOTE_RECEIVED" THEN e.quote ELSE row.quote,
   token    |-> IF e.type \in Quoting
                  THEN [quote |-> e.quote, apr |-> e.type = "APPROVAL_GRANTED"]
                  ELSE row.token,
   approval |-> IF e.type = "APPROVAL_GRANTED" THEN e.quote ELSE row.approval,
   claim    |-> IF e.type = "CLAIM_VERIFIED" THEN e.claim ELSE row.claim]

ASSUME NoneAssumption ==
  None \notin Quotes /\ None \notin Tokens /\ None \notin Events /\ None \notin Rows

Entry(from, to, e) == [from |-> from, to |-> to, event |-> e]
Entries == [from : States, to : States, event : Events]

=============================================================================
