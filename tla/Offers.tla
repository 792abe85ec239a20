-------------------------------- MODULE Offers ---------------------------------
(***************************************************************************)
(* The offers of the control plane (offers/service.ts, repository.ts), and *)
(* how publishing and repricing them cycles their commitments at the trio  *)
(* (offers/publisher.ts).  Each operator's request is a sequence of        *)
(* statements and calls, and requests interleave; a call to the trio may   *)
(* be answered, fail, or take effect with its answer lost.                 *)
(***************************************************************************)
EXTENDS Eligibility, Integers

CONSTANTS
  Offers, Operators,
  Cors,           \* bound: the commitments the trio may create, in order
  Cap, Budget,    \* max_conversions and budget of a new one
  InitialTerms,   \* the offer each draft is created with
  Patches,        \* what an edit may change: fields of a row with their new values
  Merchants

\* A commitment of the trio, as the control plane knows it.
CorRows ==
  [offer : Offers, status : {"live", "ended"}, used : Int, max : {Cap}, budget : Int]

ASSUME OffersAssumption == Budget \in Int /\ Null \notin Cors /\ Null \notin CorRows

\* The row of an offer (contracts: Offer), as far as its types matter.
Columns == {"id", "merchant", "mechanics", "sku_scope", "tiers", "group", "status", "from", "until",
            "words"}
IsMechanic(m) == m \in Mechanics(m.skus)
IsRowOf(row, o) ==
  /\ row = [column \in Columns |-> row[column]]
  /\ row.id = o /\ row.merchant \in Merchants /\ IsMechanic(row.mechanics)

ASSUME TermsAssumption ==
  /\ \A o \in Offers : IsRowOf(InitialTerms[o], o)
  /\ \A patch \in Patches : "mechanics" \in DOMAIN patch => IsMechanic(patch["mechanics"])

VARIABLES
  offers,               \* core.offers: the row (terms and status) and current_commitment_id
  offer_commitments,    \* core.offer_commitments: offer, cor, whether ended_at is set
  cors,                 \* the trio's commitments: offer, status, used, budget
  operators,            \* each operator's request in flight
  published,            \* OfferPublished events: offer and cor, in order
  changes               \* bound: how many more requests and other changes there are

offerVars == <<offers, offer_commitments, cors, operators, published, changes>>

Ready == [step |-> "idle", offer |-> Null, old |-> Null, cor |-> Null, op |-> Null, row |-> Null]

Change == changes > 0 /\ changes' = changes - 1

\* get: an offer's row, with the commitment it points at.
OfferRow(o) == offers[o]

\* A request starts by reading the row.
Request(p, op, o, step) ==
  /\ operators[p].step = "idle" /\ Change
  /\ operators' = [operators EXCEPT ![p] =
       [Ready EXCEPT !.step = step, !.op = op, !.offer = o, !.old = OfferRow(o).cor,
                     !.row = OfferRow(o).row]]

Goto(p, step) == operators' = [operators EXCEPT ![p].step = step]
Finish(p) == operators' = [operators EXCEPT ![p] = Ready]

\* publish: draft or paused, as read; the commitment comes first if a bounty is asked.
Publish(p, o, bounty) ==
  /\ offers[o].row.status \in {"draft", "paused"}
  /\ Request(p, "publish", o, IF bounty THEN "create" ELSE "golive")
  /\ UNCHANGED <<offers, offer_commitments, cors, published>>

\* editBounty: not ended and with a commitment, as read.
EditBounty(p, o) ==
  /\ offers[o].row.status # "ended" /\ offers[o].cor # Null
  /\ Request(p, "edit", o, "endold")
  /\ UNCHANGED <<offers, offer_commitments, cors, published>>

\* The trio ends a commitment once; ended already (409) is as good.
EndOldCor(p, answered) ==
  /\ operators[p].step = "endold"
  /\ cors' = [cors EXCEPT ![operators[p].old].status = "ended"]
  /\ IF answered THEN Goto(p, "create") ELSE Finish(p)
  /\ UNCHANGED <<offers, offer_commitments, published, changes>>

\* create signs a new commitment with the terms of the row as read.
CreateCor(p, c, answered) ==
  /\ operators[p].step = "create"
  /\ cors[c] = Null /\ \A d \in Cors : d < c => cors[d] # Null
  /\ cors' = [cors EXCEPT ![c] = [offer |-> operators[p].offer, status |-> "live", used |-> 0,
                                  max |-> Cap, budget |-> Budget]]
  /\ IF answered
       THEN operators' = [operators EXCEPT ![p].cor = c,
              ![p].step = IF operators[p].op = "publish" THEN "golive" ELSE "repoint"]
       ELSE Finish(p)
  /\ UNCHANGED <<offers, offer_commitments, published, changes>>

\* Any call to the trio may fail without effect, and the request with it.
TrioUnreachable(p) ==
  /\ operators[p].step \in {"endold", "create"}
  /\ Finish(p)
  /\ UNCHANGED <<offers, offer_commitments, cors, published, changes>>

\* One transaction, which does not look at the status again.
GoLive(p) ==
  LET o == operators[p].offer
      c == operators[p].cor
  IN  /\ operators[p].step = "golive"
      /\ offers' = [offers EXCEPT ![o].row.status = "live", ![o].cor = c]
      /\ offer_commitments' = offer_commitments \cup
           IF c = Null THEN {} ELSE {[offer |-> o, cor |-> c, ended |-> FALSE]}
      /\ published' = Append(published, <<o, c>>)
      /\ Finish(p)
      /\ UNCHANGED <<cors, changes>>

\* Mutant of Repoint: the new commitment is not written to the history.
RepointForgetting(p) ==
  LET o == operators[p].offer
      c == operators[p].cor
      old == [offer |-> o, cor |-> operators[p].old, ended |-> FALSE]
  IN  /\ operators[p].step = "repoint"
      /\ offers' = [offers EXCEPT ![o].cor = c]
      /\ offer_commitments' = (offer_commitments \ {old}) \cup {[old EXCEPT !.ended = TRUE]}
      /\ Finish(p)
      /\ UNCHANGED <<cors, published, changes>>

Repoint(p) ==
  LET o == operators[p].offer
      c == operators[p].cor
      old == [offer |-> o, cor |-> operators[p].old, ended |-> FALSE]
  IN  /\ operators[p].step = "repoint"
      /\ offers' = [offers EXCEPT ![o].cor = c]
      /\ offer_commitments' =
           {IF h = old THEN [h EXCEPT !.ended = TRUE] ELSE h : h \in offer_commitments}
           \cup {[offer |-> o, cor |-> c, ended |-> FALSE]}
      /\ Finish(p)
      /\ UNCHANGED <<cors, published, changes>>

\* The row with what is edited; an update writes neither the id, the merchant nor
\* the status, which is the one the row has by now.
Edited(row, patch, now) ==
  [column \in Columns |->
     IF column = "status" THEN now.status
     ELSE IF column \in {"id", "merchant"} THEN row[column]
     ELSE IF column \in DOMAIN patch THEN patch[column] ELSE row[column]]

\* update reads the whole row and writes it back changed.
Update(p, o) ==
  /\ offers[o].row.status # "ended"
  /\ Request(p, "update", o, "write")
  /\ UNCHANGED <<offers, offer_commitments, cors, published>>

WriteRow(p, patch) ==
  LET o == operators[p].offer
  IN  /\ operators[p].step = "write"
      /\ offers' = [offers EXCEPT ![o].row = Edited(operators[p].row, patch, offers[o].row)]
      /\ Finish(p)
      /\ UNCHANGED <<offer_commitments, cors, published, changes>>

\* pause and end are one guarded statement each, and leave the commitment alone.
SetStatus(o, next, expect) ==
  /\ Change
  /\ offers[o].row.status \in expect
  /\ offers' = [offers EXCEPT ![o].row.status = next]
  /\ UNCHANGED <<offer_commitments, cors, operators, published>>

Pause(o) == SetStatus(o, "paused", {"live"})
End(o) == SetStatus(o, "ended", {"draft", "live", "paused"})

\* The control plane restarts: its requests end where they are.
RestartControlPlane ==
  /\ \E p \in Operators : operators[p].step # "idle"
  /\ operators' = [p \in Operators |-> Ready]
  /\ UNCHANGED <<offers, offer_commitments, cors, published, changes>>

\* The trio's side: a conversion elsewhere uses up the cap and the budget.
Converts(c) ==
  /\ cors[c] # Null /\ cors[c].status = "live"
  /\ cors[c].used < cors[c].max /\ cors[c].budget > 0
  /\ Change
  /\ cors' = [cors EXCEPT ![c].used = @ + 1, ![c].budget = @ - 1]
  /\ UNCHANGED <<offers, offer_commitments, operators, published>>

OffersInit ==
  /\ offers = [o \in Offers |-> [row |-> InitialTerms[o], cor |-> Null]]
  /\ offer_commitments = {} /\ cors = [c \in Cors |-> Null]
  /\ operators = [p \in Operators |-> Ready]
  /\ published = <<>>

OffersNext ==
  \/ \E p \in Operators, o \in Offers : \/ \E bounty \in BOOLEAN : Publish(p, o, bounty)
                                        \/ EditBounty(p, o)
                                        \/ Update(p, o)
  \/ \E p \in Operators : \/ \E answered \in BOOLEAN : EndOldCor(p, answered)
                          \/ \E c \in Cors, answered \in BOOLEAN : CreateCor(p, c, answered)
                          \/ TrioUnreachable(p)
                          \/ GoLive(p)
                          \/ Repoint(p)
                          \/ \E patch \in Patches : WriteRow(p, patch)
  \/ \E o \in Offers : Pause(o) \/ End(o)
  \/ RestartControlPlane
  \/ \E c \in Cors : Converts(c)

OffersSpec == OffersInit /\ changes \in Nat /\ [][OffersNext]_offerVars

-----------------------------------------------------------------------------
\* What an offer points at, its history knows: the current commitment was
\* created for that offer and is an open entry of its history, no commitment
\* has two entries, and an entry is closed only if the trio has ended its
\* commitment (publisher.ts "history kept", against publishes and reprices that
\* interleave and calls that get lost).
HistoryIsKept ==
  /\ \A o \in Offers : offers[o].cor # Null =>
       /\ [offer |-> o, cor |-> offers[o].cor, ended |-> FALSE] \in offer_commitments
       /\ cors[offers[o].cor].offer = o
  /\ \A h, g \in offer_commitments : h.cor = g.cor => h = g
  /\ \A h \in offer_commitments : h.ended => cors[h.cor].status = "ended"

===============================================================================
