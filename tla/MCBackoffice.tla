----------------------------- MODULE MCBackoffice -----------------------------
(***************************************************************************)
(* The payout worker over the netting runs of a conversion of one agent at *)
(* one merchant, which may be reversed.                                    *)
(***************************************************************************)
EXTENDS Payouts

MCMerchantOf == [c \in Conversions |-> "mer"]
MCAgentOf == [c \in Conversions |-> "agt_" \o c]
MCBountyOf == [c \in Conversions |-> 8]
MCPartyOrder == <<"agt_c1", "mer", "platform", "reserve">>

=============================================================================
