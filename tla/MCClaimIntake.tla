---------------------------- MODULE MCClaimIntake ----------------------------
(***************************************************************************)
(* ClaimIntake for TLC: an order with a token, an order without, and a     *)
(* formed claim whose token nobody can decode.                             *)
(***************************************************************************)
EXTENDS ClaimIntake

CONSTANTS d1, d2, d3, f1, t1, garbage

OrderBody == [token |-> t1, claim |-> None]
TokenlessBody == [token |-> None, claim |-> None]
FormedBody == [token |-> garbage, claim |-> f1]

AllBodies == {OrderBody, TokenlessBody, FormedBody}

=============================================================================
