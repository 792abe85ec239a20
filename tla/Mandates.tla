------------------------------- MODULE Mandates -------------------------------
(***************************************************************************)
(* What a mandate of the wallet authorises, and when one grant of          *)
(* authority is within another (mandates/attenuation.ts).  Times are       *)
(* ticks, amounts pence in the one currency the contracts know.            *)
(***************************************************************************)
EXTENDS Integers

CONSTANTS
  Scopes,       \* what an agent may do, "checkout:execute" among it
  Categories,
  Merchants,
  AnyMerchant,  \* the '*' of a list of merchants
  Flags         \* the kinds of personal data that can be shared

\* The contract's shape; the limits are ordered by its refinements.
Dimension ==
  [scopes |-> SUBSET Scopes, per_txn |-> Nat, per_month |-> Nat,
   categories |-> SUBSET Categories, merchants |-> SUBSET (Merchants \cup {AnyMerchant}),
   data_sharing |-> SUBSET Flags, pre_authorised_up_to |-> Nat, exp |-> Nat]
Authority ==
  [scopes : SUBSET Scopes, per_txn : Nat, per_month : Nat,
   categories : SUBSET Categories, merchants : SUBSET (Merchants \cup {AnyMerchant}),
   data_sharing : SUBSET Flags, pre_authorised_up_to : Nat, exp : Nat]

WellFormed(a) ==
  /\ a.per_txn <= a.per_month
  /\ a.pre_authorised_up_to <= a.per_txn

MerchantsSubset(child, parent) ==
  AnyMerchant \in parent \/ (AnyMerchant \notin child /\ child \subseteq parent)

\* Mutant of attenuationViolations: the pre-authorised amount is not compared.
ViolationsIgnoringPreAuthorised(parent, child) ==
  LET within ==
        [scopes       |-> child.scopes \subseteq parent.scopes,
         per_txn      |-> child.per_txn <= parent.per_txn,
         per_month    |-> child.per_month <= parent.per_month,
         categories   |-> child.categories \subseteq parent.categories,
         merchants    |-> MerchantsSubset(child.merchants, parent.merchants),
         data_sharing |-> child.data_sharing \subseteq parent.data_sharing,
         exp          |-> child.exp <= parent.exp]
  IN  {dimension \in DOMAIN within : ~within[dimension]}

\* The dimensions in which child is wider than parent.
attenuationViolations(parent, child) ==
  LET within ==
        [scopes       |-> child.scopes \subseteq parent.scopes,
         per_txn      |-> child.per_txn <= parent.per_txn,
         per_month    |-> child.per_month <= parent.per_month,
         categories   |-> child.categories \subseteq parent.categories,
         merchants    |-> MerchantsSubset(child.merchants, parent.merchants),
         pre_authorised_up_to |->
           child.pre_authorised_up_to <= parent.pre_authorised_up_to,
         data_sharing |-> child.data_sharing \subseteq parent.data_sharing,
         exp          |-> child.exp <= parent.exp]
  IN  {dimension \in DOMAIN within : ~within[dimension]}

Narrows(child, parent) == attenuationViolations(parent, child) = {}

\* A patch is laid over the parent: a field it leaves out is inherited.
Overlay(parent, patch) ==
  [f \in DOMAIN parent |-> IF f \in DOMAIN patch THEN patch[f] ELSE parent[f]]

===============================================================================
