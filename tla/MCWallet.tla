------------------------------- MODULE MCWallet -------------------------------
(***************************************************************************)
(* Small instances of the wallet's components for TLC.  Consent, sign-in,  *)
(* linking, the keys that attest for the wallet, who a shopper is for the  *)
(* core and what the valet buys for him share no memory that a step of     *)
(* another reads, and the one table two of them know, identity_links, each *)
(* has to itself here, so a behaviour runs one of them: part, chosen at    *)
(* the start among Parts, says which.                                      *)
(***************************************************************************)
EXTENDS Wallet, SignIn, Linking, SigningKeys, Identity, Shopping, TLC

CONSTANTS c1, c2, a1, cheap, dear, e1, p1, p2,
          aurora, other, gold, far, k1, k2, s1, s2, r1,
          Parts

VARIABLE part

\* Requests are interchangeable, and so are the two brands, each with its member;
\* the properties of the run are safety properties.
MCBrands == {(aurora :> aurora) @@ (other :> other) @@ (gold :> gold) @@ (far :> far),
             (aurora :> other) @@ (other :> aurora) @@ (gold :> far) @@ (far :> gold)}
MCSymmetry == {callers @@ brands : callers \in Permutations({p1, p2}), brands \in MCBrands}

-----------------------------------------------------------------------------
\* Consent: one agent, a quote below what a grant authorises beforehand and
\* one above it; one patch narrows, the other would authorise more beforehand.
MCScopes == {"checkout:execute"}
MCAuthority ==
  [scopes |-> {"checkout:execute"}, per_txn |-> 2, per_month |-> 3, categories |-> {"shoes"},
   merchants |-> {AnyMerchant}, data_sharing |-> {}, pre_authorised_up_to |-> 1, exp |-> 2]
MCGrants == {[agent |-> a1, authority |-> MCAuthority]}
MCPatches == {("per_txn" :> 1), ("pre_authorised_up_to" :> 2)}
MCQuote == (cheap :> [amount |-> 1, agent |-> a1, consumer |-> None, expires_at |-> 1])
        @@ (dear  :> [amount |-> 2, agent |-> a1, consumer |-> c1, expires_at |-> 1])

\* Sign-in: two mails an hour for an address of the network, one for an email.
MCPerIp == Limiter(2, 2, 1)
MCPerEmail == Limiter(2, 1, 1)

\* Linking: a brand with the member of one consumer, and one with the other's.
MCProgramme == (gold :> aurora) @@ (far :> other)
MCOwner == (k1 :> c1)

\* Keys: a call in each of two processes, or both in one.
MCHomes == (k1 :> s1) @@ (k2 :> s2)
MCOneHome == (k1 :> s1) @@ (k2 :> s1)

\* Who a shopper is: requests that name a person and his member, or the member
\* and a seeded row by its own reference.
MCRows == {[ref |-> 1, hash |-> 1, sub |-> s1, consumer |-> c1, gold |-> TRUE, active |-> TRUE],
           [ref |-> 2, hash |-> 2, sub |-> s2, consumer |-> c2, gold |-> FALSE, active |-> FALSE]}
MCContexts == {<<c1, Unknown, s1, Unknown>>, <<Unknown, s1, 1, e1>>}

\* The valet: a text that names 50 pence; the model's answer, where there is one,
\* is unusable.
MCTexts == {[pounds |-> 0, digits |-> <<5>>]}
MCReplies == {NoModel, [search |-> "shoes", max |-> -1]}

-----------------------------------------------------------------------------
WalletPartsInit ==
  /\ part \in Parts
  /\ WalletInit /\ SignInInit /\ LinkingInit /\ SigningKeysInit
  /\ IdentityInit /\ (part # "identity" => wallet_schema)
  /\ ShoppingInit /\ (part # "shopping" => rail = "ucp")

WalletPartsNext ==
  \/ /\ part = "consent" /\ WalletNext
     /\ UNCHANGED <<part, signInVars, linkingVars, keyVars, identityVars, shoppingVars>>
  \/ /\ part = "sign-in" /\ SignInNext
     /\ UNCHANGED <<part, walletVars, linkingVars, keyVars, identityVars, shoppingVars>>
  \/ /\ part = "linking" /\ LinkingNext
     /\ UNCHANGED <<part, walletVars, signInVars, keyVars, identityVars, shoppingVars>>
  \/ /\ part = "keys" /\ SigningKeysNext
     /\ UNCHANGED <<part, walletVars, signInVars, linkingVars, identityVars, shoppingVars>>
  \/ /\ part = "identity" /\ IdentityNext
     /\ UNCHANGED <<part, walletVars, signInVars, linkingVars, keyVars, shoppingVars>>
  \/ /\ part = "shopping" /\ ShoppingNext
     /\ UNCHANGED <<part, walletVars, signInVars, linkingVars, keyVars, identityVars>>

WalletParts ==
  WalletPartsInit
  /\ [][WalletPartsNext]_<<part, walletVars, signInVars, linkingVars, keyVars, identityVars, shoppingVars>>

===============================================================================
