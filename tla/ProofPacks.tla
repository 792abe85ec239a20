------------------------------ MODULE ProofPacks ------------------------------
(***************************************************************************)
(* The reference verifier of conversion proof packs (packages/verifier/src *)
(* /verify.ts), run by an auditor offline against a pack of ledger rows    *)
(* and heads he holds from elsewhere, and the ledger the packs are cut     *)
(* from: one conversion's events in the order in which commitment, mint,   *)
(* intake and trio append them, numbers lost to rollbacks, heads           *)
(* published now and then.                                                 *)
(*                                                                         *)
(* A hash is the sequence of the bodies behind it.  A signature names the  *)
(* key and what was signed; a document that was altered carries the        *)
(* signature of the original.                                              *)
(***************************************************************************)
EXTENDS Integers, Sequences, FiniteSets

CONSTANTS
  Committed,         \* commitments, each [commitment_id, merchant, terms]
  Tokens,       \* token claims, each [jti, qid, cid]
  Claims,       \* signed claims, each [claim_id, merchant, token, order]
  MaxNumber,    \* bound on the sequence of the ledger
  MaxAnchors    \* bound on the published heads

\* Identifiers are unique, and no document is one that was altered.
ASSUME IdentifiersAssumption ==
  /\ \A c, d \in Committed : c.commitment_id = d.commitment_id => c = d
  /\ \A t, u \in Tokens : t.jti = u.jti => t = u
  /\ \A c, d \in Claims : c.claim_id = d.claim_id => c = d

ASSUME DocumentsAssumption ==
  /\ Committed \subseteq
       [commitment_id : STRING, merchant : STRING, terms : STRING \ {"altered"}]
  /\ \A c \in Claims :
       c \in [claim_id : STRING, merchant : STRING, token : {c.token}, order : STRING \ {"altered"}]

VARIABLES
  chain,         \* the ledger: seq, prev_hash, body and this_hash
  next_number,  \* events_seq_seq
  anchors       \* the published heads

packVars == <<chain, next_number, anchors>>

Body(type, data) == [type |-> type, data |-> data]
CommitmentCreated(cor) == Body("CommitmentCreated", cor)
TokenMinted(token) == Body("TokenMinted", token)
ConversionClaimed(claim) ==
  Body("ConversionClaimed", [claim_id |-> claim.claim_id, token |-> claim.token, order |-> claim.order])
Verdict(type, claim) == Body(type, [claim_id |-> claim.claim_id])
Verdicts(claim) == {Verdict(type, claim) : type \in {"ConversionVerified", "ConversionRejected"}}

Said == {row.body : row \in {chain[i] : i \in DOMAIN chain}}

\* The life of a conversion: a token of a live commitment, a claim of a minted
\* token, one verdict per claim, one verified claim per token, one reversal.
Appendable ==
     {CommitmentCreated(cor) : cor \in Committed}
  \cup {TokenMinted(t) : t \in {u \in Tokens :
          \E cor \in Committed : cor.commitment_id = u.cid /\ CommitmentCreated(cor) \in Said}}
  \cup {ConversionClaimed(c) : c \in {d \in Claims : TokenMinted(d.token) \in Said}}
  \cup (UNION {Verdicts(c) : c \in {d \in Claims :
          ConversionClaimed(d) \in Said /\ Verdicts(d) \cap Said = {}}})
  \cup {Verdict("ConversionReversed", c) : c \in {d \in Claims : Verdict("ConversionVerified", d) \in Said}}

TokenUsed(body) ==
  /\ body.type = "ConversionVerified"
  /\ \E c, d \in Claims : /\ c.claim_id = body.data.claim_id /\ d.token = c.token
                          /\ Verdict("ConversionVerified", d) \in Said

Tip == IF chain = <<>> THEN <<>> ELSE chain[Len(chain)].this_hash

AppendBody(body) ==
  /\ next_number <= MaxNumber
  /\ body \in Appendable \ Said /\ ~TokenUsed(body)
  /\ chain' = Append(chain, [seq |-> next_number, body |-> body, prev_hash |-> Tip,
                           this_hash |-> Append(Tip, body)])
  /\ next_number' = next_number + 1
  /\ UNCHANGED anchors

\* A transaction that had drawn a number is rolled back.
LoseNumber ==
  /\ next_number <= MaxNumber
  /\ next_number' = next_number + 1
  /\ UNCHANGED <<chain, anchors>>

PublishAnchor ==
  /\ chain # <<>> /\ Cardinality(anchors) < MaxAnchors
  /\ anchors' = anchors \cup {[seq |-> chain[Len(chain)].seq, head_hash |-> Tip]}
  /\ UNCHANGED <<chain, next_number>>

PacksInit == chain = <<>> /\ next_number = 1 /\ anchors = {}

PacksNext ==
  \/ \E body \in Appendable : AppendBody(body)
  \/ LoseNumber \/ PublishAnchor

PacksSpec == PacksInit /\ [][PacksNext]_packVars

-----------------------------------------------------------------------------
(***************************************************************************)
(* verifyProofPack.  The steps are taken in order and the first that finds *)
(* something wrong is the answer.                                          *)
(***************************************************************************)

Signed(document, key) == [by |-> key, over |-> document]
signatureVerifies(key, document, signature) == signature = Signed(document, key)

\* The first of the rows found in a slice; none when there is none.
FirstRow(events, found) ==
  IF found = {} THEN {} ELSE {events[CHOOSE i \in found : \A j \in found : i <= j]}

\* Mutant of ChainHolds: the end of the slice is not looked up among the heads.
ChainHoldsUnanchored(events, trust) ==
  \A i \in DOMAIN events :
    /\ events[i].this_hash = Append(events[i].prev_hash, events[i].body)
    /\ i < Len(events) =>
         /\ events[i + 1].seq = events[i].seq + 1
         /\ events[i + 1].prev_hash = events[i].this_hash

\* Step 1: recomputed hashes, continuity, and the anchor.
ChainHolds(events, trust) ==
  /\ \A i \in DOMAIN events :
       /\ events[i].this_hash = Append(events[i].prev_hash, events[i].body)
       /\ i < Len(events) =>
            /\ events[i + 1].seq = events[i].seq + 1
            /\ events[i + 1].prev_hash = events[i].this_hash
  /\ [seq |-> events[Len(events)].seq, head_hash |-> events[Len(events)].this_hash] \in trust

\* Step 2: both signatures of the COR, and its event, byte for byte.
CorHolds(pack) ==
  LET created == {i \in DOMAIN pack.events :
        /\ pack.events[i].body.type = "CommitmentCreated"
        /\ pack.events[i].body.data.commitment_id = pack.cor.commitment_id}
  IN  /\ signatureVerifies(pack.merchant_key, pack.cor, pack.cor_merchant_sig)
      /\ signatureVerifies("platform/commitments", pack.cor, pack.cor_platform_sig)
      /\ \E row \in FirstRow(pack.events, created) : row.body.data = pack.cor

\* Step 3: the token in the claim, its binding to the COR, and its event.
TokenHolds(pack) ==
  LET token == pack.claim.token
      minted == {i \in DOMAIN pack.events :
        /\ pack.events[i].body.type = "TokenMinted"
        /\ pack.events[i].body.data.jti = token.jti}
  IN  /\ signatureVerifies("platform/mint", token, pack.token_sig)
      /\ token.cid = pack.cor.commitment_id
      /\ \E row \in FirstRow(pack.events, minted) : row.body.data = token

\* Step 4: the merchant's signature, and what the ledger says was claimed.
ClaimHolds(pack) ==
  LET claimed == {i \in DOMAIN pack.events :
        /\ pack.events[i].body.type = "ConversionClaimed"
        /\ pack.events[i].body.data.claim_id = pack.claim.claim_id}
  IN  /\ signatureVerifies(pack.merchant_key, pack.claim, pack.claim_sig)
      /\ \E row \in FirstRow(pack.events, claimed) : row.body = ConversionClaimed(pack.claim)

\* Step 5: the verdict of the claim.
VerdictIn(pack) ==
  FirstRow(pack.events,
           {i \in DOMAIN pack.events : pack.events[i].body \in Verdicts(pack.claim)})

Invalid(step) == [outcome |-> "INVALID", step |-> step]

\* What an auditor can rely on: some head, whatever the pack says of itself.
trustIsWellFormed(trust) == trust # {}

\* The outcome that a verdict's row stands for.
Outcome(row, claim) ==
  [outcome |-> IF row.body.type = "ConversionVerified" THEN "VERIFIED" ELSE "REJECTED",
   claim_id |-> claim.claim_id]

\* No anchor, or a pack without rows, is refused before anything else.
verifyProofPack(pack, trust) ==
  IF ~trustIsWellFormed(trust) \/ pack.events = <<>> THEN Invalid("pack")
  ELSE IF ~ChainHolds(pack.events, trust) THEN Invalid("chain")
  ELSE IF ~CorHolds(pack) THEN Invalid("cor")
  ELSE IF ~TokenHolds(pack) THEN Invalid("token")
  ELSE IF ~ClaimHolds(pack) THEN Invalid("claim")
  ELSE IF VerdictIn(pack) = {} THEN Invalid("verdict")
  ELSE LET row == CHOOSE r \in VerdictIn(pack) : TRUE
       IN  Outcome(row, pack.claim)

\* merited-verify: a rejection that the ledger records is no failure.
exitCode(result) ==
  CASE result.outcome = "VERIFIED" -> 0
    [] result.outcome = "REJECTED" -> 2
    [] OTHER -> 1

-----------------------------------------------------------------------------
(* What a pack proves.                                                     *)

\* A pack cut from the ledger, with the documents as they were signed.
PackOf(cor, claim, first, last) ==
  [ events |-> SubSeq(chain, first, last), cor |-> cor, claim |-> claim,
    merchant_key |-> cor.merchant,
    cor_merchant_sig |-> Signed(cor, cor.merchant),
    cor_platform_sig |-> Signed(cor, "platform/commitments"),
    token_sig |-> Signed(claim.token, "platform/mint"),
    claim_sig |-> Signed(claim, claim.merchant) ]

Cuts == {cut \in (1 .. Len(chain)) \X (1 .. Len(chain)) : cut[1] <= cut[2]}

\* What can be wrong with a pack: a row, the COR or the claim altered.
Damaged(pack) ==
     {[pack EXCEPT !.events[i].body = Body("altered", [claim_id |-> "none"])] : i \in DOMAIN pack.events}
  \cup {[pack EXCEPT !.cor.terms = "altered"], [pack EXCEPT !.claim.order = "altered"]}

Contiguous(first, last) == \A i \in first .. (last - 1) : chain[i + 1].seq = chain[i].seq + 1

\* A pack verifies, or is reported rejected, only when the ledger under a head
\* decided that very claim so, for an order, a token and a commitment the ledger
\* holds too; nothing altered does.  And the pack of a decided claim, cut without
\* a lost number from its commitment to a head, is never called invalid
\* (verification.md:3, "The verdict is what the anchored ledger says").
ProofsFollowTheLedger ==
  \A cor \in Committed, claim \in Claims, cut \in Cuts :
    LET pack == PackOf(cor, claim, cut[1], cut[2])
        result == verifyProofPack(pack, anchors)
        behind == {chain[i].body : i \in cut[1] .. cut[2]}
        type == IF exitCode(result) = 0 THEN "ConversionVerified" ELSE "ConversionRejected"
    IN  /\ exitCode(result) \in {0, 2} =>
             /\ {CommitmentCreated(cor), TokenMinted(claim.token), ConversionClaimed(claim),
                 Verdict(type, claim)} \subseteq Said
             /\ \E head \in anchors : head.seq >= chain[cut[2]].seq
        /\ \A broken \in Damaged(pack) : exitCode(verifyProofPack(broken, anchors)) = 1
        /\ /\ {CommitmentCreated(cor), TokenMinted(claim.token), ConversionClaimed(claim)} \subseteq behind
           /\ Verdicts(claim) \cap behind # {}
           /\ claim.token.cid = cor.commitment_id /\ claim.merchant = cor.merchant
           /\ Contiguous(cut[1], cut[2])
           /\ \E head \in anchors : head.seq = chain[cut[2]].seq
           => exitCode(result) # 1

===============================================================================
