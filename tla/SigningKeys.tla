----------------------------- MODULE SigningKeys -----------------------------
(***************************************************************************)
(* The versions of one signing key (packages/signing/src/                  *)
(* ed25519-signer.ts) over the trio's store of sealed keys                 *)
(* (apps/trio/src/shared/pg-key-store.ts): signing, verifying, rotating    *)
(* and revoking, by calls that interleave in processes with caches of      *)
(* their own.                                                              *)
(*                                                                         *)
(* A version stands for its keypair, and its number for the order of its   *)
(* row; a signature is the version that made it.  Only the awaits on the   *)
(* store and on the KMS, which opens a sealed key, separate steps: between *)
(* two of them a process does one thing.                                   *)
(***************************************************************************)
EXTENDS Integers, FiniteSets

CONSTANTS
  Signers,        \* processes with an Ed25519Signer over the store
  KeyCalls,       \* bound: calls in flight at a time
  HomeOf,         \* the process of each call
  MaxVersions,    \* bound: versions of the key
  MaxRestarts,    \* bound: restarts of processes
  NoVersion

ASSUME KeysAssumption == MaxVersions \in Nat

Versions == 1..MaxVersions

VARIABLES
  signing_keys,   \* the status of each row of trio.signing_keys for the ref
  current,        \* each process: the version it signs with, when cached,
  opened,         \* the private keys it holds open,
  known,          \* and the public keys
  using,          \* the calls in flight
  signed,         \* history: the versions that signed,
  retired,        \* and those that signed in a process that had rotated to
                  \* a newer one before the call to sign began
  promoted,       \* history: the newest version each process rotated to
  verdicts,       \* history: the verdict that a call is to return
  restarts

keyCaches == <<current, opened, known>>
keyHistory == <<signed, retired, promoted, verdicts>>
keyVars == <<signing_keys, keyCaches, using, keyHistory, restarts>>

Unused == [step |-> "idle"]
NoVerdict == [dead |-> FALSE, accepted |-> FALSE, stands |-> FALSE]

Live == {v \in Versions : signing_keys[v] = "live"}
Dead == {v \in Versions : signing_keys[v] = "revoked"}
NextVersion == CHOOSE v \in Versions :
                 /\ signing_keys[v] = "none"
                 /\ \A w \in 1..(v - 1) : signing_keys[w] # "none"
Room == \E v \in Versions : signing_keys[v] = "none"

\* ORDER BY id DESC LIMIT 1, of the rows not revoked.
Newest == CHOOSE v \in Live : \A w \in Live : w <= v

StartCall(k, call) == using[k] = Unused /\ using' = [using EXCEPT ![k] = call]
KeyStep(k, step) == using[k].step = step
Move(k, step, version) ==
  using' = [using EXCEPT ![k].step = step, ![k].version = version]
Return(k) == using' = [using EXCEPT ![k] = Unused]

\* edSign with an opened key, for a call that began when the process had
\* rotated to the version floor.
Signature(v, floor) ==
  /\ signed' = signed \cup {v}
  /\ retired' = IF v < floor THEN retired \cup {v} ELSE retired

-----------------------------------------------------------------------------
\* sign: with the cached version at once, or else it looks for one.
Sign(k) ==
  /\ StartCall(k, [step |-> "load", version |-> NoVersion,
                   floor |-> promoted[HomeOf[k]]])
  /\ current[HomeOf[k]] = NoVersion
  /\ UNCHANGED <<signing_keys, keyCaches, keyHistory, restarts>>

SignCached(k) ==
  /\ using[k] = Unused
  /\ current[HomeOf[k]] # NoVersion
  /\ Signature(current[HomeOf[k]], promoted[HomeOf[k]])
  /\ UNCHANGED <<signing_keys, keyCaches, using, promoted, verdicts, restarts>>

LoadKey(k) ==
  /\ KeyStep(k, "load")
  /\ IF Live = {} THEN Move(k, "create", NoVersion) ELSE Move(k, "open", Newest)
  /\ UNCHANGED <<signing_keys, keyCaches, keyHistory, restarts>>

\* putIfAbsent: every candidate has a key id of its own, so the insert
\* conflicts with none; the row selected afterwards is the newest.
CreateKey(k) ==
  /\ KeyStep(k, "create")
  /\ Room
  /\ signing_keys' = [signing_keys EXCEPT ![NextVersion] = "live"]
  /\ Move(k, "adopt", NoVersion)
  /\ UNCHANGED <<keyCaches, keyHistory, restarts>>

AdoptKey(k) ==
  /\ KeyStep(k, "adopt")
  /\ IF Live = {} THEN Return(k) ELSE Move(k, "open", Newest)
  /\ UNCHANGED <<signing_keys, keyCaches, keyHistory, restarts>>

\* cacheVersion, and what ensureCurrent and sign do next: the version whose
\* row was read is the one to sign with, whatever happened meanwhile.
OpenKey(k) ==
  LET p == HomeOf[k]
      v == using[k].version
  IN  /\ KeyStep(k, "open")
      /\ known' = [known EXCEPT ![p] = @ \cup {v}]
      /\ opened' = [opened EXCEPT ![p] = @ \cup {v}]
      /\ current' = [current EXCEPT ![p] = v]
      /\ Signature(v, using[k].floor)
      /\ Return(k)
      /\ UNCHANGED <<signing_keys, promoted, verdicts, restarts>>

-----------------------------------------------------------------------------
\* The store's rotate: a row of a version of its own.
AddVersion == Room /\ signing_keys' = [signing_keys EXCEPT ![NextVersion] = "live"]

\* rotateKey: a new row, opened through the KMS, becomes the current one.
RotateKey(k) ==
  /\ AddVersion
  /\ StartCall(k, [step |-> "promote", version |-> NextVersion])
  /\ UNCHANGED <<keyCaches, keyHistory, restarts>>

PromoteKey(k) ==
  LET p == HomeOf[k]
      v == using[k].version
  IN  /\ KeyStep(k, "promote")
      /\ known' = [known EXCEPT ![p] = @ \cup {v}]
      /\ opened' = [opened EXCEPT ![p] = @ \cup {v}]
      /\ current' = [current EXCEPT ![p] = v]
      /\ promoted' = [promoted EXCEPT ![p] = IF v > @ THEN v ELSE @]
      /\ Return(k)
      /\ UNCHANGED <<signing_keys, signed, retired, verdicts, restarts>>

\* revokeKeyVersion: the row, and then what this process cached of it.
RevokeKey(k, v) ==
  /\ v \in Live
  /\ signing_keys' = [signing_keys EXCEPT ![v] = "revoked"]
  /\ StartCall(k, [step |-> "forget", version |-> v])
  /\ UNCHANGED <<keyCaches, keyHistory, restarts>>

ForgetKey(k) ==
  LET p == HomeOf[k]
      v == using[k].version
  IN  /\ KeyStep(k, "forget")
      /\ opened' = [opened EXCEPT ![p] = @ \ {v}]
      /\ known' = [known EXCEPT ![p] = @ \ {v}]
      /\ current' = [current EXCEPT ![p] = IF @ = v THEN NoVersion ELSE @]
      /\ Return(k)
      /\ UNCHANGED <<signing_keys, keyHistory, restarts>>

-----------------------------------------------------------------------------
\* verify, and usePublicKeyVersions for the tokens of the mint.
VerifySignature(k, v) ==
  /\ v \in signed
  /\ StartCall(k, [step |-> "candidates", version |-> v, dead |-> v \in Dead])
  /\ UNCHANGED <<signing_keys, keyCaches, keyHistory, restarts>>

\* loadVersions: what a signature is tried under.  Decoding a token is nothing
\* else: whatever fails in it fails closed.
LoadedVersions == Live
Decodes(v, versions) == v \in versions

\* Mutant of LoadCandidates: what the process knows is not read again.
LoadCandidatesOnce(k) ==
  LET p == HomeOf[k]
      candidates == IF known[p] = {} THEN Live ELSE known[p]
  IN  /\ KeyStep(k, "candidates")
      /\ known' = [known EXCEPT ![p] = candidates]
      /\ using' = [using EXCEPT ![k].step = "check"] 
      /\ verdicts' = [verdicts EXCEPT ![k] =
           [dead |-> using[k].dead,
            accepted |-> using[k].version \in candidates,
            stands |-> using[k].version \in Live]]
      /\ UNCHANGED <<signing_keys, current, opened, signed, retired, promoted, restarts>>

\* loadVersions, newest first; each one's public key is cached, and the
\* signature is tried under each of them.
LoadCandidates(k) ==
  LET p == HomeOf[k]
  IN  /\ KeyStep(k, "candidates")
      /\ known' = [known EXCEPT ![p] = @ \cup LoadedVersions]
      /\ using' = [using EXCEPT ![k].step = "check"]
      /\ verdicts' = [verdicts EXCEPT ![k] =
           [dead |-> using[k].dead,
            accepted |-> Decodes(using[k].version, LoadedVersions),
            stands |-> using[k].version \in Live]]
      /\ UNCHANGED <<signing_keys, current, opened, signed, retired, promoted, restarts>>

AnswerVerify(k) ==
  /\ KeyStep(k, "check")
  /\ Return(k)
  /\ verdicts' = [verdicts EXCEPT ![k] = NoVerdict]
  /\ UNCHANGED <<signing_keys, keyCaches, signed, retired, promoted, restarts>>

\* The store or the KMS fails: the call throws.
FailKeyCall(k) ==
  /\ using[k] # Unused
  /\ Return(k)
  /\ verdicts' = [verdicts EXCEPT ![k] = NoVerdict]
  /\ UNCHANGED <<signing_keys, keyCaches, signed, retired, promoted, restarts>>

RestartSigner(p) ==
  /\ restarts < MaxRestarts
  /\ restarts' = restarts + 1
  /\ using' = [k \in KeyCalls |-> IF HomeOf[k] = p THEN Unused ELSE using[k]]
  /\ verdicts' = [k \in KeyCalls |->
                    IF HomeOf[k] = p THEN NoVerdict ELSE verdicts[k]]
  /\ current' = [current EXCEPT ![p] = NoVersion]
  /\ opened' = [opened EXCEPT ![p] = {}]
  /\ known' = [known EXCEPT ![p] = {}]
  /\ UNCHANGED <<signing_keys, signed, retired, promoted>>

SigningKeysInit ==
  /\ signing_keys = [v \in Versions |-> "none"]
  /\ current = [p \in Signers |-> NoVersion]
  /\ opened = [p \in Signers |-> {}]
  /\ known = [p \in Signers |-> {}]
  /\ using = [k \in KeyCalls |-> Unused]
  /\ signed = {} /\ retired = {}
  /\ promoted = [p \in Signers |-> 0]
  /\ verdicts = [k \in KeyCalls |-> NoVerdict]
  /\ restarts = 0

SigningKeysNext ==
  \/ \E k \in KeyCalls :
       \/ Sign(k) \/ SignCached(k) \/ LoadKey(k) \/ CreateKey(k) \/ AdoptKey(k)
       \/ OpenKey(k) \/ RotateKey(k) \/ PromoteKey(k) \/ ForgetKey(k)
       \/ LoadCandidates(k) \/ AnswerVerify(k) \/ FailKeyCall(k)
       \/ \E v \in Versions : RevokeKey(k, v) \/ VerifySignature(k, v)
  \/ \E p \in Signers : RestartSigner(p)

SigningKeysSpec == SigningKeysInit /\ [][SigningKeysNext]_keyVars

-----------------------------------------------------------------------------
\* Whoever signed and whoever verifies, and whatever either has cached: a
\* signature is refused once its version was revoked before the question
\* was asked, and accepted while its version stands ("everywhere else on
\* the next store read", ed25519-signer.ts:199).
VerdictsFollowTheStore ==
  \A k \in KeyCalls :
    /\ verdicts[k].dead => ~verdicts[k].accepted
    /\ verdicts[k].stands => verdicts[k].accepted

\* "it signs from that moment", and the version before "never signs again"
\* (runbooks/key-rotation.md): a call that begins in a process after a
\* rotation there has returned signs with that version or a newer one.  It
\* does not: a first signature in flight makes its older version current.
RetiredNeverSigns == retired = {}

=============================================================================
