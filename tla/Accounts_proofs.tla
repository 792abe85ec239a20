---------------------------- MODULE Accounts_proofs ----------------------------
(***************************************************************************)
(* Proofs about the parts that keep accounts: the versions of a signing    *)
(* key (SigningKeys), the errands a valet shops for (Shopping), loyalty    *)
(* accounts linked to a wallet (Linking), who a shopper is for the core    *)
(* (Identity) and how he gets into the wallet (SignIn).  Each has an       *)
(* inductive invariant, one lemma per operation, and a theorem.            *)
(***************************************************************************)
EXTENDS SigningKeys, Shopping, Linking, Identity, SignIn,
        FiniteSetTheorems, WellFoundedInduction, TLAPS

-----------------------------------------------------------------------------
(* The signing keys.                                                       *)

\* What a call holds at each place in the code.
IsCall(c) ==
  \/ c = Unused
  \/ c \in [step : {"load", "create", "adopt", "open"}, version : {c.version}, floor : {c.floor}]
  \/ c \in [step : {"promote", "forget"}, version : {c.version}]
  \/ c \in [step : {"candidates", "check"}, version : Versions, dead : BOOLEAN]

KeysTypeOK ==
  /\ signing_keys \in [Versions -> {"none", "live", "revoked"}]
  /\ DOMAIN using = KeyCalls /\ using = [k \in KeyCalls |-> using[k]]
  /\ \A k \in KeyCalls : IsCall(using[k])
  /\ verdicts \in [KeyCalls -> [dead : BOOLEAN, accepted : BOOLEAN, stands : BOOLEAN]]

\* Rows are numbered as they come, so a new version never takes an old one's row.
NumberedInOrder ==
  \E n \in 0..MaxVersions : \A v \in Versions : signing_keys[v] = "none" <=> v > n

\* A version that was revoked when the question was asked still is.
AskedOfTheDead ==
  \A k \in KeyCalls : KeyStep(k, "candidates") /\ using[k].dead => using[k].version \in Dead

KeysInv == KeysTypeOK /\ NumberedInOrder /\ AskedOfTheDead /\ VerdictsFollowTheStore

LEMMA NextVersionIsFresh ==
  ASSUME KeysTypeOK, NumberedInOrder, Room
  PROVE  /\ NextVersion \in Versions
         /\ signing_keys[NextVersion] = "none"
         /\ \A v \in Versions : signing_keys[v] = "none" /\ v # NextVersion => v > NextVersion
<1>1. PICK n \in 0..MaxVersions : \A v \in Versions : signing_keys[v] = "none" <=> v > n
  BY DEF NumberedInOrder
<1>2. n + 1 \in Versions
  BY <1>1, KeysAssumption DEF Room, Versions
<1>3. signing_keys[n + 1] = "none" /\ \A w \in 1..((n + 1) - 1) : signing_keys[w] # "none"
  BY <1>1, <1>2, KeysAssumption DEF Versions
<1>4. /\ NextVersion \in Versions
      /\ signing_keys[NextVersion] = "none"
      /\ \A w \in 1..(NextVersion - 1) : signing_keys[w] # "none"
  BY <1>2, <1>3 DEF NextVersion
<1> QED
  BY <1>4, KeysAssumption DEF Versions

\* A row that is added or revoked leaves the rows numbered in order, and what was
\* revoked revoked.
LEMMA AddKeeps ==
  ASSUME KeysTypeOK, NumberedInOrder, AddVersion
  PROVE  /\ NextVersion \in Versions
         /\ signing_keys' \in [Versions -> {"none", "live", "revoked"}]
         /\ NumberedInOrder'
         /\ Dead \subseteq Dead'
<1>1. Room /\ signing_keys' = [signing_keys EXCEPT ![NextVersion] = "live"]
  BY DEF AddVersion
<1>2. /\ NextVersion \in Versions
      /\ signing_keys[NextVersion] = "none"
      /\ \A v \in Versions : signing_keys[v] = "none" /\ v # NextVersion => v > NextVersion
  BY <1>1, NextVersionIsFresh
<1>3. signing_keys' \in [Versions -> {"none", "live", "revoked"}]
  BY <1>1, <1>2 DEF KeysTypeOK
<1>4. PICK n \in 0..MaxVersions : \A v \in Versions : signing_keys[v] = "none" <=> v > n
  BY DEF NumberedInOrder
<1>5. NextVersion = n + 1
  <2>1. NextVersion > n
    BY <1>2, <1>4
  <2>2. n + 1 \in Versions /\ signing_keys[n + 1] = "none"
    BY <1>2, <1>4, <2>1, KeysAssumption DEF Versions
  <2> QED
    BY <1>2, <1>4, <2>1, <2>2, KeysAssumption DEF Versions
<1>6. /\ n + 1 \in 0..MaxVersions
      /\ \A v \in Versions : signing_keys'[v] = "none" <=> v > n + 1
  BY <1>1, <1>2, <1>4, <1>5, KeysAssumption DEF Versions, KeysTypeOK
<1>7. Dead \subseteq Dead'
  BY <1>1, <1>2 DEF Dead, KeysTypeOK
<1> QED
  BY <1>2, <1>3, <1>6, <1>7 DEF NumberedInOrder, Versions

LEMMA RevokeKeeps ==
  ASSUME KeysTypeOK, NumberedInOrder, NEW v \in Live,
         signing_keys' = [signing_keys EXCEPT ![v] = "revoked"]
  PROVE  /\ v \in Versions
         /\ signing_keys' \in [Versions -> {"none", "live", "revoked"}]
         /\ NumberedInOrder'
         /\ Dead \subseteq Dead'
<1>1. PICK n \in 0..MaxVersions : \A w \in Versions : signing_keys[w] = "none" <=> w > n
  BY DEF NumberedInOrder
<1>2. \A w \in Versions : signing_keys'[w] = "none" <=> w > n
  BY <1>1 DEF Live, KeysTypeOK
<1> QED
  BY <1>1, <1>2 DEF Live, Dead, KeysTypeOK, NumberedInOrder, Versions

\* A step of one call that asks no question leaves the others' questions as they are.
LEMMA OneCallMoves ==
  ASSUME KeysInv, NEW k \in KeyCalls, NEW call, IsCall(call),
         using' = [using EXCEPT ![k] = call],
         call.step = "candidates" /\ call.dead => call.version \in Dead,
         signing_keys' \in [Versions -> {"none", "live", "revoked"}],
         NumberedInOrder', Dead \subseteq Dead',
         UNCHANGED verdicts
  PROVE  KeysInv'
<1>1. KeysTypeOK'
  BY DEF KeysInv, KeysTypeOK
<1>2. AskedOfTheDead'
  BY DEF KeysInv, KeysTypeOK, AskedOfTheDead, KeyStep
<1>3. VerdictsFollowTheStore'
  BY DEF KeysInv, VerdictsFollowTheStore
<1> QED
  BY <1>1, <1>2, <1>3 DEF KeysInv

\* And so does one that answers or throws.
LEMMA OneCallReturns ==
  ASSUME KeysInv, NEW k \in KeyCalls, Return(k), verdicts' = [verdicts EXCEPT ![k] = NoVerdict],
         UNCHANGED signing_keys
  PROVE  KeysInv'
<1>1. NoVerdict \in [dead : BOOLEAN, accepted : BOOLEAN, stands : BOOLEAN] /\ IsCall(Unused)
  BY DEF NoVerdict, Unused, IsCall
<1>2. KeysTypeOK'
  BY <1>1 DEF KeysInv, KeysTypeOK, Return
<1>3. NumberedInOrder'
  BY DEF KeysInv, NumberedInOrder
<1>4. AskedOfTheDead'
  BY DEF KeysInv, KeysTypeOK, AskedOfTheDead, KeyStep, Return, Unused, Dead
<1>5. VerdictsFollowTheStore'
  BY DEF KeysInv, KeysTypeOK, VerdictsFollowTheStore, NoVerdict
<1> QED
  BY <1>2, <1>3, <1>4, <1>5 DEF KeysInv

LEMMA KeysInvInit == SigningKeysInit => KeysInv
<1> SUFFICES ASSUME SigningKeysInit PROVE KeysInv
  OBVIOUS
<1>1. KeysTypeOK
  BY DEF SigningKeysInit, KeysTypeOK, IsCall, Unused, NoVerdict
<1>2. NumberedInOrder
  <2>1. 0 \in 0..MaxVersions /\ \A v \in Versions : signing_keys[v] = "none" <=> v > 0
    BY KeysAssumption DEF SigningKeysInit, Versions
  <2> QED
    BY <2>1 DEF NumberedInOrder
<1>3. AskedOfTheDead /\ VerdictsFollowTheStore
  BY DEF SigningKeysInit, AskedOfTheDead, KeyStep, Unused, VerdictsFollowTheStore, NoVerdict
<1> QED
  BY <1>1, <1>2, <1>3 DEF KeysInv

LEMMA KeysStep == KeysInv /\ [SigningKeysNext]_keyVars => KeysInv'
<1> SUFFICES ASSUME KeysInv, [SigningKeysNext]_keyVars PROVE KeysInv'
  OBVIOUS
<1> USE DEF KeysInv
<1>1. CASE UNCHANGED keyVars
  BY <1>1 DEF keyVars, keyHistory, KeysTypeOK, NumberedInOrder, AskedOfTheDead, KeyStep, Dead,
     VerdictsFollowTheStore
<1>2. ASSUME NEW k \in KeyCalls, UNCHANGED <<signing_keys, verdicts>>,
             \/ Sign(k) \/ LoadKey(k) \/ AdoptKey(k) \/ OpenKey(k) \/ PromoteKey(k)
             \/ ForgetKey(k)
      PROVE  KeysInv'
  <2>1. NumberedInOrder' /\ Dead \subseteq Dead' /\ signing_keys' \in [Versions -> {"none", "live", "revoked"}]
    BY <1>2 DEF NumberedInOrder, Dead, KeysTypeOK
  <2>2. PICK call : IsCall(call) /\ call.step # "candidates" /\ using' = [using EXCEPT ![k] = call]
    <3>1. CASE Sign(k)
      BY <3>1 DEF Sign, StartCall, IsCall
    <3>2. CASE LoadKey(k) \/ AdoptKey(k)
      <4>1. using[k] \in [step : {"load", "adopt"}, version : {using[k].version}, floor : {using[k].floor}]
        BY <3>2 DEF LoadKey, AdoptKey, KeyStep, KeysTypeOK, IsCall, Unused
      <4>2. ASSUME NEW step \in {"create", "open"}, NEW v, Move(k, step, v)
            PROVE  \E call : IsCall(call) /\ call.step # "candidates" /\ using' = [using EXCEPT ![k] = call]
        <5> DEFINE moved == [[using[k] EXCEPT !.step = step] EXCEPT !.version = v]
        <5>1. moved \in [step : {step}, version : {v}, floor : {using[k].floor}]
          BY <4>1
        <5>2. IsCall(moved) /\ moved.step # "candidates"
          BY <5>1 DEF IsCall
        <5>3. using' = [using EXCEPT ![k] = moved]
          BY <4>2 DEF Move, KeysTypeOK
        <5> QED
          BY <5>2, <5>3
      <4>3. CASE Return(k)
        BY <4>3 DEF Return, Unused, IsCall
      <4> QED
        BY <3>2, <4>2, <4>3 DEF LoadKey, AdoptKey
    <3>3. CASE OpenKey(k) \/ PromoteKey(k) \/ ForgetKey(k)
      BY <3>3 DEF OpenKey, PromoteKey, ForgetKey, Return, Unused, IsCall
    <3> QED
      BY <1>2, <3>1, <3>2, <3>3
  <2> QED
    BY <1>2, <2>1, <2>2, OneCallMoves
<1>3. ASSUME NEW k \in KeyCalls, SignCached(k)
      PROVE  KeysInv'
  BY <1>3 DEF SignCached, KeysTypeOK, NumberedInOrder, AskedOfTheDead, KeyStep, Dead,
     VerdictsFollowTheStore
<1>4. ASSUME NEW k \in KeyCalls, CreateKey(k) \/ RotateKey(k)
      PROVE  KeysInv'
  <2>1. AddVersion /\ UNCHANGED verdicts
    BY <1>4 DEF CreateKey, RotateKey, AddVersion, keyHistory
  <2>2. PICK call : IsCall(call) /\ call.step # "candidates" /\ using' = [using EXCEPT ![k] = call]
    <3>1. CASE CreateKey(k)
      <4> DEFINE moved == [[using[k] EXCEPT !.step = "adopt"] EXCEPT !.version = NoVersion]
      <4>1. using[k] \in [step : {"create"}, version : {using[k].version}, floor : {using[k].floor}]
        BY <3>1 DEF CreateKey, KeyStep, KeysTypeOK, IsCall, Unused
      <4>2. moved \in [step : {"adopt"}, version : {NoVersion}, floor : {using[k].floor}]
        BY <4>1
      <4>3. IsCall(moved) /\ moved.step # "candidates"
        BY <4>2 DEF IsCall
      <4>4. using' = [using EXCEPT ![k] = moved]
        BY <3>1 DEF CreateKey, Move, KeysTypeOK
      <4> QED
        BY <4>3, <4>4
    <3>2. CASE RotateKey(k)
      BY <3>2 DEF RotateKey, StartCall, IsCall
    <3> QED
      BY <1>4, <3>1, <3>2
  <2> QED
    BY <2>1, <2>2, AddKeeps, OneCallMoves
<1>5. ASSUME NEW k \in KeyCalls, NEW v \in Versions, RevokeKey(k, v)
      PROVE  KeysInv'
  <2> DEFINE call == [step |-> "forget", version |-> v]
  <2>1. IsCall(call) /\ call.step # "candidates" /\ using' = [using EXCEPT ![k] = call]
    BY <1>5 DEF RevokeKey, StartCall, IsCall
  <2>2. UNCHANGED verdicts /\ v \in Live /\ signing_keys' = [signing_keys EXCEPT ![v] = "revoked"]
    BY <1>5 DEF RevokeKey, keyHistory
  <2> QED
    BY <2>1, <2>2, RevokeKeeps, OneCallMoves
<1>6. ASSUME NEW k \in KeyCalls, NEW v \in Versions, VerifySignature(k, v)
      PROVE  KeysInv'
  <2> DEFINE call == [step |-> "candidates", version |-> v, dead |-> v \in Dead]
  <2>1. call \in [step : {"candidates"}, version : {v}, dead : BOOLEAN]
    OBVIOUS
  <2>2. IsCall(call) /\ (call.dead => call.version \in Dead) /\ using' = [using EXCEPT ![k] = call]
    BY <1>6, <2>1 DEF VerifySignature, StartCall, IsCall
  <2>3. UNCHANGED <<signing_keys, verdicts>>
    BY <1>6 DEF VerifySignature, keyHistory
  <2> HIDE DEF call
  <2>4. NumberedInOrder' /\ Dead \subseteq Dead' /\ signing_keys' \in [Versions -> {"none", "live", "revoked"}]
    BY <2>3 DEF NumberedInOrder, Dead, KeysTypeOK
  <2> QED
    BY <2>2, <2>3, <2>4, OneCallMoves
<1>7. ASSUME NEW k \in KeyCalls, LoadCandidates(k)
      PROVE  KeysInv'
  <2> DEFINE v == using[k].version  was == using[k].dead
             verdict == [dead |-> was, accepted |-> v \in Live, stands |-> v \in Live]
             moved == [using[k] EXCEPT !.step = "check"]
  <2>1. using[k] \in [step : {"candidates"}, version : Versions, dead : BOOLEAN]
    BY <1>7 DEF LoadCandidates, KeyStep, KeysTypeOK, IsCall, Unused
  <2>2. moved \in [step : {"check"}, version : Versions, dead : BOOLEAN]
    BY <2>1
  <2>3. was => ~(v \in Live)
    BY <1>7 DEF LoadCandidates, AskedOfTheDead, Dead, Live
  <2>4. /\ verdict \in [dead : BOOLEAN, accepted : BOOLEAN, stands : BOOLEAN]
        /\ verdict.dead => ~verdict.accepted
        /\ verdict.stands => verdict.accepted
    <3>1. was \in BOOLEAN
      BY <2>1
    <3> DEFINE live == v \in Live
    <3>2. live \in BOOLEAN /\ (was => ~live)
      BY <2>3
    <3> HIDE DEF was, live
    <3>3. [dead |-> was, accepted |-> live, stands |-> live]
             \in [dead : {was}, accepted : {live}, stands : {live}]
      OBVIOUS
    <3> QED
      BY <3>1, <3>2, <3>3 DEF live
  <2>5. /\ using' = [using EXCEPT ![k] = moved]
        /\ verdicts' = [verdicts EXCEPT ![k] = verdict]
        /\ UNCHANGED signing_keys
    BY <1>7 DEF LoadCandidates, Decodes, LoadedVersions
  <2> HIDE DEF v, was, verdict, moved
  <2>6. KeysTypeOK'
    BY <2>2, <2>4, <2>5 DEF KeysTypeOK, IsCall
  <2>7. NumberedInOrder' /\ AskedOfTheDead'
    BY <2>2, <2>5 DEF NumberedInOrder, AskedOfTheDead, KeyStep, Dead, KeysTypeOK
  <2>8. VerdictsFollowTheStore'
    BY <2>4, <2>5 DEF VerdictsFollowTheStore, KeysTypeOK
  <2> QED
    BY <2>6, <2>7, <2>8
<1>8. ASSUME NEW k \in KeyCalls, AnswerVerify(k) \/ FailKeyCall(k)
      PROVE  KeysInv'
  BY <1>8, OneCallReturns DEF AnswerVerify, FailKeyCall
<1>9. ASSUME NEW p \in Signers, RestartSigner(p)
      PROVE  KeysInv'
  <2>1. /\ \A k \in KeyCalls : using'[k] = Unused \/ using'[k] = using[k]
        /\ \A k \in KeyCalls : verdicts'[k] = NoVerdict \/ verdicts'[k] = verdicts[k]
        /\ using' = [k \in KeyCalls |-> IF HomeOf[k] = p THEN Unused ELSE using[k]]
        /\ verdicts' = [k \in KeyCalls |-> IF HomeOf[k] = p THEN NoVerdict ELSE verdicts[k]]
        /\ UNCHANGED signing_keys
    BY <1>9 DEF RestartSigner
  <2>2. NoVerdict \in [dead : BOOLEAN, accepted : BOOLEAN, stands : BOOLEAN]
    BY DEF NoVerdict
  <2>3. KeysTypeOK'
    BY <2>1, <2>2 DEF KeysTypeOK, IsCall
  <2>4. NumberedInOrder' /\ AskedOfTheDead'
    BY <2>1 DEF NumberedInOrder, AskedOfTheDead, KeyStep, Dead, Unused
  <2>5. VerdictsFollowTheStore'
    BY <2>1 DEF VerdictsFollowTheStore, NoVerdict
  <2> QED
    BY <2>3, <2>4, <2>5
<1> QED
  BY <1>1, <1>2, <1>3, <1>4, <1>5, <1>6, <1>7, <1>8, <1>9
     DEF SigningKeysNext, Sign, LoadKey, AdoptKey, OpenKey, PromoteKey, ForgetKey, keyHistory

\* Whoever signed, verifies, rotates, revokes or restarts, and whatever each of
\* them has cached: a verdict is that of the store, and a version revoked before
\* the question is refused.
THEOREM VerdictsCorrect == SigningKeysSpec => []VerdictsFollowTheStore
<1>1. KeysInv => VerdictsFollowTheStore
  BY DEF KeysInv
<1> QED
  BY <1>1, KeysInvInit, KeysStep, PTL DEF SigningKeysSpec

-----------------------------------------------------------------------------
(* The valet's shopping.                                                   *)

Ceilings == Int \cup {NoPrice}
Steps == {"off", "load", "register", "save", "create", "search", "buy", "wait", "poll"}
Bought(w) == wants[w] # Nil /\ wants[w].quote # Nil

\* The core has taken an order in with the token of errand w.
InCore(w) ==
  \E key \in DOMAIN taken_in : taken_in[key].want = w /\ taken_in[key].token = wants[w].quote

\* What a process holds: the identity that is stored, once one is, and from the
\* search on an errand, with its quote from the checkout on.
ValetOK(v) ==
  /\ v \in [step : Steps, held : Nat \cup {Nil}, want : Wants \cup {Nil}, ceiling : Ceilings]
  /\ v.want # Nil => wants[v.want] # Nil
  /\ v.step \in {"register", "save"} => credentials = Nil /\ v.want = Nil
  /\ v.step = "save" => v.held # Nil
  /\ v.step \in {"create", "search", "buy", "wait", "poll"} =>
       credentials # Nil /\ v.held = credentials
  /\ v.step \in {"search", "buy", "wait", "poll"} => v.want # Nil
  /\ v.step \in {"buy", "wait", "poll"} => Bought(v.want)

WantOK(w) ==
  wants[w] # Nil =>
    /\ wants[w] \in WantRows
    /\ credentials # Nil /\ wants[w].agent = credentials
    /\ wants[w].quote # Nil =>
         /\ wants[w].quote \in 1..Len(quoted)
         /\ quoted[wants[w].quote].owner = credentials
         /\ Within(quoted[wants[w].quote].amount, wants[w].ceiling)

\* A webhook on its way is for an errand and carries that errand's token.
OrderOK(d) ==
  /\ d \in [want : Wants, number : {d.number}, key : {d.key}, left : {d.left}, to : Valets,
            body : [want : {d.want}, token : {wants[d.want].quote}, at : {d.body.at}]]
  /\ Bought(d.want)

TellingOK(w, webhook) == Bought(w) /\ (webhook = "delivered" => InCore(w))

ShoppingTypeOK ==
  /\ credentials \in Nat \cup {Nil} /\ registered \in Nat
  /\ wants = [w \in Wants |-> wants[w]]
  /\ valets = [p \in Valets |-> valets[p]]
  /\ confirmations = [w \in Wants |-> confirmations[w]]
  /\ quoted \in Seq([owner : Nat, amount : Prices])

\* Until an identity is stored one process is at work and there is no errand.
FirstUse ==
  credentials = Nil =>
    /\ \A p, o \in Valets : p # o => In(p, "off") \/ In(o, "off")
    /\ \A w \in Wants : wants[w] = Nil

ShoppingInv ==
  /\ ShoppingTypeOK /\ FirstUse
  /\ \A p \in Valets : ValetOK(valets[p])
  /\ \A w \in Wants : WantOK(w)
  /\ \A d \in sending : OrderOK(d)
  /\ \A t \in told : t.want \in Wants /\ TellingOK(t.want, t.webhook)
  /\ \A w \in Wants : confirmations[w] # Nil => TellingOK(w, confirmations[w].webhook)

LEMMA ShoppingInvBuys == ShoppingInv => BoughtAsAsked
<1> SUFFICES ASSUME ShoppingInv PROVE BoughtAsAsked
  OBVIOUS
<1>1. \A w \in Wants : wants[w] # Nil =>
        /\ wants[w].agent = credentials
        /\ wants[w].quote # Nil =>
             /\ quoted[wants[w].quote].owner = credentials
             /\ Within(quoted[wants[w].quote].amount, wants[w].ceiling)
  BY DEF ShoppingInv, WantOK
<1>2. \A p \in Valets : In(p, "poll") => MayPoll(p)
  BY DEF ShoppingInv, ValetOK, WantOK, Bought, In, MayPoll, QuoteFor
<1>3. \A t \in told : t.webhook = "delivered" => InCore(t.want)
  BY DEF ShoppingInv, TellingOK
<1> QED
  BY <1>1, <1>2, <1>3 DEF BoughtAsAsked, InCore

LEMMA ShoppingInvInit == ShoppingInit => ShoppingInv
<1> SUFFICES ASSUME ShoppingInit PROVE ShoppingInv
  OBVIOUS
<1>1. ShoppingTypeOK /\ FirstUse
  BY DEF ShoppingInit, ShoppingTypeOK, FirstUse, In, Off
<1>2. ASSUME NEW p \in Valets
      PROVE  ValetOK(valets[p])
  <2>1. valets[p] = Off
    BY DEF ShoppingInit
  <2> QED
    BY <2>1, ShoppingAssumption DEF Off, ValetOK, Steps, Ceilings
<1> QED
  BY <1>1, <1>2 DEF ShoppingInit, ShoppingInv, WantOK

-----------------------------------------------------------------------------
\* What a step may do to what others rely on: an identity stays, an errand keeps
\* its quote, the core forgets no request and no quote.
ShopMovesOn ==
  /\ credentials # Nil => credentials' = credentials
  /\ \A w \in Wants : wants[w] # Nil => wants'[w] # Nil
  /\ \A w \in Wants : Bought(w) => wants'[w].quote = wants[w].quote
  /\ \A key \in DOMAIN taken_in : key \in DOMAIN taken_in' /\ taken_in'[key] = taken_in[key]

LEMMA TellingStays ==
  ASSUME ShopMovesOn, NEW w \in Wants, NEW webhook, TellingOK(w, webhook)
  PROVE  TellingOK(w, webhook)'
BY DEF ShopMovesOn, TellingOK, Bought, InCore

LEMMA OrderStays ==
  ASSUME ShopMovesOn, NEW d, OrderOK(d)
  PROVE  OrderOK(d)'
BY DEF ShopMovesOn, OrderOK, Bought

LEMMA ValetStays ==
  ASSUME ShopMovesOn, NEW v, ValetOK(v), credentials' = credentials \/ v.step \notin {"register", "save"}
  PROVE  ValetOK(v)'
BY DEF ShopMovesOn, ValetOK, Bought

\* So after such a step only what it changed has to be looked at.
LEMMA ShoppingMoves ==
  ASSUME ShoppingInv, ShopMovesOn, ShoppingTypeOK', FirstUse',
         NEW p \in Valets, ValetOK(valets[p])', \A o \in Valets \ {p} : valets'[o] = valets[o],
         credentials' = credentials \/ \A o \in Valets \ {p} : In(o, "off"),
         \A w \in Wants : WantOK(w)',
         \A d \in sending' \ sending : OrderOK(d)',
         \A t \in told' \ told : t.want \in Wants /\ TellingOK(t.want, t.webhook)',
         \A w \in Wants : \/ confirmations'[w] \in {confirmations[w], Nil}
                          \/ TellingOK(w, confirmations[w].webhook)'
  PROVE  ShoppingInv'
<1>1. \A o \in Valets : ValetOK(valets[o])'
  <2>1. ASSUME NEW o \in Valets \ {p}
        PROVE  ValetOK(valets[o])'
    <3>1. ValetOK(valets[o]) /\ (credentials' = credentials \/ valets[o].step \notin {"register", "save"})
      BY DEF ShoppingInv, In
    <3>2. PICK v : v = valets[o]
      OBVIOUS
    <3>3. ValetOK(v) /\ (credentials' = credentials \/ v.step \notin {"register", "save"})
      BY <3>1, <3>2
    <3>4. ValetOK(v)'
      BY <3>3, ValetStays
    <3> QED
      BY <3>2, <3>4
  <2> QED
    BY <2>1
<1>2. \A d \in sending' : OrderOK(d)'
  BY OrderStays DEF ShoppingInv
<1>3. ASSUME NEW t \in told'
      PROVE  t.want \in Wants /\ TellingOK(t.want, t.webhook)'
  <2>1. CASE t \in told
    <3>1. t.want \in Wants /\ TellingOK(t.want, t.webhook)
      BY <2>1 DEF ShoppingInv
    <3> QED
      BY <3>1, TellingStays
  <2> QED
    BY <2>1
<1>4. ASSUME NEW w \in Wants, confirmations'[w] # Nil
      PROVE  TellingOK(w, confirmations[w].webhook)'
  <2>1. CASE confirmations'[w] = confirmations[w]
    <3>1. PICK webhook : webhook = confirmations[w].webhook
      OBVIOUS
    <3>2. TellingOK(w, webhook)
      BY <1>4, <2>1, <3>1 DEF ShoppingInv
    <3>3. TellingOK(w, webhook)'
      BY <3>2, TellingStays
    <3> QED
      BY <2>1, <3>1, <3>3
  <2> QED
    BY <1>4, <2>1
<1> QED
  BY <1>1, <1>2, <1>3, <1>4 DEF ShoppingInv

\* A process that alone moves.
LEMMA OneValetMoves ==
  ASSUME ShoppingInv, NEW p \in Valets, NEW v, ValetOK(v),
         valets' = [valets EXCEPT ![p] = v],
         In(p, "off") => v.step = "off" \/ credentials # Nil \/ \A o \in Valets \ {p} : In(o, "off"),
         registered' \in Nat, UNCHANGED <<credentials, asked, shopVars, taken_in, told>>
  PROVE  ShoppingInv'
<1>0. UNCHANGED <<wants, quoted, sending, confirmations>>
  BY DEF asked, shopVars
<1>1. ShopMovesOn
  BY <1>0 DEF ShopMovesOn, Bought
<1>2. valets'[p] = v /\ \A o \in Valets \ {p} : valets'[o] = valets[o]
  BY DEF ShoppingInv, ShoppingTypeOK
<1>3. ShoppingTypeOK'
  BY <1>0 DEF ShoppingInv, ShoppingTypeOK
<1>4. FirstUse'
  BY <1>0, <1>2 DEF ShoppingInv, FirstUse, In
<1>5. ValetOK(valets[p])'
  <2>1. ValetOK(v)'
    BY <1>1, ValetStays
  <2> QED
    BY <1>2, <2>1
<1>6. \A w \in Wants : WantOK(w)'
  BY <1>0 DEF ShoppingInv, WantOK
<1> QED
  BY <1>0, <1>1, <1>2, <1>3, <1>4, <1>5, <1>6, ShoppingMoves

LEMMA StepMoved ==
  ASSUME NEW v, v \in [step : Steps, held : Nat \cup {Nil}, want : Wants \cup {Nil}, ceiling : Ceilings],
         NEW s, NEW held, NEW want
  PROVE  /\ [v EXCEPT !.step = s] \in
              [step : {s}, held : {v.held}, want : {v.want}, ceiling : {v.ceiling}]
         /\ [[v EXCEPT !.held = held] EXCEPT !.step = s] \in
              [step : {s}, held : {held}, want : {v.want}, ceiling : {v.ceiling}]
         /\ [[v EXCEPT !.step = s] EXCEPT !.want = want] \in
              [step : {s}, held : {v.held}, want : {want}, ceiling : {v.ceiling}]
OBVIOUS

LEMMA OffIsOK == ValetOK(Off) /\ Off.step = "off"
BY ShoppingAssumption DEF ValetOK, Off, Steps, Ceilings

LEMMA CeilingIsTyped ==
  ASSUME NEW text \in Texts, NEW reply \in Replies, NEW flag \in Flags4Max
  PROVE  CeilingOf(text, reply, flag) \in Ceilings
<1>1. interpret(text, reply) \in Ceilings
  <2>1. CASE UsableReply(reply)
    BY <2>1, ShoppingAssumption DEF interpret, UsableReply, Ceilings
  <2>2. CASE ~UsableReply(reply) /\ text = NoPrice
    BY <2>2 DEF interpret, priceCeilingFrom, Ceilings
  <2>3. CASE ~UsableReply(reply) /\ text # NoPrice
    <3>1. text.pounds \in Nat /\ text.digits \in Seq(0 .. 9)
      BY <2>3, ShoppingAssumption
    <3>2. /\ Len(text.digits) > 0 => text.digits[1] \in 0 .. 9
          /\ Len(text.digits) > 1 => text.digits[2] \in 0 .. 9
      BY <3>1
    <3> DEFINE tens == IF Len(text.digits) > 0 THEN 10 * text.digits[1] ELSE 0
               units == IF Len(text.digits) > 1 THEN text.digits[2] ELSE 0
    <3>3. tens \in Int /\ units \in Int
      BY <3>1, <3>2
    <3>4. priceCeilingFrom(text) = text.pounds * 100 + tens + units
      BY <2>3 DEF priceCeilingFrom
    <3> HIDE DEF tens, units
    <3> QED
      BY <2>3, <3>1, <3>3, <3>4 DEF interpret, Ceilings
  <2> QED
    BY <2>1, <2>2, <2>3
<1> QED
  BY <1>1, ShoppingAssumption DEF CeilingOf, Ceilings

LEMMA LaunchKeeps ==
  ASSUME ShoppingInv, NEW p \in Valets, Launch(p)
  PROVE  ShoppingInv'
<1>1. /\ In(p, "off") /\ (credentials # Nil \/ \A o \in Valets : In(o, "off"))
      /\ UNCHANGED <<credentials, registered, asked, shopVars, taken_in, told>>
  BY DEF Launch, identity
<1>2. ASSUME NEW c \in Ceilings, NEW w \in Wants \cup {Nil}, w # Nil => wants[w] # Nil,
             NEW v \in [step : {"load"}, held : {Nil}, want : {w}, ceiling : {c}],
             valets' = [valets EXCEPT ![p] = v]
      PROVE  ShoppingInv'
  <2>1. ValetOK(v)
    BY <1>2, ShoppingAssumption DEF ValetOK, Steps
  <2> QED
    BY <1>1, <1>2, <2>1, OneValetMoves DEF ShoppingInv, ShoppingTypeOK
<1>3. CASE \E text \in Texts, reply \in Replies, flag \in Flags4Max :
             valets' = [valets EXCEPT ![p] =
               [Off EXCEPT !.step = "load", !.ceiling = CeilingOf(text, reply, flag)]]
  <2>1. PICK c \in Ceilings : valets' = [valets EXCEPT ![p] = [Off EXCEPT !.step = "load", !.ceiling = c]]
    BY <1>3, CeilingIsTyped
  <2>2. [Off EXCEPT !.step = "load", !.ceiling = c]
          \in [step : {"load"}, held : {Nil}, want : {Nil}, ceiling : {c}]
    BY DEF Off
  <2> QED
    BY <1>2, <2>1, <2>2
<1>4. CASE \E w \in Wants :
             /\ wants[w] # Nil /\ ~wants[w].barren
             /\ valets' = [valets EXCEPT ![p] = [Off EXCEPT !.step = "load", !.want = w]]
  <2>1. PICK w \in Wants : /\ wants[w] # Nil
                           /\ valets' = [valets EXCEPT ![p] = [Off EXCEPT !.step = "load", !.want = w]]
    BY <1>4
  <2>2. [Off EXCEPT !.step = "load", !.want = w]
          \in [step : {"load"}, held : {Nil}, want : {w}, ceiling : {NoPrice}]
    BY DEF Off
  <2> QED
    BY <1>2, <2>1, <2>2 DEF Ceilings
<1> QED
  BY <1>3, <1>4 DEF Launch

LEMMA LoadCredentialsKeeps ==
  ASSUME ShoppingInv, NEW p \in Valets, LoadCredentials(p)
  PROVE  ShoppingInv'
<1> DEFINE v == valets[p]
           found == [[v EXCEPT !.held = credentials] EXCEPT !.step = NextFor(v.want)]
           none == [v EXCEPT !.step = "register"]
<1>1. ValetOK(v) /\ v.step = "load"
  BY DEF ShoppingInv, LoadCredentials, In
<1>2. CASE credentials = Nil
  <2>1. none \in [step : {"register"}, held : {v.held}, want : {v.want}, ceiling : {v.ceiling}]
    BY <1>1, StepMoved DEF ValetOK
  <2>2. v.want = Nil
    BY <1>1, <1>2 DEF ShoppingInv, FirstUse, ValetOK
  <2>3. valets' = [valets EXCEPT ![p] = none]
    BY <1>2 DEF LoadCredentials, To
  <2> HIDE DEF none
  <2>4. ValetOK(none)
    BY <1>1, <1>2, <2>1, <2>2 DEF ValetOK, Steps
  <2> QED
    BY <1>1, <2>3, <2>4, OneValetMoves DEF LoadCredentials, identity, In, ShoppingInv, ShoppingTypeOK
<1>3. CASE credentials # Nil
  <2>1. found \in [step : {NextFor(v.want)}, held : {credentials}, want : {v.want}, ceiling : {v.ceiling}]
    BY <1>1, StepMoved DEF ValetOK
  <2>2. /\ v.want = Nil => NextFor(v.want) = "create"
        /\ v.want # Nil => NextFor(v.want) \in {"search", "buy"}
        /\ NextFor(v.want) = "buy" => Bought(v.want)
    BY <1>1 DEF NextFor, ValetOK, Bought
  <2>3. valets' = [valets EXCEPT ![p] = found]
    BY <1>3 DEF LoadCredentials
  <2> HIDE DEF found
  <2>4. ValetOK(found)
    BY <1>1, <1>3, <2>1, <2>2 DEF ValetOK, Steps, ShoppingInv, ShoppingTypeOK
  <2> QED
    BY <1>1, <1>3, <2>3, <2>4, OneValetMoves DEF LoadCredentials, identity, ShoppingInv, ShoppingTypeOK
<1> QED
  BY <1>2, <1>3

LEMMA RegisterKeeps ==
  ASSUME ShoppingInv, NEW p \in Valets, Register(p)
  PROVE  ShoppingInv'
<1> DEFINE v == valets[p]
           next == [[v EXCEPT !.held = registered + 1] EXCEPT !.step = "save"]
<1>1. ValetOK(v) /\ v.step = "register"
  BY DEF ShoppingInv, Register, In
<1>2. next \in [step : {"save"}, held : {registered + 1}, want : {v.want}, ceiling : {v.ceiling}]
  BY <1>1, StepMoved DEF ValetOK
<1>3. valets' = [valets EXCEPT ![p] = next] /\ registered' = registered + 1
  BY DEF Register
<1> HIDE DEF next
<1>4. registered + 1 \in Nat
  BY DEF ShoppingInv, ShoppingTypeOK
<1>5. ValetOK(next)
  BY <1>1, <1>2, <1>4, ShoppingAssumption DEF ValetOK, Steps
<1> QED
  BY <1>1, <1>3, <1>4, <1>5, OneValetMoves DEF Register, In

\* A process that stops.
LEMMA StopKeeps ==
  ASSUME ShoppingInv, NEW p \in Valets,
         NothingToBuy(p) \/ PollVerdict(p) \/ KillValet(p)
  PROVE  ShoppingInv'
<1>1. /\ valets' = [valets EXCEPT ![p] = Off]
      /\ UNCHANGED <<credentials, registered, asked, shopVars, taken_in, told>>
  BY DEF NothingToBuy, PollVerdict, KillValet, identity
<1> QED
  BY <1>1, OffIsOK, OneValetMoves DEF ShoppingInv, ShoppingTypeOK

LEMMA SaveCredentialsKeeps ==
  ASSUME ShoppingInv, NEW p \in Valets, SaveCredentials(p)
  PROVE  ShoppingInv'
<1>0. PICK v : v = valets[p]
  OBVIOUS
<1> DEFINE next == [v EXCEPT !.step = "create"]
<1>1. ValetOK(v) /\ v.step = "save"
  BY <1>0 DEF ShoppingInv, SaveCredentials, In
<1>2. credentials = Nil /\ v.want = Nil /\ v.held # Nil
  BY <1>1 DEF ValetOK
<1>3. next \in [step : {"create"}, held : {v.held}, want : {v.want}, ceiling : {v.ceiling}]
  BY <1>1, StepMoved DEF ValetOK
<1>4. /\ valets' = [valets EXCEPT ![p] = next] /\ credentials' = v.held
      /\ UNCHANGED <<registered, wants, quoted, sending, confirmations, taken_in, told>>
  BY <1>0, <1>2 DEF SaveCredentials, StoreCredentials, To, NextFor, asked, shopVars
<1> HIDE DEF next
<1>5. valets'[p] = next /\ \A o \in Valets \ {p} : valets'[o] = valets[o] /\ In(o, "off")
  BY <1>0, <1>1, <1>2, <1>4 DEF ShoppingInv, ShoppingTypeOK, FirstUse, In
<1>6. ShopMovesOn
  BY <1>2, <1>4 DEF ShopMovesOn, Bought, shopVars
<1>7. ValetOK(next)'
  BY <1>1, <1>2, <1>3, <1>4, ShoppingAssumption DEF ValetOK, Steps
<1>8. ValetOK(valets[p])'
  BY <1>5, <1>7
<1>9. \A w \in Wants : WantOK(w)'
  BY <1>2, <1>4 DEF ShoppingInv, FirstUse, WantOK
<1>10. ShoppingTypeOK' /\ FirstUse'
  BY <1>1, <1>2, <1>4 DEF ShoppingInv, ShoppingTypeOK, FirstUse, ValetOK
<1> QED
  BY <1>4, <1>5, <1>6, <1>8, <1>9, <1>10, ShoppingMoves

\* An errand whose row and quotes are as they were.
LEMMA WantStays ==
  ASSUME NEW w \in Wants, WantOK(w), wants'[w] = wants[w], credentials' = credentials,
         Len(quoted) \in Nat, Len(quoted') \in Nat, Len(quoted) <= Len(quoted'),
         \A i \in 1..Len(quoted) : quoted'[i] = quoted[i]
  PROVE  WantOK(w)'
BY DEF WantOK

LEMMA startErrandKeeps ==
  ASSUME ShoppingInv, NEW p \in Valets, startErrand(p)
  PROVE  ShoppingInv'
<1>1. PICK v : v = valets[p]
  OBVIOUS
<1>2. ValetOK(v) /\ v.step = "create" /\ credentials # Nil /\ v.held = credentials
  BY <1>1 DEF ShoppingInv, startErrand, In, ValetOK
<1>3. PICK w \in Wants :
        /\ wants[w] = Nil
        /\ wants' = [wants EXCEPT ![w] = [agent |-> v.held, ceiling |-> v.ceiling,
                                          quote |-> Nil, barren |-> FALSE]]
        /\ valets' = [valets EXCEPT ![p] = [[v EXCEPT !.step = "search"] EXCEPT !.want = w]]
  BY <1>1, ZenonT(30) DEF startErrand
<1> DEFINE row == [agent |-> v.held, ceiling |-> v.ceiling, quote |-> Nil, barren |-> FALSE]
           next == [[v EXCEPT !.step = "search"] EXCEPT !.want = w]
<1>4. row \in [agent : {v.held}, ceiling : {v.ceiling}, quote : {Nil}, barren : {FALSE}]
  OBVIOUS
<1>5. next \in [step : {"search"}, held : {v.held}, want : {w}, ceiling : {v.ceiling}]
  BY <1>2, StepMoved DEF ValetOK
<1>6. wants' = [wants EXCEPT ![w] = row] /\ valets' = [valets EXCEPT ![p] = next]
  BY <1>3
<1> HIDE DEF row, next
<1>7. UNCHANGED <<credentials, registered, quoted, sending, confirmations, taken_in, told>>
  BY DEF startErrand, identity, shopVars
<1>8. row \in WantRows /\ row # Nil
  BY <1>2, <1>4, ShoppingAssumption DEF WantRows, ValetOK, Ceilings
<1>9. wants'[w] = row /\ \A x \in Wants \ {w} : wants'[x] = wants[x]
  BY <1>6 DEF ShoppingInv, ShoppingTypeOK
<1>10. ShopMovesOn
  BY <1>3, <1>7, <1>9 DEF ShopMovesOn, Bought
<1>11. ShoppingTypeOK' /\ FirstUse'
  BY <1>2, <1>6, <1>7 DEF ShoppingInv, ShoppingTypeOK, FirstUse
<1>12. valets'[p] = next /\ \A o \in Valets \ {p} : valets'[o] = valets[o]
  BY <1>6 DEF ShoppingInv, ShoppingTypeOK
<1>13. ValetOK(next)'
  BY <1>2, <1>5, <1>7, <1>8, <1>9, ShoppingAssumption DEF ValetOK, Steps
<1>14. ValetOK(valets[p])'
  BY <1>12, <1>13
<1>15. ASSUME NEW x \in Wants
       PROVE  WantOK(x)'
  <2>1. CASE x = w
    BY <1>2, <1>4, <1>7, <1>8, <1>9, <2>1 DEF WantOK
  <2>2. CASE x # w
    BY <1>7, <1>9, <2>2 DEF ShoppingInv, WantOK
  <2> QED
    BY <2>1, <2>2
<1> QED
  BY <1>7, <1>10, <1>11, <1>12, <1>14, <1>15, ShoppingMoves

LEMMA SearchFailsKeeps ==
  ASSUME ShoppingInv, NEW p \in Valets, SearchFails(p)
  PROVE  ShoppingInv'
<1>1. PICK w \in Wants : w = valets[p].want /\ wants[w] # Nil
  BY ShoppingAssumption DEF ShoppingInv, SearchFails, In, ValetOK
<1>2. PICK row : row = [wants[w] EXCEPT !.barren = wants[w].barren \/ wants[w].quote = Nil]
  OBVIOUS
<1>3. /\ wants' = [wants EXCEPT ![w] = row] /\ valets' = [valets EXCEPT ![p] = Off]
      /\ UNCHANGED <<credentials, registered, quoted, sending, confirmations, taken_in, told>>
  BY <1>1, <1>2 DEF SearchFails, identity, shopVars
<1>4. wants[w] \in WantRows
  BY <1>1 DEF ShoppingInv, WantOK
<1>5. row \in [agent : {wants[w].agent}, ceiling : {wants[w].ceiling}, quote : {wants[w].quote},
               barren : BOOLEAN]
  BY <1>2, <1>4 DEF WantRows
<1>6. row \in WantRows /\ row # Nil
  BY <1>4, <1>5, ShoppingAssumption DEF WantRows
<1>7. wants'[w] = row /\ \A x \in Wants \ {w} : wants'[x] = wants[x]
  BY <1>3 DEF ShoppingInv, ShoppingTypeOK
<1>8. valets'[p] = Off /\ \A o \in Valets \ {p} : valets'[o] = valets[o]
  BY <1>3 DEF ShoppingInv, ShoppingTypeOK
<1>9. ShopMovesOn
  BY <1>3, <1>5, <1>6, <1>7 DEF ShopMovesOn, Bought
<1>10. ShoppingTypeOK' /\ FirstUse'
  BY <1>1, <1>3 DEF ShoppingInv, ShoppingTypeOK, FirstUse
<1>11. ValetOK(valets[p])'
  <2>1. ValetOK(Off)'
    BY ShoppingAssumption DEF ValetOK, Off, Steps, Ceilings
  <2> QED
    BY <1>8, <2>1
<1>12. ASSUME NEW x \in Wants
       PROVE  WantOK(x)'
  <2>1. CASE x = w
    BY <1>1, <1>3, <1>5, <1>6, <1>7, <2>1 DEF ShoppingInv, WantOK
  <2>2. CASE x # w
    BY <1>3, <1>7, <2>2 DEF ShoppingInv, WantOK
  <2> QED
    BY <2>1, <2>2
<1> QED
  BY <1>3, <1>8, <1>9, <1>10, <1>11, <1>12, ShoppingMoves

LEMMA ReadOffersKeeps ==
  ASSUME ShoppingInv, NEW p \in Valets, ReadOffers(p)
  PROVE  ShoppingInv'
<1>1. PICK v : v = valets[p]
  OBVIOUS
<1>2. ValetOK(v) /\ v.step = "search" /\ credentials # Nil /\ v.held = credentials
  BY <1>1 DEF ShoppingInv, ReadOffers, In, ValetOK
<1>3. PICK w \in Wants : w = v.want /\ wants[w] # Nil
  BY <1>2, ShoppingAssumption DEF ValetOK
<1>4. wants[w] \in WantRows /\ wants[w].agent = credentials
  BY <1>3 DEF ShoppingInv, WantOK
<1>5. PICK n \in 0 .. 2 : \E amounts \in [1 .. n -> Prices] :
        LET fit == {i \in 1 .. n : Within(amounts[i], wants[w].ceiling)}
            top == CHOOSE i \in fit : \A j \in fit : i <= j
        IN  /\ Mint(p, amounts)
            /\ IF fit # {} THEN TakeQuote(p, Len(quoted) + top) ELSE UNCHANGED <<wants, valets>>
  BY <1>1, <1>3 DEF ReadOffers
<1>6. PICK amounts \in [1 .. n -> Prices] :
        LET fit == {i \in 1 .. n : Within(amounts[i], wants[w].ceiling)}
            top == CHOOSE i \in fit : \A j \in fit : i <= j
        IN  /\ Mint(p, amounts)
            /\ IF fit # {} THEN TakeQuote(p, Len(quoted) + top) ELSE UNCHANGED <<wants, valets>>
  BY <1>5
<1> DEFINE fit == {i \in 1 .. n : Within(amounts[i], wants[w].ceiling)}
           top == CHOOSE i \in fit : \A j \in fit : i <= j
           minted == [i \in 1 .. n |-> [owner |-> v.held, amount |-> amounts[i]]]
<1>7. UNCHANGED <<credentials, registered, sending, confirmations, taken_in, told>>
  BY DEF ReadOffers, identity, shopVars
<1>8. minted \in Seq([owner : Nat, amount : Prices]) /\ Len(minted) = n
  <2>1. v.held \in Nat
    BY <1>2 DEF ShoppingInv, ShoppingTypeOK
  <2> QED
    BY <2>1
<1>9. quoted' = quoted \o minted
  BY <1>1, <1>6 DEF Mint
<1>10. \A i \in 1 .. n : minted[i].owner = v.held /\ minted[i].amount = amounts[i]
  OBVIOUS
<1> HIDE DEF minted
<1>11. /\ quoted' \in Seq([owner : Nat, amount : Prices])
       /\ Len(quoted) \in Nat /\ Len(quoted') = Len(quoted) + n
       /\ \A i \in 1..Len(quoted) : quoted'[i] = quoted[i]
       /\ \A i \in 1 .. n : quoted'[Len(quoted) + i] = minted[i]
  BY <1>8, <1>9, SMTT(30) DEF ShoppingInv, ShoppingTypeOK
<1>12. CASE fit = {} \/ ~(wants[w].quote = Nil /\ ~wants[w].barren)
  <2>1. wants' = wants /\ (valets' = valets \/ valets' = [valets EXCEPT ![p] = Off])
    <3>1. CASE fit = {}
      BY <1>6, <3>1
    <3>2. CASE fit # {}
      BY <1>1, <1>3, <1>6, <1>12, <3>2 DEF TakeQuote
    <3> QED
      BY <3>1, <3>2
  <2>2. PICK u : u = valets'[p]
    OBVIOUS
  <2>3. (u = Off \/ u = v) /\ \A o \in Valets \ {p} : valets'[o] = valets[o]
    BY <1>1, <2>1, <2>2 DEF ShoppingInv, ShoppingTypeOK
  <2>4. ShopMovesOn
    BY <1>7, <2>1 DEF ShopMovesOn, Bought
  <2>5. ShoppingTypeOK' /\ FirstUse'
    BY <1>2, <1>7, <1>11, <2>1 DEF ShoppingInv, ShoppingTypeOK, FirstUse
  <2>6. ValetOK(u)'
    BY <1>2, <1>7, <2>1, <2>3, <2>4, OffIsOK, ValetStays
  <2>7. ValetOK(valets[p])'
    BY <2>2, <2>6
  <2>8. ASSUME NEW x \in Wants
        PROVE  WantOK(x)'
    BY <1>7, <1>11, <2>1, WantStays DEF ShoppingInv
  <2> QED
    BY <1>7, <2>3, <2>4, <2>5, <2>7, <2>8, ShoppingMoves
<1>13. CASE fit # {} /\ wants[w].quote = Nil /\ ~wants[w].barren
  <2>1. top \in fit
    <3>1. fit \subseteq {1, 2}
      OBVIOUS
    <3>2. \E i \in fit : \A j \in fit : i <= j
      <4>1. CASE 1 \in fit
        BY <3>1, <4>1
      <4>2. CASE 1 \notin fit
        BY <1>13, <3>1, <4>2
      <4> QED
        BY <4>1, <4>2
    <3> HIDE DEF fit
    <3> QED
      BY <3>2
  <2>2. PICK q : q = Len(quoted) + top
    OBVIOUS
  <2>3. PICK row : row = [wants[w] EXCEPT !.quote = q]
    OBVIOUS
  <2>4. PICK next : next = [v EXCEPT !.step = "buy"]
    OBVIOUS
  <2>5. wants' = [wants EXCEPT ![w] = row] /\ valets' = [valets EXCEPT ![p] = next]
    BY <1>1, <1>3, <1>6, <1>13, <2>2, <2>3, <2>4 DEF TakeQuote, To
  <2>6. /\ q \in 1..Len(quoted') /\ q \in Nat /\ q # Nil
        /\ quoted'[q].owner = credentials /\ Within(quoted'[q].amount, wants[w].ceiling)
    BY <1>2, <1>10, <1>11, <2>1, <2>2, ShoppingAssumption, SMTT(30)
  <2>7. row \in [agent : {wants[w].agent}, ceiling : {wants[w].ceiling}, quote : {q},
                 barren : {wants[w].barren}]
    BY <1>4, <2>3 DEF WantRows
  <2>8. row \in WantRows /\ row # Nil
    BY <1>4, <2>6, <2>7, ShoppingAssumption DEF WantRows
  <2>9. next \in [step : {"buy"}, held : {v.held}, want : {v.want}, ceiling : {v.ceiling}]
    BY <1>2, <2>4, StepMoved DEF ValetOK
  <2>10. /\ wants'[w] = row /\ \A x \in Wants \ {w} : wants'[x] = wants[x]
         /\ valets'[p] = next /\ \A o \in Valets \ {p} : valets'[o] = valets[o]
    BY <2>5 DEF ShoppingInv, ShoppingTypeOK
  <2>11. ShopMovesOn
    BY <1>7, <1>13, <2>8, <2>10 DEF ShopMovesOn, Bought
  <2>12. ShoppingTypeOK' /\ FirstUse'
    BY <1>2, <1>7, <1>11, <2>5 DEF ShoppingInv, ShoppingTypeOK, FirstUse
  <2>13. ValetOK(next)'
    BY <1>2, <1>3, <1>7, <2>6, <2>7, <2>8, <2>9, <2>10, ShoppingAssumption DEF ValetOK, Steps, Bought
  <2>14. ValetOK(valets[p])'
    BY <2>10, <2>13
  <2>15. ASSUME NEW x \in Wants
         PROVE  WantOK(x)'
    <3>1. CASE x = w
      BY <1>2, <1>4, <1>7, <2>6, <2>7, <2>8, <2>10, <3>1 DEF WantOK
    <3>2. CASE x # w
      BY <1>7, <1>11, <2>10, <3>2, WantStays DEF ShoppingInv
    <3> QED
      BY <3>1, <3>2
  <2> QED
    BY <1>7, <2>10, <2>11, <2>12, <2>14, <2>15, ShoppingMoves
<1> QED
  BY <1>12, <1>13

-----------------------------------------------------------------------------
\* The core forgets no request, and has one it accepts.
LEMMA TakenIn ==
  ASSUME NEW key, NEW body, TakeIn(key, body)
  PROVE  /\ \A k \in DOMAIN taken_in : k \in DOMAIN taken_in' /\ taken_in'[k] = taken_in[k]
         /\ Accepted(key, body) => key \in DOMAIN taken_in' /\ taken_in'[key] = body
BY DEF TakeIn, Accepted, SameRequest

\* A step of the checkout or of a webhook: no errand changes, and one process.
LEMMA CheckoutKeeps ==
  ASSUME ShoppingInv, NEW p \in Valets, NEW v, ValetOK(v),
         In(p, "off") => v.step = "off",
         UNCHANGED <<credentials, registered, wants, quoted>>,
         valets' = [valets EXCEPT ![p] = v],
         \A k \in DOMAIN taken_in : k \in DOMAIN taken_in' /\ taken_in'[k] = taken_in[k],
         \A d \in sending' \ sending : OrderOK(d),
         \A t \in told' \ told : t.want \in Wants /\ TellingOK(t.want, t.webhook)',
         confirmations' = [w \in Wants |-> confirmations'[w]],
         \A w \in Wants : \/ confirmations'[w] \in {confirmations[w], Nil}
                          \/ TellingOK(w, confirmations[w].webhook)'
  PROVE  ShoppingInv'
<1>1. ShopMovesOn
  BY DEF ShopMovesOn, Bought
<1>2. valets'[p] = v /\ \A o \in Valets \ {p} : valets'[o] = valets[o]
  BY DEF ShoppingInv, ShoppingTypeOK
<1>3. ShoppingTypeOK'
  BY DEF ShoppingInv, ShoppingTypeOK
<1>4. FirstUse'
  BY <1>2 DEF ShoppingInv, FirstUse, In
<1>5. ValetOK(valets[p])'
  <2>1. ValetOK(v)'
    BY <1>1, ValetStays
  <2> QED
    BY <1>2, <2>1
<1>6. \A w \in Wants : WantOK(w)'
  BY DEF ShoppingInv, WantOK
<1>7. \A d \in sending' \ sending : OrderOK(d)'
  BY DEF OrderOK, Bought
<1> QED
  BY <1>1, <1>2, <1>3, <1>4, <1>5, <1>6, <1>7, ShoppingMoves

\* A process about to buy, waiting for its order or told of it.
LEMMA StepOfBuyer ==
  ASSUME NEW v, ValetOK(v), v.step \in {"buy", "wait"}, NEW s \in {"wait", "poll"}
  PROVE  ValetOK([v EXCEPT !.step = s]) /\ v.want \in Wants /\ Bought(v.want)
<1>1. PICK next : next = [v EXCEPT !.step = s]
  OBVIOUS
<1>2. next \in [step : {s}, held : {v.held}, want : {v.want}, ceiling : {v.ceiling}]
  BY <1>1, StepMoved DEF ValetOK
<1>3. ValetOK(next)
  BY <1>2 DEF ValetOK, Steps
<1> QED
  BY <1>1, <1>3 DEF ValetOK

LEMMA CallBackKeeps ==
  ASSUME ShoppingInv, NEW p \in Valets, NEW scheme, In(p, "buy"), CallBack(p, scheme)
  PROVE  ShoppingInv'
<1>1. PICK v : v = valets[p]
  OBVIOUS
<1>2. ValetOK(v) /\ v.step = "buy"
  BY <1>1 DEF ShoppingInv, In
<1>3. PICK w \in Wants : w = v.want /\ Bought(w)
  BY <1>2, StepOfBuyer
<1>4. PICK body : body = Body(w, shop_clock)
  OBVIOUS
<1>5. body.want = w /\ body.token = wants[w].quote
  BY <1>4 DEF Body
<1>6. /\ TakeIn(<<scheme, w>>, body)
      /\ UNCHANGED <<credentials, registered, wants, quoted, sending, confirmations>>
  BY <1>1, <1>3, <1>4 DEF CallBack, identity, asked, shopVars
<1>7. CASE /\ Accepted(<<scheme, w>>, body)
           /\ Tell(w, w, "delivered") /\ To(p, "poll")
  <2>1. valets' = [valets EXCEPT ![p] = [v EXCEPT !.step = "poll"]]
    BY <1>1, <1>7 DEF To
  <2>2. TellingOK(w, "delivered")'
    BY <1>3, <1>5, <1>6, <1>7, TakenIn DEF TellingOK, Bought, InCore
  <2>3. \A t \in told' \ told : t.want = w /\ t.webhook = "delivered"
    BY <1>7 DEF Tell
  <2>4. \A t \in told' \ told : t.want \in Wants /\ TellingOK(t.want, t.webhook)'
    BY <2>2, <2>3
  <2>5. ValetOK([v EXCEPT !.step = "poll"])
    BY <1>2, StepOfBuyer
  <2> QED
    BY <1>6, <2>1, <2>4, <2>5, TakenIn, CheckoutKeeps DEF In, ShoppingInv, ShoppingTypeOK
<1>8. CASE UNCHANGED told /\ valets' = [valets EXCEPT ![p] = Off]
  BY <1>6, <1>8, OffIsOK, TakenIn, CheckoutKeeps DEF ShoppingInv, ShoppingTypeOK
<1> QED
  BY <1>1, <1>3, <1>4, <1>7, <1>8 DEF CallBack

LEMMA PlaceOrderKeeps ==
  ASSUME ShoppingInv, NEW p \in Valets, NEW key, NEW tries, In(p, "buy"), PlaceOrder(p, key, tries),
         UNCHANGED <<identity, asked, taken_in>>
  PROVE  ShoppingInv'
<1>1. PICK v : v = valets[p]
  OBVIOUS
<1>2. ValetOK(v) /\ v.step = "buy"
  BY <1>1 DEF ShoppingInv, In
<1>3. PICK w \in Wants : w = v.want /\ Bought(w)
  BY <1>2, StepOfBuyer
<1>4. UNCHANGED <<credentials, registered, wants, quoted, taken_in, confirmations>>
  BY DEF identity, asked, PlaceOrder, shopVars
<1>5. CASE confirmations[w] # Nil
  <2>1. /\ valets' = [valets EXCEPT ![p] = [v EXCEPT !.step = "poll"]]
        /\ Tell(w, confirmations[w].number, confirmations[w].webhook)
        /\ UNCHANGED sending
    BY <1>1, <1>3, <1>5 DEF PlaceOrder, To, shopVars
  <2>2. PICK webhook : webhook = confirmations[w].webhook /\ TellingOK(w, webhook)
    BY <1>5 DEF ShoppingInv
  <2>3. TellingOK(w, webhook)'
    BY <1>4, <2>2 DEF TellingOK, Bought, InCore
  <2>4. \A t \in told' \ told : t.want = w /\ t.webhook = webhook
    BY <2>1, <2>2 DEF Tell
  <2>5. \A t \in told' \ told : t.want \in Wants /\ TellingOK(t.want, t.webhook)'
    BY <2>3, <2>4
  <2>6. ValetOK([v EXCEPT !.step = "poll"])
    BY <1>2, StepOfBuyer
  <2> QED
    BY <1>4, <2>1, <2>5, <2>6, CheckoutKeeps DEF In, ShoppingInv, ShoppingTypeOK
<1>6. CASE confirmations[w] = Nil
  <2>1. PICK d : d = [want |-> w, number |-> order_seq', key |-> key,
                      body |-> Body(w, shop_clock), left |-> tries, to |-> p]
    OBVIOUS
  <2>2. /\ valets' = [valets EXCEPT ![p] = [v EXCEPT !.step = "wait"]]
        /\ sending' = sending \cup {d}
        /\ UNCHANGED told
    BY <1>1, <1>3, <1>6, <2>1 DEF PlaceOrder, To
  <2>3. OrderOK(d)
    <3>1. Body(w, shop_clock) \in [want : {w}, token : {wants[w].quote}, at : {shop_clock}]
      BY DEF Body
    <3>2. d \in [want : {w}, number : {order_seq'}, key : {key}, left : {tries}, to : {p},
                 body : {Body(w, shop_clock)}]
      BY <2>1
    <3>3. d.body \in [want : {d.want}, token : {wants[d.want].quote}, at : {d.body.at}]
      BY <3>1, <3>2
    <3> QED
      BY <1>3, <3>2, <3>3 DEF OrderOK
  <2>4. ValetOK([v EXCEPT !.step = "wait"])
    BY <1>2, StepOfBuyer
  <2> QED
    BY <1>4, <2>2, <2>3, <2>4, CheckoutKeeps DEF In, ShoppingInv, ShoppingTypeOK
<1> QED
  BY <1>5, <1>6

\* An order is settled with the webhook's fate.
LEMMA SettleKeeps ==
  ASSUME ShoppingInv, NEW d \in sending, NEW webhook, Settle(d, webhook),
         UNCHANGED <<identity, asked>>, sending' \subseteq sending,
         \A k \in DOMAIN taken_in : k \in DOMAIN taken_in' /\ taken_in'[k] = taken_in[k],
         webhook = "delivered" => \E k \in DOMAIN taken_in' : taken_in'[k] = d.body
  PROVE  ShoppingInv'
<1>1. /\ UNCHANGED <<credentials, registered, wants, quoted>>
      /\ OrderOK(d) /\ d.want \in Wants /\ d.to \in Valets
  BY DEF identity, asked, ShoppingInv, OrderOK
<1>2. PICK w \in Wants : w = d.want /\ Bought(w)
  BY <1>1 DEF OrderOK
<1>3. TellingOK(w, webhook)'
  BY <1>1, <1>2 DEF OrderOK, TellingOK, Bought, InCore
<1>4. PICK row : row = [number |-> d.number, webhook |-> webhook]
  OBVIOUS
<1>5. confirmations' = [confirmations EXCEPT ![w] = row] /\ row.webhook = webhook
  BY <1>2, <1>4 DEF Settle
<1>6. /\ confirmations' = [x \in Wants |-> confirmations'[x]]
      /\ \A x \in Wants : \/ confirmations'[x] \in {confirmations[x], Nil}
                          \/ TellingOK(x, confirmations[x].webhook)'
  BY <1>3, <1>5 DEF ShoppingInv, ShoppingTypeOK
<1>7. \A t \in told' \ told : t.want \in Wants /\ TellingOK(t.want, t.webhook)'
  <2>1. \A t \in told' \ told : t.want = w /\ t.webhook = webhook
    BY <1>2 DEF Settle, Tell
  <2> QED
    BY <1>3, <2>1
<1>8. PICK v : v = valets[d.to]
  OBVIOUS
<1>9. ValetOK(v)
  BY <1>1, <1>8 DEF ShoppingInv
<1>10. CASE valets' = valets
  <2>1. valets' = [valets EXCEPT ![d.to] = v]
    BY <1>1, <1>8, <1>10 DEF ShoppingInv, ShoppingTypeOK
  <2> QED
    BY <1>1, <1>6, <1>7, <1>8, <1>9, <2>1, CheckoutKeeps DEF In
<1>11. CASE In(d.to, "wait") /\ To(d.to, "poll")
  <2>1. /\ ValetOK([v EXCEPT !.step = "poll"])
        /\ valets' = [valets EXCEPT ![d.to] = [v EXCEPT !.step = "poll"]]
    BY <1>8, <1>9, <1>11, StepOfBuyer DEF In, To
  <2> QED
    BY <1>1, <1>6, <1>7, <1>11, <2>1, CheckoutKeeps DEF In
<1> QED
  BY <1>10, <1>11 DEF Settle

LEMMA DeliverWebhookKeeps ==
  ASSUME ShoppingInv, NEW d \in sending, DropWebhook(d) \/ DeliverWebhook(d)
  PROVE  ShoppingInv'
<1>1. UNCHANGED <<identity, asked>>
  BY DEF DropWebhook, DeliverWebhook
<1>2. CASE DropWebhook(d)
  BY <1>1, <1>2, SettleKeeps DEF DropWebhook
<1>3. CASE /\ TakeIn(d.key, d.body) /\ Accepted(d.key, d.body)
           /\ sending' = sending \ {d} /\ Settle(d, "delivered")
  BY <1>1, <1>3, TakenIn, SettleKeeps
<1>4. CASE /\ TakeIn(d.key, d.body) \/ UNCHANGED taken_in
           /\ sending' = sending \ {d} /\ Settle(d, "failed")
  <2>1. \A k \in DOMAIN taken_in : k \in DOMAIN taken_in' /\ taken_in'[k] = taken_in[k]
    BY <1>4, TakenIn
  <2> QED
    BY <1>1, <1>4, <2>1, SettleKeeps
<1>5. CASE /\ TakeIn(d.key, d.body) \/ UNCHANGED taken_in
           /\ sending' = (sending \ {d}) \cup {[d EXCEPT !.left = d.left - 1]}
           /\ UNCHANGED <<confirmations, told, valets>>
  <2>1. PICK e : e = [d EXCEPT !.left = d.left - 1]
    OBVIOUS
  <2>2. OrderOK(d)
    BY DEF ShoppingInv
  <2>3. e \in [want : {d.want}, number : {d.number}, key : {d.key}, left : {d.left - 1},
               to : {d.to}, body : {d.body}]
    BY <2>1, <2>2 DEF OrderOK
  <2>4. OrderOK(e)
    BY <2>2, <2>3 DEF OrderOK
  <2>5. \A k \in DOMAIN taken_in : k \in DOMAIN taken_in' /\ taken_in'[k] = taken_in[k]
    BY <1>5, TakenIn
  <2>6. \A x \in sending' \ sending : OrderOK(x)
    BY <1>5, <2>1, <2>4
  <2>7. PICK v : v = valets[d.to]
    OBVIOUS
  <2>8. d.to \in Valets /\ ValetOK(v)
    BY <2>2, <2>7 DEF ShoppingInv, OrderOK
  <2>9. valets' = [valets EXCEPT ![d.to] = v]
    BY <1>5, <2>7, <2>8 DEF ShoppingInv, ShoppingTypeOK
  <2>10. UNCHANGED <<credentials, registered, wants, quoted>>
    BY <1>1 DEF identity, asked
  <2> QED
    BY <1>5, <2>5, <2>6, <2>7, <2>8, <2>9, <2>10, CheckoutKeeps DEF In, ShoppingInv, ShoppingTypeOK
<1> QED
  BY <1>2, <1>3, <1>4, <1>5 DEF DeliverWebhook

LEMMA RestartShopKeeps ==
  ASSUME ShoppingInv, RestartShop
  PROVE  ShoppingInv'
<1>1. /\ UNCHANGED <<credentials, registered, wants, quoted, taken_in, told>>
      /\ sending' = {} /\ confirmations' = [w \in Wants |-> Nil]
      /\ valets' = [p \in Valets |-> IF In(p, "wait") THEN Off ELSE valets[p]]
  BY DEF RestartShop, identity, asked
<1>2. ShopMovesOn
  BY <1>1 DEF ShopMovesOn, Bought
<1>3. ASSUME NEW p \in Valets
      PROVE  ValetOK(valets[p])'
  <2>1. PICK v : v = valets'[p]
    OBVIOUS
  <2>2. ValetOK(v)
    BY <1>1, <2>1, OffIsOK DEF ShoppingInv
  <2>3. ValetOK(v)'
    BY <1>1, <1>2, <2>2, ValetStays
  <2> QED
    BY <2>1, <2>3
<1>4. ShoppingTypeOK' /\ FirstUse'
  BY <1>1 DEF ShoppingInv, ShoppingTypeOK, FirstUse, In, Off
<1>5. \A w \in Wants : WantOK(w)'
  BY <1>1 DEF ShoppingInv, WantOK
<1>6. ASSUME NEW t \in told'
      PROVE  t.want \in Wants /\ TellingOK(t.want, t.webhook)'
  BY <1>1, <1>2, TellingStays DEF ShoppingInv
<1> QED
  BY <1>1, <1>3, <1>4, <1>5, <1>6 DEF ShoppingInv

LEMMA ShoppingStays ==
  ASSUME ShoppingInv,
         UNCHANGED <<identity, valets, asked, shopVars, taken_in, told>>
  PROVE  ShoppingInv'
<1>1. UNCHANGED <<credentials, registered, valets, wants, quoted, sending, confirmations,
                  taken_in, told>>
  BY DEF identity, asked, shopVars
<1> QED
  BY <1>1 DEF ShoppingInv, ShoppingTypeOK, FirstUse, In, ValetOK, WantOK, OrderOK, TellingOK,
     Bought, InCore

LEMMA ShoppingStep == ShoppingInv /\ [ShoppingNext]_shoppingVars => ShoppingInv'
<1> SUFFICES ASSUME ShoppingInv, [ShoppingNext]_shoppingVars PROVE ShoppingInv'
  OBVIOUS
<1>1. CASE UNCHANGED shoppingVars \/ TickShop
  BY <1>1, ShoppingStays DEF shoppingVars, TickShop
<1>2. ASSUME NEW p \in Valets,
             \/ Launch(p) \/ LoadCredentials(p) \/ Register(p) \/ SaveCredentials(p)
             \/ startErrand(p) \/ ReadOffers(p) \/ SearchFails(p) \/ NothingToBuy(p)
             \/ PollVerdict(p) \/ KillValet(p)
      PROVE  ShoppingInv'
  BY <1>2, LaunchKeeps, LoadCredentialsKeeps, RegisterKeeps, SaveCredentialsKeeps,
     startErrandKeeps, ReadOffersKeeps, SearchFailsKeeps, StopKeeps
<1>3. ASSUME NEW p \in Valets, ucpCheckout(p) \/ acpCheckout(p)
      PROVE  ShoppingInv'
  BY <1>3, CallBackKeeps DEF ucpCheckout, acpCheckout
<1>4. ASSUME NEW p \in Valets, fakeShopCheckout(p) \/ shopifyCheckout(p)
      PROVE  ShoppingInv'
  BY <1>4, PlaceOrderKeeps DEF fakeShopCheckout, shopifyCheckout
<1>5. ASSUME NEW d \in sending, DropWebhook(d) \/ DeliverWebhook(d)
      PROVE  ShoppingInv'
  BY <1>5, DeliverWebhookKeeps
<1> QED
  BY <1>1, <1>2, <1>3, <1>4, <1>5, RestartShopKeeps DEF ShoppingNext

\* What is bought is what was asked for, with any number of processes and errands
\* and over every rail, wherever a process dies or a shop restarts.
THEOREM BoughtCorrect == ShoppingSpec => []BoughtAsAsked
BY ShoppingInvInit, ShoppingStep, ShoppingInvBuys, PTL DEF ShoppingSpec

-----------------------------------------------------------------------------
(* Linked accounts and their points.                                       *)

AttemptOK(a) ==
  attempts[a] # Nobody =>
    /\ attempts[a] \in AttemptRows
    /\ attempts[a].kind = "hosted" =>
         attempts[a].member \in Members /\ Programme[attempts[a].member] = attempts[a].programme

\* A code is for a member of the brand that the attempt under it is for.
CodeOK(a) ==
  codes[a] # Nobody =>
    /\ codes[a] \in CodeRows
    /\ attempts[a] # Nobody /\ attempts[a].kind = "oauth"
    /\ Programme[codes[a].sub] = attempts[a].programme

OpenAttempt(a) == attempts[a] # Nobody /\ attempts[a].open
UsedUp(a) == attempts[a] # Nobody /\ ~attempts[a].open

\* What a link says was agreed to under its attempt, which is used up.
RowOK(row) ==
  /\ row \in LinkRows
  /\ UsedUp(row.attempt)
  /\ attempts[row.attempt].consumer = row.consumer
  /\ Programme[row.sub] = row.programme
  /\ attempts[row.attempt].kind = "hosted" => row.sub = attempts[row.attempt].member
  /\ attempts[row.attempt].kind = "oauth" =>
       codes[row.attempt] # Nobody /\ row.sub = codes[row.attempt].sub

\* What the requests in flight hold.
Making(t) == t.step \in {"seal", "persist", "tell_linked"}
Unmaking(t) == t.step \in {"revoke_at_brand", "drop", "tell_unlinked"}
HoldsAttempt(t, a) ==
  \/ t.step = "exchange" /\ t.attempt = a
  \/ t.step \in {"seal", "persist"} /\ t.row.attempt = a
Makes(t, l) == Making(t) /\ t.link = l
Unmakes(t, l) == Unmaking(t) /\ t.link = l

WorkOK(t) ==
  \/ t = Resting
  \/ /\ t \in [step : {"exchange"}, attempt : Attempts, code : Attempts]
     /\ UsedUp(t.attempt) /\ attempts[t.attempt].kind = "oauth"
  \/ /\ t \in [step : {"seal", "persist", "tell_linked"}, link : LinkIds, row : LinkRows]
     /\ RowOK(t.row) /\ t.row.status = "active"
     /\ t.link < next_link /\ linked[t.link] = 0
     /\ t.step = "tell_linked" <=> identity_links[t.link] # Nobody
  \/ /\ t \in [step : {"revoke_at_brand", "drop", "tell_unlinked"}, link : LinkIds]
     /\ identity_links[t.link] # Nobody /\ identity_links[t.link].status = "revoked"
     /\ unlinked[t.link] = 0
     /\ t.step = "tell_unlinked" => link_tokens[t.link] = Nobody
  \/ /\ t \in [step : {"choose"}, claim : Claims]
  \/ /\ t \in [step : {"credit", "record"}, claim : Claims, link : LinkIds]
     /\ identity_links[t.link] # Nobody
     /\ identity_links[t.link].consumer = Owner[t.claim]
     /\ t.step = "record" => OrderSeen(identity_links[t.link].programme, t.claim)

\* No two of them hold the same attempt, nor make nor unmake the same link.
Apart(t, u) ==
  /\ \A a \in Attempts : ~(HoldsAttempt(t, a) /\ HoldsAttempt(u, a))
  /\ \A l \in LinkIds : ~(Makes(t, l) /\ Makes(u, l)) /\ ~(Unmakes(t, l) /\ Unmakes(u, l))

LinkOK(l) ==
  /\ identity_links[l] # Nobody =>
       /\ RowOK(identity_links[l]) /\ l < next_link
       /\ \A w \in Workers : ~HoldsAttempt(work[w], identity_links[l].attempt)
  /\ linked[l] \in {0, 1} /\ unlinked[l] \in {0, 1}
  /\ linked[l] = 1 => identity_links[l] # Nobody
  /\ unlinked[l] = 1 => /\ identity_links[l] # Nobody /\ identity_links[l].status = "revoked"
                        /\ link_tokens[l] = Nobody

OneLinkPerAttempt ==
  \A l, k \in LinkIds :
    identity_links[l] # Nobody /\ identity_links[k] # Nobody
      /\ identity_links[l].attempt = identity_links[k].attempt => l = k

OrdersOK ==
  /\ IsFiniteSet(seen_orders)
  /\ \A o, p \in seen_orders : o.programme = p.programme /\ o.claim = p.claim => o = p
  /\ \A o \in seen_orders : \E l \in LinkIds :
       /\ identity_links[l] # Nobody
       /\ identity_links[l].consumer = Owner[o.claim] /\ identity_links[l].sub = o.member

\* Her wallet tells a consumer of credits that the brand has given.
CreditOK(claim) ==
  points_credits[claim] # Nobody =>
    /\ points_credits[claim].consumer = Owner[claim]
    /\ OrderSeen(points_credits[claim].programme, claim)

LinkingTypeOK ==
  /\ attempts = [a \in Attempts |-> attempts[a]]
  /\ codes = [a \in Attempts |-> codes[a]]
  /\ identity_links = [l \in LinkIds |-> identity_links[l]]
  /\ link_tokens = [l \in LinkIds |-> link_tokens[l]]
  /\ linked = [l \in LinkIds |-> linked[l]]
  /\ unlinked = [l \in LinkIds |-> unlinked[l]]
  /\ work = [w \in Workers |-> work[w]]
  /\ points_credits = [claim \in Claims |-> points_credits[claim]]
  /\ next_link \in Int

LinkingInv ==
  /\ LinkingTypeOK
  /\ \A a \in Attempts : AttemptOK(a) /\ CodeOK(a)
  /\ \A w \in Workers : WorkOK(work[w])
  /\ \A w, x \in Workers : w # x => Apart(work[w], work[x])
  /\ \A l \in LinkIds : LinkOK(l)
  /\ OneLinkPerAttempt
  /\ OrdersOK
  /\ \A claim \in Claims : CreditOK(claim)

LEMMA LinkingInvInit == LinkingInit => LinkingInv
<1> SUFFICES ASSUME LinkingInit PROVE LinkingInv
  OBVIOUS
<1>1. LinkingTypeOK
  BY DEF LinkingInit, LinkingTypeOK
<1>2. OrdersOK
  BY FS_EmptySet DEF LinkingInit, OrdersOK
<1>3. \A w \in Workers : work[w] = Resting
  BY DEF LinkingInit
<1>4. /\ \A w \in Workers : WorkOK(work[w])
      /\ \A w, x \in Workers : w # x => Apart(work[w], work[x])
  BY <1>3 DEF WorkOK, Apart, HoldsAttempt, Makes, Making, Unmakes, Unmaking, Resting
<1> QED
  BY <1>1, <1>2, <1>4 DEF LinkingInit, LinkingInv, AttemptOK, CodeOK, LinkOK, OneLinkPerAttempt, CreditOK

\* As many orders as credits: each credit has an order of its own.
LEMMA PointsAreHeld ==
  ASSUME LinkingInv, NEW c \in People, NEW programme \in Programmes
  PROVE  PointsOf(c, programme) <=
           Cardinality({o \in seen_orders : o.programme = programme /\ Owner[o.claim] = c})
<1> DEFINE Told == {claim \in Claims : points_credits[claim] # Nobody
              /\ points_credits[claim].consumer = c /\ points_credits[claim].programme = programme}
           Held == {o \in seen_orders : o.programme = programme /\ Owner[o.claim] = c}
           Of == {o \in Held : o.claim \in Told}
           f == [o \in Of |-> o.claim]
<1>1. IsFiniteSet(Held)
  BY FS_Subset DEF LinkingInv, OrdersOK
<1>2. IsFiniteSet(Of) /\ Cardinality(Of) <= Cardinality(Held)
  BY <1>1, FS_Subset
<1>3. \A claim \in Told : \E o \in Of : f[o] = claim
  BY DEF LinkingInv, CreditOK, OrderSeen
<1>4. f \in Surjection(Of, Told)
  BY <1>3 DEF Surjection
<1>5. Cardinality(Told) <= Cardinality(Of) /\ IsFiniteSet(Told)
  BY <1>2, <1>4, FS_Surjection
<1>6. Cardinality(Told) \in Nat /\ Cardinality(Of) \in Nat /\ Cardinality(Held) \in Nat
  BY <1>1, <1>2, <1>5, FS_CardinalityType
<1> HIDE DEF Told, Held, Of
<1>7. Cardinality(Told) <= Cardinality(Held)
  BY <1>2, <1>5, <1>6
<1> QED
  BY <1>7 DEF PointsOf, Told, Held

LEMMA LinkingInvConsents == LinkingInv => LinkedAsConsented
<1> SUFFICES ASSUME LinkingInv PROVE LinkedAsConsented
  OBVIOUS
<1>1. \A l, k \in LinkIds : identity_links[l] # Nobody /\ identity_links[k] # Nobody
        /\ identity_links[l].attempt = identity_links[k].attempt => l = k
  BY DEF LinkingInv, OneLinkPerAttempt
<1>2. \A l \in LinkIds : identity_links[l] # Nobody => RowOK(identity_links[l])
  BY DEF LinkingInv, LinkOK
<1>3. \A l \in LinkIds :
        /\ linked[l] <= 1 /\ unlinked[l] <= 1
        /\ linked[l] = 1 => identity_links[l] # Nobody
        /\ unlinked[l] = 1 => identity_links[l].status = "revoked" /\ link_tokens[l] = Nobody
  BY DEF LinkingInv, LinkOK
<1>4. /\ \A o, p \in seen_orders : o.programme = p.programme /\ o.claim = p.claim => o = p
      /\ \A o \in seen_orders : \E l \in LinkIds :
           /\ identity_links[l] # Nobody
           /\ identity_links[l].consumer = Owner[o.claim] /\ identity_links[l].sub = o.member
  BY DEF LinkingInv, OrdersOK
<1>5. \A l \in LinkIds : identity_links[l] # Nobody =>
        LET row == identity_links[l]  attempt == attempts[row.attempt]
        IN  /\ attempt.consumer = row.consumer /\ ~attempt.open
            /\ Programme[row.sub] = row.programme
            /\ attempt.kind = "hosted" => row.sub = attempt.member
            /\ attempt.kind = "oauth" => /\ codes[row.attempt] # Nobody
                                        /\ row.sub = codes[row.attempt].sub
  BY <1>2 DEF RowOK, UsedUp
<1> QED
  BY <1>1, <1>3, <1>4, <1>5, PointsAreHeld DEF LinkedAsConsented

-----------------------------------------------------------------------------
\* What a step may do to what others rely on: an attempt that is used up stays so,
\* a code keeps its member and a link what it says, no revocation is taken back
\* and no order forgotten.
LinksMoveOn ==
  /\ \A a \in Attempts : attempts[a] # Nobody =>
       /\ attempts'[a] # Nobody
       /\ attempts'[a].kind = attempts[a].kind /\ attempts'[a].consumer = attempts[a].consumer
       /\ attempts'[a].programme = attempts[a].programme /\ attempts'[a].member = attempts[a].member
       /\ ~attempts[a].open => ~attempts'[a].open
  /\ \A a \in Attempts : codes[a] # Nobody => codes'[a] # Nobody /\ codes'[a].sub = codes[a].sub
  /\ \A l \in LinkIds : identity_links[l] # Nobody =>
       /\ identity_links'[l] # Nobody
       /\ identity_links'[l].attempt = identity_links[l].attempt
       /\ identity_links'[l].consumer = identity_links[l].consumer
       /\ identity_links'[l].programme = identity_links[l].programme
       /\ identity_links'[l].sub = identity_links[l].sub
       /\ identity_links[l].status = "revoked" => identity_links'[l].status = "revoked"
  /\ next_link' \in Int /\ next_link <= next_link'
  /\ seen_orders \subseteq seen_orders'

LEMMA RowStays ==
  ASSUME LinksMoveOn, NEW row, RowOK(row)
  PROVE  RowOK(row)'
BY DEF LinksMoveOn, RowOK, UsedUp, LinkRows

LEMMA WorkStays ==
  ASSUME LinksMoveOn, LinkingTypeOK, NEW t, WorkOK(t),
         \A l \in LinkIds : Makes(t, l) =>
           linked'[l] = linked[l] /\ (identity_links'[l] # Nobody => identity_links[l] # Nobody),
         \A l \in LinkIds : Unmakes(t, l) =>
           unlinked'[l] = unlinked[l] /\ link_tokens'[l] \in {link_tokens[l], Nobody}
  PROVE  WorkOK(t)'
<1>1. CASE t = Resting
  BY <1>1 DEF WorkOK
<1>2. CASE t.step = "exchange"
  BY <1>2 DEF WorkOK, Resting, LinksMoveOn, UsedUp
<1>3. CASE Making(t)
  <2>1. /\ t \in [step : {"seal", "persist", "tell_linked"}, link : LinkIds, row : LinkRows]
        /\ RowOK(t.row) /\ t.row.status = "active"
        /\ t.link < next_link /\ linked[t.link] = 0
        /\ t.step = "tell_linked" <=> identity_links[t.link] # Nobody
    BY <1>3 DEF WorkOK, Making, Resting
  <2>2. PICK row : row = t.row
    OBVIOUS
  <2>3. RowOK(row)'
    BY <2>1, <2>2, RowStays
  <2>4. t.link < next_link'
    BY <2>1, LinkingAssumption DEF LinksMoveOn, LinkingTypeOK
  <2>5. linked'[t.link] = 0 /\ (t.step = "tell_linked" <=> identity_links'[t.link] # Nobody)
    BY <1>3, <2>1 DEF Makes, LinksMoveOn
  <2> QED
    BY <2>1, <2>2, <2>3, <2>4, <2>5 DEF WorkOK
<1>4. CASE Unmaking(t)
  BY <1>4 DEF WorkOK, Unmaking, Unmakes, Resting, LinksMoveOn
<1>5. CASE t.step \in {"choose", "credit", "record"}
  BY <1>5 DEF WorkOK, Resting, LinksMoveOn, OrderSeen
<1> QED
  BY <1>1, <1>2, <1>3, <1>4, <1>5 DEF WorkOK, Making, Unmaking

\* A link whose row, events and tokens are as they were.
LEMMA LinkStays ==
  ASSUME LinksMoveOn, LinkingTypeOK, NEW l \in LinkIds, LinkOK(l),
         identity_links'[l] = identity_links[l], linked'[l] = linked[l],
         unlinked'[l] = unlinked[l],
         identity_links[l] # Nobody => link_tokens'[l] \in {link_tokens[l], Nobody},
         identity_links[l] # Nobody =>
           \A w \in Workers : ~HoldsAttempt(work'[w], identity_links[l].attempt)
  PROVE  LinkOK(l)'
<1>1. PICK row : row = identity_links[l]
  OBVIOUS
<1>2. row # Nobody => RowOK(row) /\ RowOK(row)'
  BY <1>1, RowStays DEF LinkOK
<1>3. row # Nobody => \A w \in Workers : ~HoldsAttempt(work[w], row.attempt)'
  BY <1>1 DEF HoldsAttempt
<1>4. row # Nobody => l < next_link'
  BY <1>1, LinkingAssumption DEF LinkOK, LinksMoveOn, LinkingTypeOK
<1>5. identity_links'[l] = row
  BY <1>1
<1> QED
  BY <1>1, <1>2, <1>3, <1>4, <1>5 DEF LinkOK

\* After a step of one request it is enough to look at what the request holds and
\* at what the step changed.
LEMMA LinkingMoves ==
  ASSUME LinkingInv, LinksMoveOn, LinkingTypeOK', NEW w \in Workers, NEW u,
         work' = [work EXCEPT ![w] = u], WorkOK(u)',
         \A a \in Attempts : HoldsAttempt(u, a) => HoldsAttempt(work[w], a) \/ OpenAttempt(a),
         \A l \in LinkIds : Makes(u, l) => Makes(work[w], l) \/ l = next_link,
         \A l \in LinkIds : Unmakes(u, l) =>
           Unmakes(work[w], l) \/ (identity_links[l] # Nobody /\ identity_links[l].status = "active"),
         \A a \in Attempts : AttemptOK(a)' /\ CodeOK(a)',
         \A l \in LinkIds : ~Makes(work[w], l) =>
           linked'[l] = linked[l] /\ (identity_links'[l] # Nobody => identity_links[l] # Nobody),
         \A l \in LinkIds : ~Unmakes(work[w], l) =>
           /\ unlinked'[l] = unlinked[l]
           /\ identity_links[l] # Nobody => link_tokens'[l] \in {link_tokens[l], Nobody},
         \A l \in LinkIds :
           LinkOK(l)' \/ /\ identity_links'[l] = identity_links[l]
                         /\ linked'[l] = linked[l] /\ unlinked'[l] = unlinked[l]
                         /\ identity_links[l] # Nobody => link_tokens'[l] \in {link_tokens[l], Nobody},
         OneLinkPerAttempt' \/ \A l \in LinkIds : identity_links'[l] # Nobody => identity_links[l] # Nobody,
         OrdersOK' \/ UNCHANGED seen_orders,
         UNCHANGED points_credits \/ \A claim \in Claims : CreditOK(claim)'
  PROVE  LinkingInv'
<1>1. work'[w] = u /\ \A x \in Workers \ {w} : work'[x] = work[x]
  BY DEF LinkingInv, LinkingTypeOK
<1>2. ASSUME NEW x \in Workers
      PROVE  WorkOK(work[x])'
  <2>1. PICK t : t = work'[x]
    OBVIOUS
  <2>2. CASE x = w
    BY <1>1, <2>2
  <2>3. CASE x # w
    <3>1. t = work[x] /\ WorkOK(t) /\ Apart(work[w], t)
      BY <1>1, <2>1, <2>3 DEF LinkingInv
    <3>2. \A l \in LinkIds : (Makes(t, l) => ~Makes(work[w], l)) /\ (Unmakes(t, l) => ~Unmakes(work[w], l))
      BY <3>1 DEF Apart
    <3>3. \A l \in LinkIds : Unmakes(t, l) => identity_links[l] # Nobody
      BY <3>1 DEF WorkOK, Unmakes, Unmaking, Resting
    <3>4. WorkOK(t)'
      BY <3>1, <3>2, <3>3, WorkStays DEF LinkingInv
    <3> QED
      BY <2>1, <3>4
  <2> QED
    BY <2>2, <2>3
<1>3. ASSUME NEW x \in Workers \ {w}
      PROVE  Apart(u, work[x]) /\ Apart(work[x], u)
  <2>1. Apart(work[w], work[x]) /\ WorkOK(work[x])
    BY DEF LinkingInv
  <2>2. \A a \in Attempts : HoldsAttempt(work[x], a) => UsedUp(a)
    BY <2>1, SMTT(30) DEF WorkOK, HoldsAttempt, Resting, RowOK
  <2>3. \A l \in LinkIds : Makes(work[x], l) => l # next_link
    <3>1. next_link \in Int /\ \A l \in LinkIds : l \in Int
      BY LinkingAssumption DEF LinkingInv, LinkingTypeOK
    <3>2. \A l \in LinkIds : Makes(work[x], l) => l < next_link
      BY <2>1 DEF WorkOK, Makes, Making, Resting
    <3> QED
      BY <3>1, <3>2
  <2>4. \A l \in LinkIds : Unmakes(work[x], l) => identity_links[l].status = "revoked"
    BY <2>1 DEF WorkOK, Unmakes, Unmaking, Resting
  <2> QED
    BY <2>1, <2>2, <2>3, <2>4 DEF Apart, OpenAttempt, UsedUp
<1>4. ASSUME NEW x \in Workers, NEW y \in Workers, x # y
      PROVE  Apart(work[x], work[y])'
  <2>1. Apart(work'[x], work'[y])
    BY <1>1, <1>3, <1>4 DEF LinkingInv
  <2> QED
    BY <2>1 DEF Apart, HoldsAttempt, Makes, Making, Unmakes, Unmaking
<1>5. ASSUME NEW l \in LinkIds
      PROVE  LinkOK(l)'
  <2>1. LinkOK(l) /\ (identity_links[l] # Nobody => UsedUp(identity_links[l].attempt)
                                                    /\ identity_links[l].attempt \in Attempts)
    BY DEF LinkingInv, LinkOK, RowOK, LinkRows
  <2>2. identity_links[l] # Nobody =>
          \A x \in Workers : ~HoldsAttempt(work'[x], identity_links[l].attempt)
    BY <1>1, <2>1 DEF LinkOK, OpenAttempt, UsedUp
  <2> QED
    BY <2>1, <2>2, LinkStays DEF LinkingInv
<1>6. OneLinkPerAttempt'
  BY DEF LinkingInv, OneLinkPerAttempt, LinksMoveOn
<1>7. OrdersOK'
  BY DEF LinkingInv, OrdersOK, LinksMoveOn
<1>8. \A claim \in Claims : CreditOK(claim)'
  BY DEF LinkingInv, CreditOK, OrderSeen, LinksMoveOn
<1> QED
  BY <1>2, <1>4, <1>5, <1>6, <1>7, <1>8 DEF LinkingInv

\* A step outside the requests, on attempts and codes.
LEMMA LinkingOutside ==
  ASSUME LinkingInv, LinksMoveOn, LinkingTypeOK',
         \A a \in Attempts : AttemptOK(a)' /\ CodeOK(a)',
         UNCHANGED <<work, identity_links, link_tokens, linked, unlinked, seen_orders,
                     points_credits>>
  PROVE  LinkingInv'
<1>1. ASSUME NEW x \in Workers
      PROVE  WorkOK(work[x])'
  <2>1. PICK t : t = work[x] /\ t = work'[x] /\ WorkOK(t)
    BY DEF LinkingInv
  <2>2. WorkOK(t)'
    BY <2>1, WorkStays DEF LinkingInv
  <2> QED
    BY <2>1, <2>2
<1>2. \A x, y \in Workers : x # y => Apart(work[x], work[y])'
  BY DEF LinkingInv, Apart, HoldsAttempt, Makes, Making, Unmakes, Unmaking
<1>3. ASSUME NEW l \in LinkIds
      PROVE  LinkOK(l)'
  BY LinkStays DEF LinkingInv, LinkOK
<1>4. OneLinkPerAttempt' /\ OrdersOK' /\ \A claim \in Claims : CreditOK(claim)'
  BY DEF LinkingInv, OneLinkPerAttempt, OrdersOK, CreditOK, OrderSeen
<1> QED
  BY <1>1, <1>2, <1>3, <1>4 DEF LinkingInv

-----------------------------------------------------------------------------
LEMMA NewAttemptKeeps ==
  ASSUME LinkingInv, NEW a \in Attempts, NEW kind \in {"oauth", "hosted"}, NEW c \in People,
         NEW programme \in Programmes, NEW member \in Members \cup {Nobody},
         kind = "hosted" => member \in Members /\ Programme[member] = programme,
         NewAttempt(a, kind, c, programme, member)
  PROVE  LinkingInv'
<1>1. PICK row : row = [kind |-> kind, consumer |-> c, programme |-> programme, member |-> member,
                        open |-> TRUE]
  OBVIOUS
<1>2. /\ attempts[a] = Nobody /\ attempts' = [attempts EXCEPT ![a] = row]
      /\ UNCHANGED <<codes, identity_links, link_tokens, next_link, linked, unlinked, work,
                     seen_orders, points_credits>>
  BY <1>1 DEF NewAttempt, FreshAttempt, brand, events, money
<1>3. row \in [kind : {kind}, consumer : {c}, programme : {programme}, member : {member}, open : {TRUE}]
  BY <1>1
<1>4. row \in AttemptRows /\ row # Nobody
  BY <1>3, LinkingAssumption DEF AttemptRows
<1>5. attempts'[a] = row /\ \A x \in Attempts \ {a} : attempts'[x] = attempts[x]
  BY <1>2 DEF LinkingInv, LinkingTypeOK
<1>6. LinksMoveOn
  BY <1>2, <1>5 DEF LinksMoveOn, LinkingInv, LinkingTypeOK
<1>7. ASSUME NEW x \in Attempts
      PROVE  AttemptOK(x)' /\ CodeOK(x)'
  BY <1>2, <1>3, <1>4, <1>5 DEF LinkingInv, AttemptOK, CodeOK
<1>8. LinkingTypeOK'
  BY <1>2 DEF LinkingInv, LinkingTypeOK
<1> QED
  BY <1>2, <1>6, <1>7, <1>8, LinkingOutside

\* An attempt that expires, or that one statement uses up.
LEMMA AttemptCloses ==
  ASSUME LinkingInv, NEW a \in Attempts, attempts[a] # Nobody,
         attempts' = [attempts EXCEPT ![a].open = FALSE], UNCHANGED codes
  PROVE  /\ attempts' = [x \in Attempts |-> attempts'[x]]
         /\ \A x \in Attempts : AttemptOK(x)' /\ CodeOK(x)'
         /\ \A x \in Attempts : attempts[x] # Nobody =>
              /\ attempts'[x] # Nobody
              /\ attempts'[x].kind = attempts[x].kind /\ attempts'[x].consumer = attempts[x].consumer
              /\ attempts'[x].programme = attempts[x].programme
              /\ attempts'[x].member = attempts[x].member
              /\ ~attempts[x].open => ~attempts'[x].open
         /\ ~attempts'[a].open
<1>1. PICK row : row = [attempts[a] EXCEPT !.open = FALSE]
  OBVIOUS
<1>2. attempts[a] \in AttemptRows
  BY DEF LinkingInv, AttemptOK
<1>3. row \in [kind : {attempts[a].kind}, consumer : {attempts[a].consumer},
               programme : {attempts[a].programme}, member : {attempts[a].member}, open : {FALSE}]
  BY <1>1, <1>2 DEF AttemptRows
<1>4. row \in AttemptRows /\ row # Nobody
  BY <1>2, <1>3, LinkingAssumption DEF AttemptRows
<1>5. attempts' = [attempts EXCEPT ![a] = row]
  BY <1>1
<1>6. attempts'[a] = row /\ \A x \in Attempts \ {a} : attempts'[x] = attempts[x]
  BY <1>5 DEF LinkingInv, LinkingTypeOK
<1>7. ASSUME NEW x \in Attempts
      PROVE  AttemptOK(x)' /\ CodeOK(x)'
  <2>1. CASE x = a
    <3>1. AttemptOK(a) /\ CodeOK(a)
      BY DEF LinkingInv
    <3>2. /\ row.kind = attempts[a].kind /\ row.member = attempts[a].member
          /\ row.programme = attempts[a].programme
      BY <1>3
    <3>3. AttemptOK(a)'
      BY <1>4, <1>6, <3>1, <3>2 DEF AttemptOK
    <3>4. CodeOK(a)'
      BY <1>4, <1>6, <3>1, <3>2 DEF CodeOK
    <3> QED
      BY <2>1, <3>3, <3>4
  <2>2. CASE x # a
    BY <1>6, <2>2 DEF LinkingInv, AttemptOK, CodeOK
  <2> QED
    BY <2>1, <2>2
<1>8. attempts' = [x \in Attempts |-> attempts'[x]]
  BY <1>5 DEF LinkingInv, LinkingTypeOK
<1> QED
  BY <1>3, <1>4, <1>6, <1>7, <1>8

LEMMA AttemptExpiresKeeps ==
  ASSUME LinkingInv, NEW a \in Attempts, attempts[a] # Nobody,
         attempts' = [attempts EXCEPT ![a].open = FALSE],
         UNCHANGED <<codes, identity_links, link_tokens, next_link, linked, unlinked, work,
                     seen_orders, points_credits>>
  PROVE  LinkingInv'
<1>1. LinksMoveOn
  BY AttemptCloses, SMTT(30) DEF LinksMoveOn, LinkingInv, LinkingTypeOK
<1>2. LinkingTypeOK'
  BY AttemptCloses DEF LinkingInv, LinkingTypeOK
<1> QED
  BY <1>1, <1>2, AttemptCloses, LinkingOutside

LEMMA ConsentKeeps ==
  ASSUME LinkingInv, NEW a \in Attempts, NEW m \in Members, Consent(a, m)
  PROVE  LinkingInv'
<1>1. PICK row : row = [sub |-> m, live |-> TRUE]
  OBVIOUS
<1>2. /\ codes[a] = Nobody /\ codes' = [codes EXCEPT ![a] = row]
      /\ UNCHANGED <<attempts, identity_links, link_tokens, next_link, linked, unlinked, work,
                     seen_orders, points_credits>>
  BY <1>1 DEF Consent, events, money
<1>3. /\ attempts[a] # Nobody /\ attempts[a].kind = "oauth"
      /\ Programme[m] = attempts[a].programme
  BY DEF Consent, ConsentScreen
<1>4. row \in [sub : {m}, live : {TRUE}]
  BY <1>1
<1>5. row \in CodeRows /\ row # Nobody
  BY <1>4, LinkingAssumption DEF CodeRows
<1>6. codes'[a] = row /\ \A x \in Attempts \ {a} : codes'[x] = codes[x]
  BY <1>2 DEF LinkingInv, LinkingTypeOK
<1>7. LinksMoveOn
  BY <1>2, <1>6 DEF LinksMoveOn, LinkingInv, LinkingTypeOK
<1>8. ASSUME NEW x \in Attempts
      PROVE  AttemptOK(x)' /\ CodeOK(x)'
  BY <1>2, <1>3, <1>4, <1>5, <1>6 DEF LinkingInv, AttemptOK, CodeOK
<1>9. LinkingTypeOK'
  BY <1>2 DEF LinkingInv, LinkingTypeOK
<1> QED
  BY <1>2, <1>7, <1>8, <1>9, LinkingOutside

\* A code that expires, or that the brand deletes as it is exchanged.
LEMMA CodeCloses ==
  ASSUME LinkingInv, NEW a \in Attempts, codes[a] # Nobody,
         codes' = [codes EXCEPT ![a].live = FALSE], UNCHANGED attempts
  PROVE  /\ codes' = [x \in Attempts |-> codes'[x]]
         /\ \A x \in Attempts : AttemptOK(x)' /\ CodeOK(x)'
         /\ \A x \in Attempts : codes[x] # Nobody => codes'[x] # Nobody /\ codes'[x].sub = codes[x].sub
<1>1. PICK row : row = [codes[a] EXCEPT !.live = FALSE]
  OBVIOUS
<1>2. codes[a] \in CodeRows
  BY DEF LinkingInv, CodeOK
<1>3. row \in [sub : {codes[a].sub}, live : {FALSE}]
  BY <1>1, <1>2 DEF CodeRows
<1>4. row \in CodeRows /\ row # Nobody
  BY <1>2, <1>3, LinkingAssumption DEF CodeRows
<1>5. codes' = [codes EXCEPT ![a] = row]
  BY <1>1
<1>6. codes'[a] = row /\ \A x \in Attempts \ {a} : codes'[x] = codes[x]
  BY <1>5 DEF LinkingInv, LinkingTypeOK
<1>7. ASSUME NEW x \in Attempts
      PROVE  AttemptOK(x)' /\ CodeOK(x)'
  BY <1>3, <1>4, <1>6, ZenonT(30) DEF LinkingInv, AttemptOK, CodeOK
<1>8. codes' = [x \in Attempts |-> codes'[x]]
  BY <1>5 DEF LinkingInv, LinkingTypeOK
<1> QED
  BY <1>3, <1>4, <1>6, <1>7, <1>8

LEMMA CodeExpiresKeeps ==
  ASSUME LinkingInv, NEW a \in Attempts, CodeExpires(a)
  PROVE  LinkingInv'
<1>1. /\ codes[a] # Nobody /\ codes' = [codes EXCEPT ![a].live = FALSE]
      /\ UNCHANGED <<attempts, identity_links, link_tokens, next_link, linked, unlinked, work,
                     seen_orders, points_credits>>
  BY DEF CodeExpires, LiveCode, events, money
<1>2. LinksMoveOn
  BY <1>1, CodeCloses, SMTT(30) DEF LinksMoveOn, LinkingInv, LinkingTypeOK
<1>3. LinkingTypeOK'
  BY <1>1, CodeCloses DEF LinkingInv, LinkingTypeOK
<1> QED
  BY <1>1, <1>2, <1>3, CodeCloses, LinkingOutside

-----------------------------------------------------------------------------
\* A request that moves while links, events and orders stay as they are.
LEMMA RequestMoves ==
  ASSUME LinkingInv, LinksMoveOn, LinkingTypeOK', NEW w \in Workers, NEW u,
         work' = [work EXCEPT ![w] = u], WorkOK(u)',
         \A a \in Attempts : HoldsAttempt(u, a) => HoldsAttempt(work[w], a) \/ OpenAttempt(a),
         \A l \in LinkIds : Makes(u, l) => Makes(work[w], l) \/ l = next_link,
         \A l \in LinkIds : Unmakes(u, l) => Unmakes(work[w], l),
         \A a \in Attempts : AttemptOK(a)' /\ CodeOK(a)',
         UNCHANGED <<identity_links, link_tokens, linked, unlinked, seen_orders, points_credits>>
  PROVE  LinkingInv'
<1>1. \A l \in LinkIds : ~Makes(work[w], l) =>
        linked'[l] = linked[l] /\ (identity_links'[l] # Nobody => identity_links[l] # Nobody)
  OBVIOUS
<1>2. \A l \in LinkIds : ~Unmakes(work[w], l) =>
        /\ unlinked'[l] = unlinked[l]
        /\ identity_links[l] # Nobody => link_tokens'[l] \in {link_tokens[l], Nobody}
  OBVIOUS
<1>3. \A l \in LinkIds :
        LinkOK(l)' \/ /\ identity_links'[l] = identity_links[l]
                      /\ linked'[l] = linked[l] /\ unlinked'[l] = unlinked[l]
                      /\ identity_links[l] # Nobody => link_tokens'[l] \in {link_tokens[l], Nobody}
  OBVIOUS
<1>4. OneLinkPerAttempt' \/ \A l \in LinkIds : identity_links'[l] # Nobody => identity_links[l] # Nobody
  OBVIOUS
<1>5. \A l \in LinkIds : Unmakes(u, l) =>
        Unmakes(work[w], l) \/ (identity_links[l] # Nobody /\ identity_links[l].status = "active")
  OBVIOUS
<1>6. OrdersOK' \/ UNCHANGED seen_orders
  OBVIOUS
<1>7. UNCHANGED points_credits \/ \A claim \in Claims : CreditOK(claim)'
  OBVIOUS
<1> QED
  BY <1>1, <1>2, <1>3, <1>4, <1>5, <1>6, <1>7, LinkingMoves

LEMMA RestingIsOK ==
  /\ WorkOK(Resting)
  /\ \A a : ~HoldsAttempt(Resting, a)
  /\ \A l : ~Makes(Resting, l) /\ ~Unmakes(Resting, l)
BY DEF WorkOK, Resting, HoldsAttempt, Makes, Making, Unmakes, Unmaking

\* A request that ends there, or that fails.
LEMMA RequestEnds ==
  ASSUME LinkingInv, NEW w \in Workers, Done(w),
         UNCHANGED <<attempts, codes, identity_links, link_tokens, next_link, linked, unlinked,
                     seen_orders, points_credits>>
  PROVE  LinkingInv'
<1>1. work' = [work EXCEPT ![w] = Resting]
  BY DEF Done
<1>2. LinksMoveOn
  BY DEF LinksMoveOn, LinkingInv, LinkingTypeOK
<1>3. LinkingTypeOK'
  BY <1>1 DEF LinkingInv, LinkingTypeOK
<1>4. \A a \in Attempts : AttemptOK(a)' /\ CodeOK(a)'
  BY DEF LinkingInv, AttemptOK, CodeOK
<1>5. WorkOK(Resting)'
  BY DEF WorkOK
<1> QED
  BY <1>1, <1>2, <1>3, <1>4, <1>5, RestingIsOK, RequestMoves

LEMMA CallbackKeeps ==
  ASSUME LinkingInv, NEW w \in Workers, NEW c \in People, NEW a \in Attempts, NEW code \in Attempts,
         Callback(w, c, a, code)
  PROVE  LinkingInv'
<1>1. /\ OpenAttempt(a) /\ attempts[a].kind = "oauth" /\ work[w] = Resting
      /\ attempts' = [attempts EXCEPT ![a].open = FALSE]
      /\ UNCHANGED <<codes, identity_links, link_tokens, next_link, linked, unlinked, seen_orders,
                     points_credits>>
  BY DEF Callback, Free, OpenAttempt, brand, events, money
<1>2. CASE UNCHANGED work
  BY <1>1, <1>2, AttemptExpiresKeeps DEF OpenAttempt
<1>3. CASE work' = [work EXCEPT ![w] = [step |-> "exchange", attempt |-> a, code |-> code]]
  <2>1. PICK u : u = [step |-> "exchange", attempt |-> a, code |-> code]
    OBVIOUS
  <2>2. u \in [step : {"exchange"}, attempt : {a}, code : {code}]
    BY <2>1
  <2>3. UsedUp(a)' /\ attempts'[a].kind = "oauth"
    BY <1>1, AttemptCloses DEF UsedUp, OpenAttempt
  <2>4. WorkOK(u)'
    BY <2>2, <2>3 DEF WorkOK, UsedUp
  <2>5. /\ \A x \in Attempts : HoldsAttempt(u, x) => OpenAttempt(x)
        /\ \A l \in LinkIds : ~Makes(u, l) /\ ~Unmakes(u, l)
    BY <1>1, <2>2 DEF HoldsAttempt, Makes, Making, Unmakes, Unmaking
  <2>6. LinksMoveOn
    BY <1>1, AttemptCloses, SMTT(30) DEF LinksMoveOn, LinkingInv, LinkingTypeOK, OpenAttempt
  <2>7. LinkingTypeOK'
    BY <1>1, <1>3, AttemptCloses DEF LinkingInv, LinkingTypeOK, OpenAttempt
  <2>8. \A x \in Attempts : AttemptOK(x)' /\ CodeOK(x)'
    BY <1>1, AttemptCloses DEF OpenAttempt
  <2> QED
    BY <1>1, <1>3, <2>1, <2>4, <2>5, <2>6, <2>7, <2>8, RequestMoves
<1> QED
  BY <1>2, <1>3 DEF Callback

\* The number of the next link is nobody's.
LEMMA NextLinkIsFree ==
  ASSUME LinkingInv, next_link \in LinkIds
  PROVE  identity_links[next_link] = Nobody /\ linked[next_link] = 0
BY LinkingAssumption DEF LinkingInv, LinkOK, LinkingTypeOK

LEMMA BuildLinkKeeps ==
  ASSUME LinkingInv, LinksMoveOn, NEW w \in Workers, NEW a \in Attempts, NEW sub \in Members,
         NEW step \in {"seal", "persist"}, BuildLink(w, a, sub, step),
         HoldsAttempt(work[w], a) \/ OpenAttempt(a),
         attempts[a] # Nobody, UsedUp(a)', Programme[sub] = attempts[a].programme,
         attempts[a].kind = "hosted" => sub = attempts[a].member,
         attempts[a].kind = "oauth" => codes[a] # Nobody /\ sub = codes[a].sub,
         attempts' = [x \in Attempts |-> attempts'[x]], codes' = [x \in Attempts |-> codes'[x]],
         \A x \in Attempts : AttemptOK(x)' /\ CodeOK(x)',
         UNCHANGED <<identity_links, link_tokens, linked, unlinked, seen_orders, points_credits>>
  PROVE  LinkingInv'
<1>1. PICK row : row = Built(a, sub)
  OBVIOUS
<1>2. PICK u : u = [step |-> step, link |-> next_link, row |-> row]
  OBVIOUS
<1>3. /\ next_link \in LinkIds /\ next_link' = next_link + 1
      /\ work' = [work EXCEPT ![w] = u]
  BY <1>1, <1>2 DEF BuildLink
<1>4. row \in [attempt : {a}, consumer : {attempts[a].consumer}, programme : {attempts[a].programme},
               sub : {sub}, status : {"active"}]
  BY <1>1 DEF Built
<1>5. attempts[a] \in AttemptRows
  BY DEF LinkingInv, AttemptOK
<1>6. row \in LinkRows
  BY <1>4, <1>5 DEF LinkRows, AttemptRows
<1>7. RowOK(row)'
  BY <1>4, <1>6 DEF RowOK, LinksMoveOn
<1>8. u \in [step : {step}, link : {next_link}, row : {row}]
  BY <1>2
<1>9. identity_links'[next_link] = Nobody /\ linked'[next_link] = 0
  BY <1>3, NextLinkIsFree
<1>10. next_link < next_link'
  BY <1>3 DEF LinkingInv, LinkingTypeOK
<1>11. WorkOK(u)'
  <2>1. u \in [step : {"seal", "persist", "tell_linked"}, link : LinkIds, row : LinkRows]
    BY <1>3, <1>6, <1>8
  <2>2. u.row = row /\ u.link = next_link /\ u.step # "tell_linked"
    BY <1>8
  <2>3. RowOK(u.row)' /\ u.row.status = "active"
    BY <1>4, <1>7, <2>2
  <2> QED
    BY <1>9, <1>10, <2>1, <2>2, <2>3 DEF WorkOK
<1>12. /\ \A x \in Attempts : HoldsAttempt(u, x) => x = a
       /\ \A l \in LinkIds : Makes(u, l) => l = next_link
       /\ \A l \in LinkIds : ~Unmakes(u, l)
  BY <1>4, <1>8 DEF HoldsAttempt, Makes, Unmakes, Unmaking
<1>13. LinkingTypeOK'
  BY <1>3 DEF LinkingInv, LinkingTypeOK
<1>14. \A x \in Attempts : HoldsAttempt(u, x) => HoldsAttempt(work[w], x) \/ OpenAttempt(x)
  BY <1>12
<1>15. \A l \in LinkIds : Makes(u, l) => Makes(work[w], l) \/ l = next_link
  BY <1>12
<1>16. \A l \in LinkIds : Unmakes(u, l) => Unmakes(work[w], l)
  BY <1>12
<1> QED
  BY <1>3, <1>11, <1>13, <1>14, <1>15, <1>16, RequestMoves

LEMMA VerifyHostedKeeps ==
  ASSUME LinkingInv, NEW w \in Workers, NEW c \in People, NEW a \in Attempts, VerifyHosted(w, c, a)
  PROVE  LinkingInv'
<1>1. /\ OpenAttempt(a) /\ attempts[a].kind = "hosted"
      /\ attempts' = [attempts EXCEPT ![a].open = FALSE]
      /\ UNCHANGED <<codes, identity_links, link_tokens, linked, unlinked, seen_orders,
                     points_credits>>
  BY DEF VerifyHosted, OpenAttempt, brand, events, money
<1>2. CASE UNCHANGED <<work, next_link>>
  BY <1>1, <1>2, AttemptExpiresKeeps DEF OpenAttempt
<1>3. CASE BuildLink(w, a, attempts[a].member, "persist")
  <2>1. attempts[a].member \in Members /\ Programme[attempts[a].member] = attempts[a].programme
    BY <1>1 DEF LinkingInv, AttemptOK, OpenAttempt
  <2>2. UsedUp(a)'
    BY <1>1, AttemptCloses DEF UsedUp, OpenAttempt
  <2>3. LinksMoveOn
    BY <1>1, <1>3, AttemptCloses, SMTT(30) DEF LinksMoveOn, LinkingInv, LinkingTypeOK, OpenAttempt, BuildLink
  <2>4. attempts' = [x \in Attempts |-> attempts'[x]] /\ \A x \in Attempts : AttemptOK(x)' /\ CodeOK(x)'
    BY <1>1, AttemptCloses DEF OpenAttempt
  <2>5. codes' = [x \in Attempts |-> codes'[x]]
    BY <1>1 DEF LinkingInv, LinkingTypeOK
  <2> QED
    BY <1>1, <1>3, <2>1, <2>2, <2>3, <2>4, <2>5, BuildLinkKeeps DEF OpenAttempt
<1> QED
  BY <1>2, <1>3 DEF VerifyHosted

LEMMA ExchangeKeeps ==
  ASSUME LinkingInv, NEW w \in Workers, Exchange(w)
  PROVE  LinkingInv'
<1>1. PICK a \in Attempts, code \in Attempts :
        /\ a = work[w].attempt /\ code = work[w].code
        /\ UsedUp(a) /\ attempts[a].kind = "oauth" /\ HoldsAttempt(work[w], a)
  BY DEF LinkingInv, WorkOK, Exchange, InStep, Resting, HoldsAttempt
<1>2. /\ codes[code] # Nobody /\ codes' = [codes EXCEPT ![code].live = FALSE]
      /\ UNCHANGED <<attempts, identity_links, link_tokens, linked, unlinked, seen_orders,
                     points_credits>>
  BY <1>1 DEF Exchange, KnownCode, LiveCode, events, money
<1>3. /\ codes' = [x \in Attempts |-> codes'[x]]
      /\ \A x \in Attempts : AttemptOK(x)' /\ CodeOK(x)'
      /\ \A x \in Attempts : codes[x] # Nobody => codes'[x] # Nobody /\ codes'[x].sub = codes[x].sub
  BY <1>2, CodeCloses
<1>4. CASE VerifierMatches(w) /\ BuildLink(w, a, SubjectOf(code), "seal")
  <2>1. code = a
    BY <1>1, <1>4 DEF VerifierMatches
  <2>2. codes[a].sub \in Members /\ Programme[codes[a].sub] = attempts[a].programme
    BY <1>2, <2>1 DEF LinkingInv, CodeOK, CodeRows
  <2>3. BuildLink(w, a, codes[a].sub, "seal")
    BY <1>4, <2>1 DEF SubjectOf
  <2>4. LinksMoveOn
    BY <1>2, <1>3, <2>3 DEF LinksMoveOn, LinkingInv, LinkingTypeOK, BuildLink
  <2>5. UsedUp(a)' /\ attempts' = [x \in Attempts |-> attempts'[x]]
    BY <1>1, <1>2 DEF UsedUp, LinkingInv, LinkingTypeOK
  <2>6. PICK sub \in Members :
          /\ sub = codes[a].sub /\ Programme[sub] = attempts[a].programme
          /\ BuildLink(w, a, sub, "seal")
    BY <2>2, <2>3
  <2>7. attempts[a] # Nobody /\ codes[a] # Nobody
    BY <1>1, <1>2, <2>1 DEF UsedUp
  <2> QED
    BY <1>1, <1>2, <1>3, <2>4, <2>5, <2>6, <2>7, BuildLinkKeeps
<1>5. CASE Done(w) /\ UNCHANGED next_link
  <2>1. work' = [work EXCEPT ![w] = Resting] /\ WorkOK(Resting)'
    BY <1>5 DEF Done, WorkOK
  <2>2. LinksMoveOn
    BY <1>2, <1>3, <1>5 DEF LinksMoveOn, LinkingInv, LinkingTypeOK
  <2>3. LinkingTypeOK'
    BY <1>2, <1>3, <1>5, <2>1 DEF LinkingInv, LinkingTypeOK
  <2> QED
    BY <1>2, <1>3, <2>1, <2>2, <2>3, RestingIsOK, RequestMoves
<1> QED
  BY <1>1, <1>4, <1>5 DEF Exchange

-----------------------------------------------------------------------------
\* What does not touch attempts and codes leaves them as they should be.
LEMMA AttemptsStay ==
  ASSUME LinkingInv, UNCHANGED <<attempts, codes>>
  PROVE  \A a \in Attempts : AttemptOK(a)' /\ CodeOK(a)'
BY DEF LinkingInv, AttemptOK, CodeOK

\* A request that makes a link, at a step of it.
LEMMA MakerAt ==
  ASSUME LinkingInv, NEW w \in Workers, NEW t, t = work[w], Making(t), NEW s,
         NEW u, u = [t EXCEPT !.step = s]
  PROVE  /\ t.link \in LinkIds /\ t.row \in LinkRows /\ RowOK(t.row) /\ t.row.status = "active"
         /\ t.link < next_link /\ linked[t.link] = 0
         /\ t.step = "tell_linked" <=> identity_links[t.link] # Nobody
         /\ u \in [step : {s}, link : {t.link}, row : {t.row}]
<1>1. /\ t \in [step : {"seal", "persist", "tell_linked"}, link : LinkIds, row : LinkRows]
      /\ RowOK(t.row) /\ t.row.status = "active"
      /\ t.link < next_link /\ linked[t.link] = 0
      /\ t.step = "tell_linked" <=> identity_links[t.link] # Nobody
  BY DEF LinkingInv, WorkOK, Making, Resting
<1>2. u \in [step : {s}, link : {t.link}, row : {t.row}]
  BY <1>1
<1> QED
  BY <1>1, <1>2

LEMMA UnmakerAt ==
  ASSUME LinkingInv, NEW w \in Workers, NEW t, t = work[w], Unmaking(t), NEW s,
         NEW u, u = [t EXCEPT !.step = s]
  PROVE  /\ t.link \in LinkIds /\ identity_links[t.link] # Nobody
         /\ identity_links[t.link].status = "revoked" /\ unlinked[t.link] = 0
         /\ t.step = "tell_unlinked" => link_tokens[t.link] = Nobody
         /\ u \in [step : {s}, link : {t.link}]
<1>1. /\ t \in [step : {"revoke_at_brand", "drop", "tell_unlinked"}, link : LinkIds]
      /\ identity_links[t.link] # Nobody /\ identity_links[t.link].status = "revoked"
      /\ unlinked[t.link] = 0
      /\ t.step = "tell_unlinked" => link_tokens[t.link] = Nobody
  BY DEF LinkingInv, WorkOK, Unmaking, Resting
<1>2. u \in [step : {s}, link : {t.link}]
  BY <1>1
<1> QED
  BY <1>1, <1>2

LEMMA SealTokensKeeps ==
  ASSUME LinkingInv, NEW w \in Workers, SealTokens(w)
  PROVE  LinkingInv'
<1>1. PICK t : t = work[w]
  OBVIOUS
<1>2. PICK u : u = [t EXCEPT !.step = "persist"]
  OBVIOUS
<1>3. t.step = "seal" /\ Making(t)
  BY <1>1 DEF SealTokens, InStep, Making
<1>4. /\ t.link \in LinkIds /\ t.row \in LinkRows /\ RowOK(t.row) /\ t.row.status = "active"
      /\ t.link < next_link /\ linked[t.link] = 0 /\ identity_links[t.link] = Nobody
      /\ u \in [step : {"persist"}, link : {t.link}, row : {t.row}]
  BY <1>1, <1>2, <1>3, MakerAt
<1>5. /\ work' = [work EXCEPT ![w] = u]
      /\ link_tokens' = [link_tokens EXCEPT ![t.link] = t.row.attempt]
      /\ UNCHANGED <<attempts, codes, identity_links, next_link, linked, unlinked, seen_orders,
                     points_credits>>
  BY <1>1, <1>2 DEF SealTokens, ToStep, brand, events, money
<1>6. LinksMoveOn
  BY <1>5 DEF LinksMoveOn, LinkingInv, LinkingTypeOK
<1>7. LinkingTypeOK'
  BY <1>5 DEF LinkingInv, LinkingTypeOK
<1>8. WorkOK(u)'
  <2>1. PICK row : row = t.row
    OBVIOUS
  <2>2. RowOK(row)'
    BY <1>4, <1>6, <2>1, RowStays
  <2>3. u.row = row /\ u.link = t.link /\ u.step = "persist"
    BY <1>4, <2>1
  <2> QED
    BY <1>4, <1>5, <2>1, <2>2, <2>3 DEF WorkOK
<1>9. /\ \A a \in Attempts : HoldsAttempt(u, a) => HoldsAttempt(work[w], a)
      /\ \A l \in LinkIds : Makes(u, l) => Makes(work[w], l)
      /\ \A l \in LinkIds : ~Unmakes(u, l)
  BY <1>1, <1>3, <1>4 DEF HoldsAttempt, Makes, Making, Unmakes, Unmaking
<1>10. \A l \in LinkIds : identity_links[l] # Nobody => link_tokens'[l] = link_tokens[l]
  BY <1>4, <1>5 DEF LinkingInv, LinkingTypeOK
<1>11. \A l \in LinkIds :
         LinkOK(l)' \/ /\ identity_links'[l] = identity_links[l]
                       /\ linked'[l] = linked[l] /\ unlinked'[l] = unlinked[l]
                       /\ identity_links[l] # Nobody => link_tokens'[l] \in {link_tokens[l], Nobody}
  BY <1>5, <1>10
<1>12. /\ \A l \in LinkIds : ~Makes(work[w], l) =>
            linked'[l] = linked[l] /\ (identity_links'[l] # Nobody => identity_links[l] # Nobody)
       /\ \A l \in LinkIds : ~Unmakes(work[w], l) =>
            /\ unlinked'[l] = unlinked[l]
            /\ identity_links[l] # Nobody => link_tokens'[l] \in {link_tokens[l], Nobody}
  BY <1>5, <1>10
<1>13. OneLinkPerAttempt' \/ \A l \in LinkIds : identity_links'[l] # Nobody => identity_links[l] # Nobody
  BY <1>5
<1> QED
  BY <1>5, <1>6, <1>7, <1>8, <1>9, <1>11, <1>12, <1>13, AttemptsStay, LinkingMoves

LEMMA PersistLinkKeeps ==
  ASSUME LinkingInv, NEW w \in Workers, PersistLink(w)
  PROVE  LinkingInv'
<1>1. PICK t : t = work[w]
  OBVIOUS
<1>2. PICK u : u = [t EXCEPT !.step = "tell_linked"]
  OBVIOUS
<1>3. t.step = "persist" /\ Making(t)
  BY <1>1 DEF PersistLink, InStep, Making
<1>4. PICK n \in LinkIds, row \in LinkRows :
        /\ n = t.link /\ row = t.row /\ RowOK(row) /\ row.status = "active" /\ row # Nobody
        /\ n < next_link /\ linked[n] = 0 /\ identity_links[n] = Nobody
        /\ u \in [step : {"tell_linked"}, link : {n}, row : {row}]
  BY <1>1, <1>2, <1>3, MakerAt, LinkingAssumption
<1>5. /\ work' = [work EXCEPT ![w] = u]
      /\ identity_links' = [identity_links EXCEPT ![n] = row]
      /\ UNCHANGED <<attempts, codes, link_tokens, next_link, linked, unlinked, seen_orders,
                     points_credits>>
  BY <1>1, <1>2, <1>4 DEF PersistLink, ToStep, brand, events, money
<1>6. /\ identity_links'[n] = row /\ \A l \in LinkIds \ {n} : identity_links'[l] = identity_links[l]
      /\ work'[w] = u /\ \A x \in Workers \ {w} : work'[x] = work[x]
  BY <1>5 DEF LinkingInv, LinkingTypeOK
<1>7. LinksMoveOn
  BY <1>4, <1>5, <1>6 DEF LinksMoveOn, LinkingInv, LinkingTypeOK
<1>8. LinkingTypeOK'
  BY <1>5 DEF LinkingInv, LinkingTypeOK
<1>9. RowOK(row)'
  BY <1>4, <1>7, RowStays
<1>10. WorkOK(u)'
  BY <1>4, <1>5, <1>6, <1>9 DEF WorkOK
<1>11. /\ \A a \in Attempts : ~HoldsAttempt(u, a)
       /\ \A l \in LinkIds : Makes(u, l) => Makes(work[w], l)
       /\ \A l \in LinkIds : ~Unmakes(u, l)
       /\ Makes(work[w], n) /\ HoldsAttempt(work[w], row.attempt) /\ row.attempt \in Attempts
  BY <1>1, <1>3, <1>4 DEF HoldsAttempt, Makes, Making, Unmakes, Unmaking, LinkRows
<1>12. LinkOK(n)'
  <2>1. \A x \in Workers : ~HoldsAttempt(work'[x], row.attempt)
    BY <1>6, <1>11 DEF LinkingInv, Apart
  <2>2. \A x \in Workers : ~HoldsAttempt(work[x], row.attempt)'
    BY <2>1 DEF HoldsAttempt
  <2>3. linked'[n] = 0 /\ unlinked'[n] = 0
    BY <1>4, <1>5 DEF LinkingInv, LinkOK
  <2> QED
    BY <1>4, <1>5, <1>6, <1>9, <2>2, <2>3 DEF LinkOK
<1>13. \A l \in LinkIds :
         LinkOK(l)' \/ /\ identity_links'[l] = identity_links[l]
                       /\ linked'[l] = linked[l] /\ unlinked'[l] = unlinked[l]
                       /\ identity_links[l] # Nobody => link_tokens'[l] \in {link_tokens[l], Nobody}
  BY <1>5, <1>6, <1>12
<1>14. /\ \A l \in LinkIds : ~Makes(work[w], l) =>
            linked'[l] = linked[l] /\ (identity_links'[l] # Nobody => identity_links[l] # Nobody)
       /\ \A l \in LinkIds : ~Unmakes(work[w], l) =>
            /\ unlinked'[l] = unlinked[l]
            /\ identity_links[l] # Nobody => link_tokens'[l] \in {link_tokens[l], Nobody}
  BY <1>5, <1>6, <1>11
<1>15. OneLinkPerAttempt'
  <2>1. \A l \in LinkIds : identity_links[l] # Nobody => identity_links[l].attempt # row.attempt
    BY <1>11 DEF LinkingInv, LinkOK
  <2> QED
    BY <1>6, <2>1 DEF LinkingInv, OneLinkPerAttempt
<1> QED
  BY <1>5, <1>7, <1>8, <1>10, <1>11, <1>13, <1>14, <1>15, AttemptsStay, LinkingMoves

\* The event of a link is appended: what the request made or unmade is complete.
LEMMA AppendLinkedKeeps ==
  ASSUME LinkingInv, NEW w \in Workers, AppendLinked(w)
  PROVE  LinkingInv'
<1>1. PICK t : t = work[w]
  OBVIOUS
<1>2. t.step = "tell_linked" /\ Making(t)
  BY <1>1 DEF AppendLinked, InStep, Making
<1>3. PICK n \in LinkIds : n = t.link /\ linked[n] = 0 /\ identity_links[n] # Nobody
  BY <1>1, <1>2, MakerAt
<1>4. /\ work' = [work EXCEPT ![w] = Resting]
      /\ linked' = [linked EXCEPT ![n] = 1]
      /\ UNCHANGED <<attempts, codes, identity_links, link_tokens, next_link, unlinked, seen_orders,
                     points_credits>>
  BY <1>1, <1>3 DEF AppendLinked, Done, brand, money
<1>5. /\ linked'[n] = 1 /\ \A l \in LinkIds \ {n} : linked'[l] = linked[l]
      /\ work'[w] = Resting /\ \A x \in Workers \ {w} : work'[x] = work[x]
  BY <1>4 DEF LinkingInv, LinkingTypeOK
<1>6. LinksMoveOn
  BY <1>4 DEF LinksMoveOn, LinkingInv, LinkingTypeOK
<1>7. LinkingTypeOK'
  BY <1>4 DEF LinkingInv, LinkingTypeOK
<1>8. WorkOK(Resting)' /\ Makes(work[w], n)
  BY <1>1, <1>2, <1>3 DEF WorkOK, Makes
<1>9. LinkOK(n)'
  <2>1. PICK row : row = identity_links[n] /\ row = identity_links'[n] /\ RowOK(row)
    BY <1>3, <1>4 DEF LinkingInv, LinkOK
  <2>2. RowOK(row)'
    BY <1>6, <2>1, RowStays
  <2>3. \A x \in Workers : ~HoldsAttempt(work'[x], row.attempt)
    BY <1>3, <1>5, <2>1, RestingIsOK, ZenonT(30) DEF LinkingInv, LinkOK
  <2>4. \A x \in Workers : ~HoldsAttempt(work[x], row.attempt)'
    BY <2>3 DEF HoldsAttempt
  <2> QED
    BY <1>3, <1>4, <1>5, <2>1, <2>2, <2>4 DEF LinkingInv, LinkOK
<1>10. \A l \in LinkIds :
         LinkOK(l)' \/ /\ identity_links'[l] = identity_links[l]
                       /\ linked'[l] = linked[l] /\ unlinked'[l] = unlinked[l]
                       /\ identity_links[l] # Nobody => link_tokens'[l] \in {link_tokens[l], Nobody}
  BY <1>4, <1>5, <1>9
<1>11. /\ \A l \in LinkIds : ~Makes(work[w], l) =>
            linked'[l] = linked[l] /\ (identity_links'[l] # Nobody => identity_links[l] # Nobody)
       /\ \A l \in LinkIds : ~Unmakes(work[w], l) =>
            /\ unlinked'[l] = unlinked[l]
            /\ identity_links[l] # Nobody => link_tokens'[l] \in {link_tokens[l], Nobody}
  BY <1>4, <1>5, <1>8
<1>12. OneLinkPerAttempt' \/ \A l \in LinkIds : identity_links'[l] # Nobody => identity_links[l] # Nobody
  BY <1>4
<1> QED
  BY <1>4, <1>6, <1>7, <1>8, <1>10, <1>11, <1>12, RestingIsOK, AttemptsStay, LinkingMoves

LEMMA UnlinkKeeps ==
  ASSUME LinkingInv, NEW w \in Workers, NEW c \in People, NEW n \in LinkIds, Unlink(w, c, n)
  PROVE  LinkingInv'
<1>1. PICK old : old = identity_links[n]
  OBVIOUS
<1>2. PICK row : row = [old EXCEPT !.status = "revoked"]
  OBVIOUS
<1>3. PICK u : u = [step |-> "revoke_at_brand", link |-> n]
  OBVIOUS
<1>4. /\ old # Nobody /\ old.status = "active" /\ work[w] = Resting
      /\ identity_links' = [identity_links EXCEPT ![n] = row]
      /\ work' = [work EXCEPT ![w] = u]
      /\ UNCHANGED <<attempts, codes, link_tokens, next_link, linked, unlinked, seen_orders,
                     points_credits>>
  BY <1>1, <1>2, <1>3 DEF Unlink, Free, brand, events, money
<1>5. RowOK(old)
  BY <1>1, <1>4 DEF LinkingInv, LinkOK
<1>6. row \in [attempt : {old.attempt}, consumer : {old.consumer}, programme : {old.programme},
               sub : {old.sub}, status : {"revoked"}]
  BY <1>2, <1>5 DEF RowOK, LinkRows
<1>7. row \in LinkRows /\ row # Nobody
  BY <1>5, <1>6, LinkingAssumption DEF RowOK, LinkRows
<1>8. /\ identity_links'[n] = row /\ \A l \in LinkIds \ {n} : identity_links'[l] = identity_links[l]
      /\ work'[w] = u /\ \A x \in Workers \ {w} : work'[x] = work[x]
  BY <1>4 DEF LinkingInv, LinkingTypeOK
<1>9. LinksMoveOn
  BY <1>1, <1>4, <1>6, <1>7, <1>8 DEF LinksMoveOn, LinkingInv, LinkingTypeOK
<1>10. LinkingTypeOK'
  BY <1>4 DEF LinkingInv, LinkingTypeOK
<1>11. u \in [step : {"revoke_at_brand"}, link : {n}]
  BY <1>3
<1>12. unlinked[n] = 0
  BY <1>1, <1>4 DEF LinkingInv, LinkOK
<1>13. WorkOK(u)'
  BY <1>4, <1>6, <1>7, <1>8, <1>11, <1>12 DEF WorkOK
<1>14. /\ \A a \in Attempts : ~HoldsAttempt(u, a)
       /\ \A l \in LinkIds : ~Makes(u, l)
       /\ \A l \in LinkIds : Unmakes(u, l) => l = n
  BY <1>11 DEF HoldsAttempt, Makes, Making, Unmakes
<1>15. LinkOK(n)'
  <2>1. RowOK(old)'
    BY <1>5, <1>9, RowStays
  <2>2. RowOK(row)'
    BY <1>6, <1>7, <2>1 DEF RowOK
  <2>3. \A x \in Workers : ~HoldsAttempt(work'[x], row.attempt)
    BY <1>1, <1>4, <1>5, <1>6, <1>8, <1>14 DEF LinkingInv, LinkOK, RowOK, LinkRows
  <2>4. \A x \in Workers : ~HoldsAttempt(work[x], row.attempt)'
    BY <2>3 DEF HoldsAttempt
  <2> QED
    BY <1>1, <1>4, <1>7, <1>8, <1>12, <2>2, <2>4 DEF LinkingInv, LinkOK
<1>16. \A l \in LinkIds :
         LinkOK(l)' \/ /\ identity_links'[l] = identity_links[l]
                       /\ linked'[l] = linked[l] /\ unlinked'[l] = unlinked[l]
                       /\ identity_links[l] # Nobody => link_tokens'[l] \in {link_tokens[l], Nobody}
  BY <1>4, <1>8, <1>15
<1>17. /\ \A l \in LinkIds : ~Makes(work[w], l) =>
            linked'[l] = linked[l] /\ (identity_links'[l] # Nobody => identity_links[l] # Nobody)
       /\ \A l \in LinkIds : ~Unmakes(work[w], l) =>
            /\ unlinked'[l] = unlinked[l]
            /\ identity_links[l] # Nobody => link_tokens'[l] \in {link_tokens[l], Nobody}
  BY <1>1, <1>4, <1>8
<1>18. OneLinkPerAttempt' \/ \A l \in LinkIds : identity_links'[l] # Nobody => identity_links[l] # Nobody
  BY <1>1, <1>4, <1>8
<1>19. \A l \in LinkIds : Unmakes(u, l) =>
         Unmakes(work[w], l) \/ (identity_links[l] # Nobody /\ identity_links[l].status = "active")
  BY <1>1, <1>4, <1>14
<1> QED
  BY <1>4, <1>9, <1>10, <1>13, <1>14, <1>16, <1>17, <1>18, <1>19, AttemptsStay, LinkingMoves

LEMMA RevokeAtBrandKeeps ==
  ASSUME LinkingInv, NEW w \in Workers, RevokeAtBrand(w)
  PROVE  LinkingInv'
<1>1. PICK t : t = work[w]
  OBVIOUS
<1>2. PICK u : u = [t EXCEPT !.step = "drop"]
  OBVIOUS
<1>3. t.step = "revoke_at_brand" /\ Unmaking(t)
  BY <1>1 DEF RevokeAtBrand, InStep, Unmaking
<1>4. /\ t.link \in LinkIds /\ identity_links[t.link] # Nobody
      /\ identity_links[t.link].status = "revoked" /\ unlinked[t.link] = 0
      /\ u \in [step : {"drop"}, link : {t.link}]
  BY <1>1, <1>2, <1>3, UnmakerAt
<1>5. /\ work' = [work EXCEPT ![w] = u]
      /\ UNCHANGED <<attempts, codes, identity_links, link_tokens, next_link, linked, unlinked,
                     seen_orders, points_credits>>
  BY <1>1, <1>2 DEF RevokeAtBrand, ToStep, events, money
<1>6. LinksMoveOn
  BY <1>5 DEF LinksMoveOn, LinkingInv, LinkingTypeOK
<1>7. LinkingTypeOK'
  BY <1>5 DEF LinkingInv, LinkingTypeOK
<1>8. WorkOK(u)'
  BY <1>4, <1>5 DEF WorkOK
<1>9. /\ \A a \in Attempts : ~HoldsAttempt(u, a)
      /\ \A l \in LinkIds : ~Makes(u, l)
      /\ \A l \in LinkIds : Unmakes(u, l) => Unmakes(work[w], l)
  BY <1>1, <1>3, <1>4 DEF HoldsAttempt, Makes, Making, Unmakes
<1> QED
  BY <1>5, <1>6, <1>7, <1>8, <1>9, AttemptsStay, RequestMoves

LEMMA DropTokensKeeps ==
  ASSUME LinkingInv, NEW w \in Workers, DropTokens(w)
  PROVE  LinkingInv'
<1>1. PICK t : t = work[w]
  OBVIOUS
<1>2. PICK u : u = [t EXCEPT !.step = "tell_unlinked"]
  OBVIOUS
<1>3. t.step = "drop" /\ Unmaking(t)
  BY <1>1 DEF DropTokens, InStep, Unmaking
<1>4. PICK n \in LinkIds :
        /\ n = t.link /\ identity_links[n] # Nobody
        /\ identity_links[n].status = "revoked" /\ unlinked[n] = 0
        /\ u \in [step : {"tell_unlinked"}, link : {n}]
  BY <1>1, <1>2, <1>3, UnmakerAt
<1>5. /\ work' = [work EXCEPT ![w] = u]
      /\ link_tokens' = [link_tokens EXCEPT ![n] = Nobody]
      /\ UNCHANGED <<attempts, codes, identity_links, next_link, linked, unlinked, seen_orders,
                     points_credits>>
  BY <1>1, <1>2, <1>4 DEF DropTokens, ToStep, brand, events, money
<1>6. \A l \in LinkIds : link_tokens'[l] \in {link_tokens[l], Nobody}
  BY <1>5 DEF LinkingInv, LinkingTypeOK
<1>7. LinksMoveOn
  BY <1>5 DEF LinksMoveOn, LinkingInv, LinkingTypeOK
<1>8. LinkingTypeOK'
  BY <1>5 DEF LinkingInv, LinkingTypeOK
<1>9. link_tokens'[n] = Nobody
  BY <1>5 DEF LinkingInv, LinkingTypeOK
<1>10. WorkOK(u)'
  BY <1>4, <1>5, <1>9 DEF WorkOK
<1>11. /\ \A a \in Attempts : ~HoldsAttempt(u, a)
       /\ \A l \in LinkIds : ~Makes(u, l)
       /\ \A l \in LinkIds : Unmakes(u, l) => Unmakes(work[w], l)
  BY <1>1, <1>3, <1>4 DEF HoldsAttempt, Makes, Making, Unmakes
<1>12. \A l \in LinkIds :
         LinkOK(l)' \/ /\ identity_links'[l] = identity_links[l]
                       /\ linked'[l] = linked[l] /\ unlinked'[l] = unlinked[l]
                       /\ identity_links[l] # Nobody => link_tokens'[l] \in {link_tokens[l], Nobody}
  BY <1>5, <1>6
<1>13. /\ \A l \in LinkIds : ~Makes(work[w], l) =>
            linked'[l] = linked[l] /\ (identity_links'[l] # Nobody => identity_links[l] # Nobody)
       /\ \A l \in LinkIds : ~Unmakes(work[w], l) =>
            /\ unlinked'[l] = unlinked[l]
            /\ identity_links[l] # Nobody => link_tokens'[l] \in {link_tokens[l], Nobody}
  BY <1>5, <1>6
<1>14. OneLinkPerAttempt' \/ \A l \in LinkIds : identity_links'[l] # Nobody => identity_links[l] # Nobody
  BY <1>5
<1> QED
  BY <1>5, <1>7, <1>8, <1>10, <1>11, <1>12, <1>13, <1>14, AttemptsStay, LinkingMoves

LEMMA AppendUnlinkedKeeps ==
  ASSUME LinkingInv, NEW w \in Workers, AppendUnlinked(w)
  PROVE  LinkingInv'
<1>1. PICK t : t = work[w]
  OBVIOUS
<1>2. t.step = "tell_unlinked" /\ Unmaking(t)
  BY <1>1 DEF AppendUnlinked, InStep, Unmaking
<1>3. PICK n \in LinkIds :
        /\ n = t.link /\ identity_links[n] # Nobody
        /\ identity_links[n].status = "revoked" /\ unlinked[n] = 0 /\ link_tokens[n] = Nobody
  BY <1>1, <1>2, UnmakerAt
<1>4. /\ work' = [work EXCEPT ![w] = Resting]
      /\ unlinked' = [unlinked EXCEPT ![n] = 1]
      /\ UNCHANGED <<attempts, codes, identity_links, link_tokens, next_link, linked, seen_orders,
                     points_credits>>
  BY <1>1, <1>3 DEF AppendUnlinked, Done, brand, money
<1>5. /\ unlinked'[n] = 1 /\ \A l \in LinkIds \ {n} : unlinked'[l] = unlinked[l]
      /\ work'[w] = Resting /\ \A x \in Workers \ {w} : work'[x] = work[x]
  BY <1>4 DEF LinkingInv, LinkingTypeOK
<1>6. LinksMoveOn
  BY <1>4 DEF LinksMoveOn, LinkingInv, LinkingTypeOK
<1>7. LinkingTypeOK'
  BY <1>4 DEF LinkingInv, LinkingTypeOK
<1>8. WorkOK(Resting)' /\ Unmakes(work[w], n)
  BY <1>1, <1>2, <1>3 DEF WorkOK, Unmakes
<1>9. LinkOK(n)'
  <2>1. PICK row : row = identity_links[n] /\ row = identity_links'[n] /\ RowOK(row)
    BY <1>3, <1>4 DEF LinkingInv, LinkOK
  <2>2. RowOK(row)'
    BY <1>6, <2>1, RowStays
  <2>3. \A x \in Workers : ~HoldsAttempt(work'[x], row.attempt)
    BY <1>3, <1>5, <2>1, RestingIsOK DEF LinkingInv, LinkOK
  <2>4. \A x \in Workers : ~HoldsAttempt(work[x], row.attempt)'
    BY <2>3 DEF HoldsAttempt
  <2> QED
    BY <1>3, <1>4, <1>5, <2>1, <2>2, <2>4 DEF LinkingInv, LinkOK
<1>10. \A l \in LinkIds :
         LinkOK(l)' \/ /\ identity_links'[l] = identity_links[l]
                       /\ linked'[l] = linked[l] /\ unlinked'[l] = unlinked[l]
                       /\ identity_links[l] # Nobody => link_tokens'[l] \in {link_tokens[l], Nobody}
  BY <1>4, <1>5, <1>9
<1>11. /\ \A l \in LinkIds : ~Makes(work[w], l) =>
            linked'[l] = linked[l] /\ (identity_links'[l] # Nobody => identity_links[l] # Nobody)
       /\ \A l \in LinkIds : ~Unmakes(work[w], l) =>
            /\ unlinked'[l] = unlinked[l]
            /\ identity_links[l] # Nobody => link_tokens'[l] \in {link_tokens[l], Nobody}
  BY <1>4, <1>5, <1>8
<1>12. OneLinkPerAttempt' \/ \A l \in LinkIds : identity_links'[l] # Nobody => identity_links[l] # Nobody
  BY <1>4
<1> QED
  BY <1>4, <1>6, <1>7, <1>8, <1>10, <1>11, <1>12, RestingIsOK, AttemptsStay, LinkingMoves

-----------------------------------------------------------------------------
\* A delivery that moves while nothing but itself changes.
LEMMA DeliveryMoves ==
  ASSUME LinkingInv, NEW w \in Workers, NEW u, work' = [work EXCEPT ![w] = u], WorkOK(u)',
         u.step \in {"choose", "credit", "record"},
         UNCHANGED <<attempts, codes, identity_links, link_tokens, next_link, linked, unlinked,
                     seen_orders, points_credits>>
  PROVE  LinkingInv'
<1>1. LinksMoveOn
  BY DEF LinksMoveOn, LinkingInv, LinkingTypeOK
<1>2. LinkingTypeOK'
  BY DEF LinkingInv, LinkingTypeOK
<1>3. /\ \A a \in Attempts : ~HoldsAttempt(u, a)
      /\ \A l \in LinkIds : ~Makes(u, l) /\ ~Unmakes(u, l)
  BY DEF HoldsAttempt, Makes, Making, Unmakes, Unmaking
<1> QED
  BY <1>1, <1>2, <1>3, AttemptsStay, RequestMoves

LEMMA DeliverClaimKeeps ==
  ASSUME LinkingInv, NEW w \in Workers, NEW claim \in Claims, DeliverClaim(w, claim)
  PROVE  LinkingInv'
<1>1. PICK u : u = [step |-> "choose", claim |-> claim]
  OBVIOUS
<1>2. u \in [step : {"choose"}, claim : Claims]
  BY <1>1
<1>3. WorkOK(u)'
  BY <1>2 DEF WorkOK
<1> QED
  BY <1>1, <1>2, <1>3, DeliveryMoves DEF DeliverClaim, brand, events, money

LEMMA ChooseLinkKeeps ==
  ASSUME LinkingInv, NEW w \in Workers, ChooseLink(w)
  PROVE  LinkingInv'
<1>1. PICK claim \in Claims : claim = work[w].claim
  BY DEF ChooseLink, InStep, LinkingInv, WorkOK, Resting
<1>2. CASE Done(w)
  BY <1>2, RequestEnds DEF ChooseLink, brand, events, money
<1>3. ASSUME NEW l \in ActiveLinks(Owner[claim]),
             work' = [work EXCEPT ![w] = [step |-> "credit", claim |-> claim, link |-> l]]
      PROVE  LinkingInv'
  <2>1. PICK u : u = [step |-> "credit", claim |-> claim, link |-> l]
    OBVIOUS
  <2>2. u \in [step : {"credit"}, claim : {claim}, link : {l}]
    BY <2>1
  <2>3. l \in LinkIds /\ identity_links[l] # Nobody /\ identity_links[l].consumer = Owner[claim]
    BY DEF ActiveLinks
  <2>4. UNCHANGED <<attempts, codes, identity_links, link_tokens, next_link, linked, unlinked,
                    seen_orders, points_credits>>
    BY DEF ChooseLink, brand, events, money
  <2>5. WorkOK(u)'
    BY <2>2, <2>3, <2>4 DEF WorkOK
  <2> QED
    BY <1>3, <2>1, <2>2, <2>4, <2>5, DeliveryMoves
<1> QED
  BY <1>1, <1>2, <1>3 DEF ChooseLink

LEMMA CreditAtBrandKeeps ==
  ASSUME LinkingInv, NEW w \in Workers, CreditAtBrand(w)
  PROVE  LinkingInv'
<1>1. PICK t : t = work[w]
  OBVIOUS
<1>2. PICK u : u = [t EXCEPT !.step = "record"]
  OBVIOUS
<1>3. /\ t \in [step : {"credit"}, claim : Claims, link : LinkIds]
      /\ identity_links[t.link] # Nobody /\ identity_links[t.link].consumer = Owner[t.claim]
  BY <1>1 DEF CreditAtBrand, InStep, LinkingInv, WorkOK, Resting
<1>4. PICK claim \in Claims, n \in LinkIds : claim = t.claim /\ n = t.link
  BY <1>3
<1>5. u \in [step : {"record"}, claim : {claim}, link : {n}]
  BY <1>2, <1>3, <1>4
<1>6. /\ work' = [work EXCEPT ![w] = u]
      /\ CreditOrder(identity_links[n].programme, claim, identity_links[n].sub)
      /\ UNCHANGED <<attempts, codes, identity_links, link_tokens, next_link, linked, unlinked,
                     points_credits>>
  BY <1>1, <1>2, <1>4 DEF CreditAtBrand, ToStep, brand, events
<1>7. PICK o : o = [programme |-> identity_links[n].programme, claim |-> claim,
                    member |-> identity_links[n].sub, nth |-> Cardinality(seen_orders)]
  OBVIOUS
<1>8. o.programme = identity_links[n].programme /\ o.claim = claim /\ o.member = identity_links[n].sub
  BY <1>7
<1>9. \/ OrderSeen(identity_links[n].programme, claim) /\ seen_orders' = seen_orders
      \/ ~OrderSeen(identity_links[n].programme, claim) /\ seen_orders' = seen_orders \cup {o}
  BY <1>6, <1>7 DEF CreditOrder
<1>10. OrdersOK'
  <2>1. IsFiniteSet(seen_orders)'
    BY <1>9, FS_AddElement DEF LinkingInv, OrdersOK
  <2>2. \A p, q \in seen_orders' : p.programme = q.programme /\ p.claim = q.claim => p = q
    BY <1>8, <1>9 DEF LinkingInv, OrdersOK, OrderSeen
  <2>3. \A p \in seen_orders' : \E l \in LinkIds :
          /\ identity_links[l] # Nobody
          /\ identity_links[l].consumer = Owner[p.claim] /\ identity_links[l].sub = p.member
    BY <1>3, <1>4, <1>8, <1>9 DEF LinkingInv, OrdersOK
  <2> QED
    BY <1>6, <2>1, <2>2, <2>3 DEF OrdersOK
<1>11. OrderSeen(identity_links[n].programme, claim)'
  BY <1>6, <1>8, <1>9 DEF OrderSeen
<1>12. WorkOK(u)'
  BY <1>3, <1>4, <1>5, <1>6, <1>11 DEF WorkOK
<1>13. LinksMoveOn
  BY <1>6, <1>9 DEF LinksMoveOn, LinkingInv, LinkingTypeOK
<1>14. LinkingTypeOK'
  BY <1>6 DEF LinkingInv, LinkingTypeOK
<1>15. /\ \A a \in Attempts : ~HoldsAttempt(u, a)
       /\ \A l \in LinkIds : ~Makes(u, l) /\ ~Unmakes(u, l)
  BY <1>5 DEF HoldsAttempt, Makes, Making, Unmakes, Unmaking
<1>16. /\ \A l \in LinkIds : ~Makes(work[w], l) =>
            linked'[l] = linked[l] /\ (identity_links'[l] # Nobody => identity_links[l] # Nobody)
       /\ \A l \in LinkIds : ~Unmakes(work[w], l) =>
            /\ unlinked'[l] = unlinked[l]
            /\ identity_links[l] # Nobody => link_tokens'[l] \in {link_tokens[l], Nobody}
       /\ \A l \in LinkIds :
            LinkOK(l)' \/ /\ identity_links'[l] = identity_links[l]
                          /\ linked'[l] = linked[l] /\ unlinked'[l] = unlinked[l]
                          /\ identity_links[l] # Nobody => link_tokens'[l] \in {link_tokens[l], Nobody}
  BY <1>6
<1>17. OneLinkPerAttempt' \/ \A l \in LinkIds : identity_links'[l] # Nobody => identity_links[l] # Nobody
  BY <1>6
<1> QED
  BY <1>6, <1>10, <1>12, <1>13, <1>14, <1>15, <1>16, <1>17, AttemptsStay, LinkingMoves

LEMMA RecordCreditKeeps ==
  ASSUME LinkingInv, NEW w \in Workers, RecordCredit(w)
  PROVE  LinkingInv'
<1>1. PICK t : t = work[w]
  OBVIOUS
<1>2. /\ t \in [step : {"record"}, claim : Claims, link : LinkIds]
      /\ identity_links[t.link] # Nobody /\ identity_links[t.link].consumer = Owner[t.claim]
      /\ OrderSeen(identity_links[t.link].programme, t.claim)
  BY <1>1 DEF RecordCredit, InStep, LinkingInv, WorkOK, Resting
<1>3. PICK claim \in Claims, n \in LinkIds : claim = t.claim /\ n = t.link
  BY <1>2
<1>4. PICK row : row = [consumer |-> identity_links[n].consumer,
                        programme |-> identity_links[n].programme, member |-> identity_links[n].sub]
  OBVIOUS
<1>5. row.consumer = Owner[claim] /\ OrderSeen(row.programme, claim)
  BY <1>2, <1>3, <1>4
<1>6. /\ work' = [work EXCEPT ![w] = Resting]
      /\ points_credits' = points_credits \/ points_credits' = [points_credits EXCEPT ![claim] = row]
      /\ UNCHANGED <<attempts, codes, identity_links, link_tokens, next_link, linked, unlinked,
                     seen_orders>>
  BY <1>1, <1>3, <1>4 DEF RecordCredit, Done, brand, events
<1>7. LinkingTypeOK'
  BY <1>6 DEF LinkingInv, LinkingTypeOK
<1>8. \A c \in Claims : CreditOK(c)'
  BY <1>5, <1>6 DEF LinkingInv, LinkingTypeOK, CreditOK, OrderSeen
<1>9. LinksMoveOn
  BY <1>6 DEF LinksMoveOn, LinkingInv, LinkingTypeOK
<1>10. WorkOK(Resting)'
  BY DEF WorkOK
<1>11. /\ \A l \in LinkIds : ~Makes(work[w], l) =>
            linked'[l] = linked[l] /\ (identity_links'[l] # Nobody => identity_links[l] # Nobody)
       /\ \A l \in LinkIds : ~Unmakes(work[w], l) =>
            /\ unlinked'[l] = unlinked[l]
            /\ identity_links[l] # Nobody => link_tokens'[l] \in {link_tokens[l], Nobody}
       /\ \A l \in LinkIds :
            LinkOK(l)' \/ /\ identity_links'[l] = identity_links[l]
                          /\ linked'[l] = linked[l] /\ unlinked'[l] = unlinked[l]
                          /\ identity_links[l] # Nobody => link_tokens'[l] \in {link_tokens[l], Nobody}
  BY <1>6
<1>12. OneLinkPerAttempt' \/ \A l \in LinkIds : identity_links'[l] # Nobody => identity_links[l] # Nobody
  BY <1>6
<1> QED
  BY <1>6, <1>7, <1>8, <1>9, <1>10, <1>11, <1>12, RestingIsOK, AttemptsStay, LinkingMoves

\* What dies with the process is nothing that a link or an order rests on.
LEMMA CrashLinkingKeeps ==
  ASSUME LinkingInv, CrashLinking
  PROVE  LinkingInv'
<1>1. /\ work' = [w \in Workers |-> Resting]
      /\ UNCHANGED <<attempts, codes, identity_links, link_tokens, next_link, linked, unlinked,
                     seen_orders, points_credits>>
  BY DEF CrashLinking, brand, events, money
<1>2. \A w \in Workers : work'[w] = Resting
  BY <1>1
<1>3. LinkingTypeOK'
  BY <1>1 DEF LinkingInv, LinkingTypeOK
<1>4. LinksMoveOn
  BY <1>1 DEF LinksMoveOn, LinkingInv, LinkingTypeOK
<1>5. /\ \A w \in Workers : WorkOK(work[w])'
      /\ \A w, x \in Workers : w # x => Apart(work[w], work[x])'
  BY <1>2 DEF WorkOK, Apart, HoldsAttempt, Makes, Making, Unmakes, Unmaking, Resting
<1>6. ASSUME NEW l \in LinkIds
      PROVE  LinkOK(l)'
  BY <1>1, <1>2, <1>4, LinkStays, RestingIsOK DEF LinkingInv
<1>7. OneLinkPerAttempt' /\ OrdersOK' /\ \A claim \in Claims : CreditOK(claim)'
  BY <1>1 DEF LinkingInv, OneLinkPerAttempt, OrdersOK, CreditOK, OrderSeen
<1> QED
  BY <1>1, <1>3, <1>5, <1>6, <1>7, AttemptsStay DEF LinkingInv

LEMMA LinkingStutters == LinkingInv /\ UNCHANGED linkingVars => LinkingInv'
<1> SUFFICES ASSUME LinkingInv, UNCHANGED linkingVars PROVE LinkingInv'
  OBVIOUS
<1>1. UNCHANGED <<attempts, codes, identity_links, link_tokens, next_link, linked, unlinked, work,
                  seen_orders, points_credits>>
  BY DEF linkingVars
<1>2. LinksMoveOn /\ LinkingTypeOK'
  BY <1>1 DEF LinksMoveOn, LinkingInv, LinkingTypeOK
<1> QED
  BY <1>1, <1>2, AttemptsStay, LinkingOutside

LEMMA LinkingInvStep == LinkingInv /\ [LinkingNext]_linkingVars => LinkingInv'
<1> SUFFICES ASSUME LinkingInv, [LinkingNext]_linkingVars PROVE LinkingInv'
  OBVIOUS
<1>1. ASSUME NEW a \in Attempts, NEW c \in People, NEW programme \in Programmes,
             StartOAuth(a, c, programme)
      PROVE  LinkingInv'
  BY <1>1, NewAttemptKeeps DEF StartOAuth
<1>2. ASSUME NEW a \in Attempts, NEW c \in People, NEW m \in Members, StartHosted(a, c, m)
      PROVE  LinkingInv'
  BY <1>2, NewAttemptKeeps, LinkingAssumption DEF StartHosted
<1>3. ASSUME NEW a \in Attempts, NEW m \in Members, Consent(a, m)
      PROVE  LinkingInv'
  BY <1>3, ConsentKeeps
<1>4. ASSUME NEW a \in Attempts, AttemptExpires(a)
      PROVE  LinkingInv'
  BY <1>4, AttemptExpiresKeeps DEF AttemptExpires, brand, events, money
<1>5. ASSUME NEW a \in Attempts, CodeExpires(a)
      PROVE  LinkingInv'
  BY <1>5, CodeExpiresKeeps
<1>6. ASSUME NEW w \in Workers, NEW c \in People, NEW a \in Attempts, VerifyHosted(w, c, a)
      PROVE  LinkingInv'
  BY <1>6, VerifyHostedKeeps
<1>7. ASSUME NEW w \in Workers, NEW c \in People, NEW a \in Attempts, NEW code \in Attempts,
             Callback(w, c, a, code)
      PROVE  LinkingInv'
  BY <1>7, CallbackKeeps
<1>8. ASSUME NEW w \in Workers, NEW c \in People, NEW l \in LinkIds, Unlink(w, c, l)
      PROVE  LinkingInv'
  BY <1>8, UnlinkKeeps
<1>9. ASSUME NEW w \in Workers, NEW claim \in Claims, DeliverClaim(w, claim)
      PROVE  LinkingInv'
  BY <1>9, DeliverClaimKeeps
<1>10. ASSUME NEW w \in Workers, LinkingStep(w)
       PROVE  LinkingInv'
  <2>1. CASE NoSuchCode(w) \/ Fail(w)
    BY <2>1, RequestEnds DEF NoSuchCode, Fail, brand, events, money
  <2> QED
    BY <1>10, <2>1, ExchangeKeeps, SealTokensKeeps, PersistLinkKeeps, AppendLinkedKeeps,
       RevokeAtBrandKeeps, DropTokensKeeps, AppendUnlinkedKeeps, ChooseLinkKeeps,
       CreditAtBrandKeeps, RecordCreditKeeps DEF LinkingStep
<1>11. CASE CrashLinking
  BY <1>11, CrashLinkingKeeps
<1>12. CASE UNCHANGED linkingVars
  BY <1>12, LinkingStutters
<1> QED
  BY <1>1, <1>2, <1>3, <1>4, <1>5, <1>6, <1>7, <1>8, <1>9, <1>10, <1>11, <1>12 DEF LinkingNext

\* Whatever people, brands, requests and deliveries interleave, and wherever calls
\* fail or the process dies: a link says what was consented to under one attempt
\* (linking/link-service.ts, hosted/hosted-link-service.ts), and a brand credits a
\* conversion once, to a member its consumer had linked (loyalty/points-credit.ts).
THEOREM LinkingCorrect == LinkingSpec => []LinkedAsConsented
<1>1. LinkingInit => LinkingInv
  BY LinkingInvInit
<1>2. LinkingInv /\ [LinkingNext]_linkingVars => LinkingInv'
  BY LinkingInvStep
<1>3. LinkingInv => LinkedAsConsented
  BY LinkingInvConsents
<1> QED
  BY <1>1, <1>2, <1>3, PTL DEF LinkingSpec

-----------------------------------------------------------------------------
(***************************************************************************)
(* Who a shopper is.                                                       *)
(***************************************************************************)

Places == {"probe", "probed", "look", "answered"}
Resolutions ==
  [ctx : Contexts, at : [Slots -> Places], there : [Slots -> BOOLEAN],
   found : [Slots -> FoundMembers \cup {Unknown}], soft : {"unread", "none", "once", "again"},
   was : [Slots -> {"none", "active", "revoked"}], moved : SUBSET Slots]

IdentityTypeOK ==
  /\ rows \in Seq(KnownLinks)
  /\ wallet_schema \in BOOLEAN /\ available \in {"unknown", "there", "absent"}
  /\ soft_identities \in [Hashes -> {"none", "once", "again"}]
  /\ resolving \in [Readers -> Resolutions \cup {NotAsked}]

\* An answered look-up, of a reader that found the table, found the newest link
\* of its signal; nothing but a link or unlink of the signal changes which that
\* is; and gold is from a seeded row of the member.
FoundRight(q, s) ==
  /\ q.found[s] # Unknown /\ q.found[s].gold =>
       \E row \in SeededRows : row.gold /\ row.sub = q.found[s].sub
  /\ s \notin q.moved =>
       /\ q.was[s] = StatusOf(NewestLink(s, q.ctx[s]))
       /\ q.at[s] = "answered" /\ q.there[s] =>
            /\ q.was[s] = "revoked" => q.found[s] # Unknown /\ ~q.found[s].active
            /\ q.was[s] = "active" => q.found[s] # Unknown /\ q.found[s].active

ResolvedRight(q) ==
  q # NotAsked =>
    /\ q.soft = "unread" => q.ctx[4] # Unknown
    /\ \A s \in Slots : FoundRight(q, s)

IdentityInv == IdentityTypeOK /\ \A r \in Readers : ResolvedRight(resolving[r])

LEMMA IdentityInvInit == IdentityInit => IdentityInv
BY DEF IdentityInit, IdentityInv, IdentityTypeOK, ResolvedRight

\* The least-number principle, as a fact about sets.
LEMMA LeastNumber ==
  ASSUME NEW T, T \subseteq Nat, T # {}
  PROVE  \E m \in T : \A n \in T : m <= n
<1> DEFINE R == OpToRel(<, Nat)
<1>1. IsWellFoundedOn(R, Nat)
  BY NatLessThanWellFounded, Zenon
<1>2. \A x, y \in Nat : <<x, y>> \in R <=> x < y
  BY DEF OpToRel
<1> HIDE DEF R
<1>3. \E x \in T : \A y \in T : ~(<<y, x>> \in R)
  BY <1>1, WFMin
<1>4. \E m \in T : \A n \in T : ~(n < m)
  BY <1>2, <1>3
<1> QED
  BY <1>4

LinksOf(s, value) == {l \in DOMAIN rows : Column(rows[l], s) = value}

\* Of the links of a signal there is a newest.
LEMMA NewestIsOne ==
  ASSUME rows \in Seq(KnownLinks), NEW s, NEW value, value # Unknown,
         LinksOf(s, value) # {}
  PROVE  \E l \in LinksOf(s, value) :
           /\ \A k \in LinksOf(s, value) : k <= l
           /\ NewestLink(s, value) = rows[l]
<1> PICK own : own = LinksOf(s, value)
  OBVIOUS
<1>1. own \subseteq 1..Len(rows) /\ own # {}
  BY DEF LinksOf
<1> DEFINE T == {Len(rows) - l : l \in own}
<1>2. T \subseteq Nat /\ T # {}
  BY <1>1
<1>3. PICK m \in T : \A n \in T : m <= n
  BY <1>2, LeastNumber
<1>4. PICK l \in own : m = Len(rows) - l
  BY <1>3
<1>5. \A k \in own : Len(rows) - l <= Len(rows) - k
  BY <1>3, <1>4
<1>6. \A k \in own : k <= l
  BY <1>1, <1>4, <1>5
<1> DEFINE newest == CHOOSE j \in own : \A k \in own : k <= j
<1>7. newest \in own /\ \A k \in own : k <= newest
  BY <1>4, <1>6
<1>8. NewestLink(s, value) = rows[newest]
  BY DEF NewestLink, LinksOf
<1> QED
  BY <1>7, <1>8

LEMMA NoNewest ==
  ASSUME NEW s, NEW value, value = Unknown \/ LinksOf(s, value) = {}
  PROVE  NewestLink(s, value) = Unknown
BY DEF NewestLink, LinksOf

LEMMA NewestType ==
  ASSUME rows \in Seq(KnownLinks), NEW s, NEW value
  PROVE  /\ NewestLink(s, value) \in KnownLinks \cup {Unknown}
         /\ StatusOf(NewestLink(s, value)) \in {"none", "active", "revoked"}
<1>1. NewestLink(s, value) \in KnownLinks \cup {Unknown}
  BY NewestIsOne, NoNewest DEF LinksOf
<1> QED
  BY <1>1 DEF StatusOf

\* What a look-up finds.
LEMMA SeededRight ==
  ASSUME NEW s, NEW value
  PROVE  /\ seededBy(s, value) \in FoundMembers \cup {Unknown}
         /\ seededBy(s, value) # Unknown /\ seededBy(s, value).gold =>
              \E row \in SeededRows : row.gold /\ row.sub = seededBy(s, value).sub
<1> PICK own : own = {row \in SeededRows : SeededColumn(row, s) = value}
  OBVIOUS
<1>1. CASE own = {} \/ value = Unknown
  BY <1>1 DEF seededBy
<1>2. CASE own # {} /\ value # Unknown
  <2> DEFINE T == {row.ref : row \in own}
  <2>1. T \subseteq Nat /\ T # {}
    BY <1>2, SeededAssumption
  <2>2. PICK m \in T : \A n \in T : m <= n
    BY <2>1, LeastNumber
  <2>3. PICK least \in own : m = least.ref
    BY <2>2
  <2>4. \A other \in own : least.ref <= other.ref
    BY <2>2, <2>3
  <2> DEFINE first == CHOOSE one \in own : \A other \in own : one.ref <= other.ref
  <2>5. first \in own
    BY <2>3, <2>4
  <2>6. seededBy(s, value) = [sub |-> first.sub, gold |-> first.gold, active |-> first.active]
    BY <1>2 DEF seededBy
  <2> HIDE DEF first
  <2>7. first \in SeededRows
    BY <2>5
  <2> QED
    BY <2>6, <2>7, SeededAssumption DEF FoundMembers
<1> QED
  BY <1>1, <1>2

LEMMA MemberRight ==
  ASSUME rows \in Seq(KnownLinks), NEW s, NEW value, NEW there \in BOOLEAN
  PROVE  \E m \in FoundMembers \cup {Unknown} :
           /\ m = memberBy(s, value, there)
           /\ m # Unknown /\ m.gold => \E row \in SeededRows : row.gold /\ row.sub = m.sub
           /\ there /\ StatusOf(NewestLink(s, value)) = "revoked" => m # Unknown /\ ~m.active
           /\ there /\ StatusOf(NewestLink(s, value)) = "active" => m # Unknown /\ m.active
<1> PICK link : link = NewestLink(s, value)
  OBVIOUS
<1> PICK m : m = memberBy(s, value, there)
  OBVIOUS
<1>1. link \in KnownLinks \cup {Unknown}
  BY NewestType
<1>2. CASE there /\ link # Unknown
  <2>1. m = [sub |-> link.sub, gold |-> tierForLinkedMember(link.sub), active |-> link.active]
    BY <1>2 DEF memberBy, linkBy
  <2>2. link.sub \in Subs /\ link.active \in BOOLEAN
    BY <1>1, <1>2 DEF KnownLinks
  <2>3. /\ m \in FoundMembers /\ m.sub = link.sub /\ m.active = link.active
        /\ m.gold = tierForLinkedMember(link.sub)
    BY <2>1, <2>2 DEF FoundMembers, tierForLinkedMember
  <2>4. m # Unknown
    BY <2>3, UnknownAssumption
  <2> QED
    BY <1>2, <2>2, <2>3, <2>4 DEF StatusOf, tierForLinkedMember
<1>3. CASE ~there \/ link = Unknown
  <2>1. m = seededBy(s, value)
    BY <1>3 DEF memberBy, linkBy
  <2> QED
    BY <1>3, <2>1, SeededRight DEF StatusOf
<1> QED
  BY <1>2, <1>3

\* A step of one request leaves the links and the other requests.
LEMMA FoundStays ==
  ASSUME UNCHANGED rows, NEW q, NEW s, FoundRight(q, s)
  PROVE  FoundRight(q, s)'
BY DEF FoundRight, NewestLink

LEMMA OneMoves ==
  ASSUME IdentityInv, NEW r \in Readers, NEW q \in Resolutions \cup {NotAsked},
         ResolvedRight(q), UNCHANGED <<wallet_schema, rows, soft_identities>>,
         available' \in {"unknown", "there", "absent"},
         resolving' = [resolving EXCEPT ![r] = q]
  PROVE  IdentityInv'
<1>1. IdentityTypeOK'
  BY DEF IdentityInv, IdentityTypeOK
<1>2. ASSUME NEW x \in Readers PROVE ResolvedRight(resolving[x])'
  <2> PICK p : p = resolving'[x]
    OBVIOUS
  <2>1. ResolvedRight(p)
    BY DEF IdentityInv, IdentityTypeOK
  <2>2. ResolvedRight(p)'
    BY <2>1, FoundStays DEF ResolvedRight
  <2> QED
    BY <2>2 DEF ResolvedRight
<1> QED
  BY <1>1, <1>2 DEF IdentityInv

LEMMA BusyIs ==
  ASSUME IdentityInv, NEW r \in Readers, resolving[r] # NotAsked
  PROVE  resolving[r] \in Resolutions /\ ResolvedRight(resolving[r])
BY DEF IdentityInv, IdentityTypeOK

LEMMA AskedIsOne ==
  ASSUME NEW q \in Resolutions
  PROVE  q # NotAsked
<1>1. q.ctx \in Contexts /\ NotAsked.ctx = Unknown
  BY DEF Resolutions, NotAsked
<1> QED
  BY <1>1, UnknownAssumption

LEMMA BeginKeeps ==
  ASSUME IdentityInv, NEW r \in Readers, NEW ctx \in Contexts, BeginResolution(r, ctx)
  PROVE  IdentityInv'
<1> DEFINE q ==
      [ctx |-> ctx,
       at |-> [s \in Slots |-> IF ctx[s] = Unknown THEN "answered"
                              ELSE IF available = "unknown" THEN "probe" ELSE "look"],
       there |-> [s \in Slots |-> available = "there"],
       found |-> [s \in Slots |-> Unknown],
       soft |-> IF ctx[4] = Unknown THEN "none" ELSE "unread",
       was |-> [s \in Slots |-> StatusOf(NewestLink(s, ctx[s]))], moved |-> {}]
<1>1. rows \in Seq(KnownLinks)
  BY DEF IdentityInv, IdentityTypeOK
<1>2. \A s \in Slots : StatusOf(NewestLink(s, ctx[s])) \in {"none", "active", "revoked"}
  BY <1>1, NewestType
<1>3. q \in Resolutions /\ (q.soft = "unread" => q.ctx[4] # Unknown)
  BY <1>2 DEF Resolutions, Places
<1>4. ASSUME NEW s \in Slots PROVE FoundRight(q, s)
  <2>1. ctx[s] = Unknown => StatusOf(NewestLink(s, ctx[s])) = "none"
    BY NoNewest DEF StatusOf
  <2> QED
    BY <2>1 DEF FoundRight
<1>5. resolving' = [resolving EXCEPT ![r] = q]
  BY DEF BeginResolution
<1>6. available' = available /\ available \in {"unknown", "there", "absent"}
  BY DEF BeginResolution, IdentityInv, IdentityTypeOK
<1> HIDE DEF q
<1> QED
  BY <1>3, <1>4, <1>5, <1>6, OneMoves DEF ResolvedRight, BeginResolution

\* A look-up asks for the table, and goes on.
LEMMA ProbeKeeps ==
  ASSUME IdentityInv, NEW r \in Readers, NEW s \in Slots, Probe(r, s) \/ RememberProbe(r, s)
  PROVE  IdentityInv'
<1> PICK old : old = resolving[r]
  OBVIOUS
<1>1. old \in Resolutions /\ ResolvedRight(old) /\ old # NotAsked
  BY BusyIs DEF Probe, RememberProbe, LookUpIs
<1>2. PICK there \in BOOLEAN, place \in {"probed", "look"} :
        resolving' = [resolving EXCEPT ![r] =
                        [old EXCEPT !.there[s] = there, !.at[s] = place]]
  <2>1. wallet_schema \in BOOLEAN /\ resolving \in [Readers -> Resolutions \cup {NotAsked}]
    BY DEF IdentityInv, IdentityTypeOK
  <2>2. old.there[s] \in BOOLEAN /\ old.there \in [Slots -> BOOLEAN]
    BY <1>1 DEF Resolutions
  <2>3. CASE Probe(r, s)
    <3>1. resolving' = [resolving EXCEPT ![r].there[s] = wallet_schema, ![r].at[s] = "probed"]
      BY <2>3 DEF Probe
    <3>2. resolving' = [resolving EXCEPT ![r] =
                          [old EXCEPT !.there[s] = wallet_schema, !.at[s] = "probed"]]
      BY <1>1, <2>1, <3>1, Zenon
    <3> QED
      BY <2>1, <3>2
  <2>4. CASE RememberProbe(r, s)
    <3>1. [old EXCEPT !.at[s] = "look"] =
            [old EXCEPT !.there[s] = old.there[s], !.at[s] = "look"]
      BY <1>1, <2>2 DEF Resolutions
    <3> QED
      BY <2>2, <2>4, <3>1 DEF RememberProbe
  <2> QED
    BY <2>3, <2>4
<1> PICK q : q = [old EXCEPT !.there[s] = there, !.at[s] = place]
  OBVIOUS
<1>3. q \in Resolutions
  BY <1>1 DEF Resolutions, Places
<1>4. /\ q.ctx = old.ctx /\ q.soft = old.soft /\ q.found = old.found /\ q.was = old.was /\ q.moved = old.moved
      /\ q.at[s] # "answered"
      /\ \A x \in Slots \ {s} : q.at[x] = old.at[x] /\ q.there[x] = old.there[x]
  BY <1>1 DEF Resolutions
<1>5. ASSUME NEW x \in Slots PROVE FoundRight(q, x)
  BY <1>1, <1>4 DEF FoundRight, ResolvedRight
<1>6. available' \in {"unknown", "there", "absent"}
  BY DEF IdentityInv, IdentityTypeOK, Probe, RememberProbe
<1>7. ResolvedRight(q)
  BY <1>1, <1>4, <1>5 DEF ResolvedRight
<1> QED
  BY <1>2, <1>3, <1>6, <1>7, OneMoves DEF Probe, RememberProbe

LEMMA LookUpKeeps ==
  ASSUME IdentityInv, NEW r \in Readers, NEW s \in Slots, LookUpMember(r, s)
  PROVE  IdentityInv'
<1> PICK old : old = resolving[r]
  OBVIOUS
<1>1. old \in Resolutions /\ ResolvedRight(old) /\ old # NotAsked
  BY BusyIs DEF LookUpMember, LookUpIs
<1>2. rows \in Seq(KnownLinks) /\ resolving \in [Readers -> Resolutions \cup {NotAsked}]
  BY DEF IdentityInv, IdentityTypeOK
<1>3. old.there[s] \in BOOLEAN
  BY <1>1 DEF Resolutions
<1>4. PICK m \in FoundMembers \cup {Unknown} :
        /\ m = memberBy(s, old.ctx[s], old.there[s])
        /\ m # Unknown /\ m.gold => \E row \in SeededRows : row.gold /\ row.sub = m.sub
        /\ old.there[s] /\ StatusOf(NewestLink(s, old.ctx[s])) = "revoked" => m # Unknown /\ ~m.active
        /\ old.there[s] /\ StatusOf(NewestLink(s, old.ctx[s])) = "active" => m # Unknown /\ m.active
  BY <1>2, <1>3, MemberRight
<1> PICK q : q = [old EXCEPT !.at[s] = "answered", !.found[s] = m]
  OBVIOUS
<1>5. resolving' = [resolving EXCEPT ![r] = q]
  BY <1>2, <1>4 DEF LookUpMember
<1>6. q \in Resolutions
  BY <1>1 DEF Resolutions, Places
<1>7. /\ q.ctx = old.ctx /\ q.soft = old.soft /\ q.was = old.was /\ q.moved = old.moved /\ q.there = old.there
      /\ q.found[s] = m
      /\ \A x \in Slots \ {s} : q.at[x] = old.at[x] /\ q.found[x] = old.found[x]
  BY <1>1 DEF Resolutions
<1>8. ASSUME NEW x \in Slots PROVE FoundRight(q, x)
  <2>1. CASE x = s
    BY <1>1, <1>4, <1>7, <2>1, SMTT(30) DEF FoundRight, ResolvedRight
  <2>2. CASE x # s
    BY <1>1, <1>7, <2>2 DEF FoundRight, ResolvedRight
  <2> QED
    BY <2>1, <2>2
<1>9. available' \in {"unknown", "there", "absent"}
  BY DEF IdentityInv, IdentityTypeOK, LookUpMember
<1>10. ResolvedRight(q)
  BY <1>1, <1>7, <1>8 DEF ResolvedRight
<1> QED
  BY <1>5, <1>6, <1>9, <1>10, OneMoves DEF LookUpMember

LEMMA SoftKeeps ==
  ASSUME IdentityInv, NEW r \in Readers, softIdentity(r)
  PROVE  IdentityInv'
<1> PICK old : old = resolving[r]
  OBVIOUS
<1>1. old \in Resolutions /\ ResolvedRight(old) /\ old # NotAsked
  BY BusyIs DEF softIdentity
<1>2. CASE old.ctx[4] \in Hashes
  <2>1. soft_identities[old.ctx[4]] \in {"none", "once", "again"}
    BY <1>2 DEF IdentityInv, IdentityTypeOK
  <2> PICK q : q = [old EXCEPT !.soft = soft_identities[old.ctx[4]]]
    OBVIOUS
  <2>2. q \in Resolutions
    BY <1>1, <2>1 DEF Resolutions
  <2>3. /\ q.ctx = old.ctx /\ q.was = old.was /\ q.moved = old.moved /\ q.there = old.there
        /\ q.found = old.found /\ q.at = old.at
    BY <1>1 DEF Resolutions
  <2>4. ResolvedRight(q)
    BY <1>1, <1>2, <2>1, <2>2, <2>3 DEF FoundRight, ResolvedRight
  <2>5. resolving' = [resolving EXCEPT ![r] = q] /\ available' \in {"unknown", "there", "absent"}
    BY DEF IdentityInv, IdentityTypeOK, softIdentity
  <2> QED
    BY <2>2, <2>4, <2>5, OneMoves DEF softIdentity
<1>3. old.ctx[4] \in Hashes
  BY <1>1, ContextsAssumption DEF softIdentity, ResolvedRight, Resolutions
<1> QED
  BY <1>2, <1>3

\* The wallet makes and unmakes links, its tables come, and a process starts over.
LEMMA NewestStays ==
  ASSUME NEW s, NEW value, rows \in Seq(KnownLinks), rows' \in Seq(KnownLinks),
         LinksOf(s, value)' = LinksOf(s, value),
         \A l \in LinksOf(s, value) : rows'[l] = rows[l]
  PROVE  NewestLink(s, value)' = NewestLink(s, value)
<1> PICK own : own = LinksOf(s, value)
  OBVIOUS
<1>1. own = LinksOf(s, value)'
  OBVIOUS
<1>2. CASE value = Unknown \/ own = {}
  BY <1>1, <1>2 DEF NewestLink, LinksOf
<1>3. CASE value # Unknown /\ own # {}
  <2> DEFINE newest == CHOOSE j \in own : \A k \in own : k <= j
  <2>1. \E l \in own : \A k \in own : k <= l
    BY <1>3, NewestIsOne
  <2>2. newest \in own
    BY <2>1
  <2>3. NewestLink(s, value) = rows[newest]
    BY <1>3 DEF NewestLink, LinksOf
  <2>4. NewestLink(s, value)' = rows'[newest]
    BY <1>1, <1>3 DEF NewestLink, LinksOf
  <2> QED
    BY <2>2, <2>3, <2>4
<1> QED
  BY <1>2, <1>3

\* A request that names the link is disturbed; to the others nothing happened.
LEMMA DisturbKeeps ==
  ASSUME IdentityInv, NEW link, Disturb(link), rows' \in Seq(KnownLinks),
         UNCHANGED <<wallet_schema, available, soft_identities>>,
         \A s \in Slots : \A value :
           Column(link, s) # value =>
             /\ LinksOf(s, value)' = LinksOf(s, value)
             /\ \A l \in LinksOf(s, value) : rows'[l] = rows[l]
  PROVE  IdentityInv'
<1>1. /\ rows \in Seq(KnownLinks)
      /\ resolving \in [Readers -> Resolutions \cup {NotAsked}]
  BY DEF IdentityInv, IdentityTypeOK
<1>2. ASSUME NEW x \in Readers
      PROVE  resolving'[x] \in Resolutions \cup {NotAsked} /\ ResolvedRight(resolving[x])'
  <2> PICK old : old = resolving[x]
    OBVIOUS
  <2> PICK q : q = resolving'[x]
    OBVIOUS
  <2>1. CASE old = NotAsked
    BY <2>1 DEF Disturb, ResolvedRight
  <2>2. CASE old # NotAsked
    <3>1. old \in Resolutions /\ ResolvedRight(old)
      BY <2>2, BusyIs
    <3>2. q = [old EXCEPT !.moved =
                 @ \cup {s \in Slots : Column(link, s) = old.ctx[s]}]
      BY <2>2 DEF Disturb
    <3>3. /\ q \in Resolutions
          /\ q.ctx = old.ctx /\ q.soft = old.soft /\ q.was = old.was /\ q.there = old.there
          /\ q.found = old.found /\ q.at = old.at
          /\ q.moved = old.moved \cup {s \in Slots : Column(link, s) = old.ctx[s]}
      BY <3>1, <3>2 DEF Resolutions
    <3>4. ASSUME NEW s \in Slots PROVE FoundRight(q, s)'
      <4>1. FoundRight(old, s)
        BY <2>2, <3>1 DEF ResolvedRight
      <4>2. CASE s \in q.moved
        BY <3>3, <4>1, <4>2 DEF FoundRight
      <4>3. CASE s \notin q.moved
        <5> PICK value : value = old.ctx[s]
          OBVIOUS
        <5>1. Column(link, s) # value
          BY <3>3, <4>3
        <5>2. NewestLink(s, value)' = NewestLink(s, value)
          BY <1>1, <5>1, NewestStays
        <5>3. StatusOf(NewestLink(s, value))' = StatusOf(NewestLink(s, value))
          BY <5>2 DEF StatusOf
        <5> QED
          BY <3>3, <4>1, <4>3, <5>3 DEF FoundRight
      <4> QED
        BY <4>2, <4>3
    <3>5. q.soft = "unread" => q.ctx[4] # Unknown
      BY <2>2, <3>1, <3>3 DEF ResolvedRight
    <3> QED
      BY <3>3, <3>4, <3>5 DEF ResolvedRight, FoundRight
  <2> QED
    BY <2>1, <2>2
<1>3. IdentityTypeOK'
  <2>1. resolving' \in [Readers -> Resolutions \cup {NotAsked}]
    BY <1>2 DEF Disturb
  <2> QED
    BY <2>1 DEF IdentityInv, IdentityTypeOK
<1> QED
  BY <1>2, <1>3 DEF IdentityInv

LEMMA InsertLinkKeeps ==
  ASSUME IdentityInv, NEW c \in Persons, NEW m \in Subs, InsertLink(c, m)
  PROVE  IdentityInv'
<1> DEFINE link == [consumer |-> c, sub |-> m, active |-> TRUE]
<1>1. rows \in Seq(KnownLinks) /\ link \in KnownLinks
  BY DEF IdentityInv, IdentityTypeOK, KnownLinks
<1> HIDE DEF link
<1>2. rows' = Append(rows, link)
  BY DEF InsertLink, link
<1>3. /\ rows' \in Seq(KnownLinks) /\ rows'[Len(rows')] = link
      /\ DOMAIN rows' = DOMAIN rows \cup {Len(rows) + 1} /\ rows'[Len(rows) + 1] = link
      /\ \A l \in DOMAIN rows : rows'[l] = rows[l]
  BY <1>1, <1>2
<1>4. \A s \in Slots : \A value :
        Column(link, s) # value =>
          /\ LinksOf(s, value)' = LinksOf(s, value)
          /\ \A l \in LinksOf(s, value) : rows'[l] = rows[l]
  BY <1>3 DEF LinksOf, Column
<1>5. Disturb(link)
  BY <1>3 DEF InsertLink, Disturb
<1> QED
  BY <1>3, <1>4, <1>5, DisturbKeeps DEF InsertLink

LEMMA RevokeLinkKeeps ==
  ASSUME IdentityInv, NEW n \in DOMAIN rows, RevokeLink(n)
  PROVE  IdentityInv'
<1> PICK link : link = rows[n]
  OBVIOUS
<1>1. rows \in Seq(KnownLinks) /\ link \in KnownLinks
  BY DEF IdentityInv, IdentityTypeOK
<1>2. rows' = [rows EXCEPT ![n] = [link EXCEPT !.active = FALSE]]
  BY <1>1 DEF RevokeLink
<1> PICK row : row = [link EXCEPT !.active = FALSE]
  OBVIOUS
<1>3. row \in KnownLinks /\ row.consumer = link.consumer /\ row.sub = link.sub
  BY <1>1 DEF KnownLinks
<1>4. /\ rows' \in Seq(KnownLinks) /\ DOMAIN rows' = DOMAIN rows /\ rows'[n] = row
      /\ \A l \in DOMAIN rows : l # n => rows'[l] = rows[l]
  BY <1>1, <1>2, <1>3
<1>5. \A s \in Slots : \A value :
        Column(link, s) # value =>
          /\ LinksOf(s, value)' = LinksOf(s, value)
          /\ \A l \in LinksOf(s, value) : rows'[l] = rows[l]
  BY <1>3, <1>4, ZenonT(30) DEF LinksOf, Column
<1> QED
  BY <1>4, <1>5, DisturbKeeps, ZenonT(30) DEF RevokeLink

LEMMA IdentityInvStep == IdentityInv /\ [IdentityNext]_identityVars => IdentityInv'
<1> SUFFICES ASSUME IdentityInv, [IdentityNext]_identityVars PROVE IdentityInv'
  OBVIOUS
<1>1. CASE UNCHANGED <<rows, resolving>> /\ IdentityTypeOK'
  <2>1. ASSUME NEW r \in Readers PROVE ResolvedRight(resolving[r])'
    BY <1>1 DEF IdentityInv, ResolvedRight, FoundRight, NewestLink
  <2> QED
    BY <1>1, <2>1 DEF IdentityInv
<1>2. CASE MigrateWallet \/ UNCHANGED identityVars
           \/ \E h \in Hashes : soft_identities[h] # "again" /\ touchSoftIdentity(h)
  <2>1. UNCHANGED <<rows, resolving>> /\ IdentityTypeOK'
    BY <1>2 DEF IdentityInv, IdentityTypeOK, MigrateWallet, touchSoftIdentity, identityVars
  <2> QED
    BY <1>1, <2>1
<1>3. CASE RestartCore
  BY <1>3 DEF RestartCore, IdentityInv, IdentityTypeOK, ResolvedRight
<1>4. ASSUME NEW r \in Readers, AnswerResolution(r) PROVE IdentityInv'
  <2>1. ResolvedRight(NotAsked)
    BY DEF ResolvedRight
  <2>2. available' \in {"unknown", "there", "absent"}
    BY <1>4 DEF IdentityInv, IdentityTypeOK, AnswerResolution
  <2> QED
    BY <1>4, <2>1, <2>2, OneMoves DEF AnswerResolution
<1> QED
  BY <1>2, <1>3, <1>4, InsertLinkKeeps, RevokeLinkKeeps, BeginKeeps, ProbeKeeps, LookUpKeeps,
     SoftKeeps DEF IdentityNext

\* What an answered request says of its consumer.
LEMMA AnswerRight == IdentityInv => LinksAreAuthoritative
<1> SUFFICES ASSUME IdentityInv, NEW r \in Readers, Resolved(r),
                    \A s \in Slots : resolving[r].ctx[s] # Unknown => resolving[r].there[s]
             PROVE  LET answer == Answered(r)
                        steady(status) ==
                          {s \in Slots \ resolving[r].moved : resolving[r].was[s] = status}
                    IN  /\ answer.tier = "T1" => answer.by \notin steady("revoked")
                        /\ steady("active") # {} =>
                             answer.tier = "T1" /\ \A s \in steady("active") : answer.by <= s
                        /\ answer.segment[1] = "gold" =>
                             \E row \in SeededRows :
                               row.gold /\ row.sub = resolving[r].found[answer.by].sub
  BY DEF LinksAreAuthoritative
<1> PICK q : q = resolving[r]
  OBVIOUS
<1>1. q # NotAsked /\ \A s \in Slots : q.at[s] = "answered"
  BY DEF Resolved, LookUpIs, Slots
<1>2. q \in Resolutions /\ rows \in Seq(KnownLinks) /\ \A s \in Slots : FoundRight(q, s)
  BY <1>1, BusyIs DEF ResolvedRight, IdentityInv, IdentityTypeOK
<1> DEFINE active == {s \in Slots : q.found[s] # Unknown /\ q.found[s].active}
           first  == CHOOSE s \in active : \A t \in active : s <= t
<1>3. active # {} => first \in active /\ \A t \in active : first <= t
  <2>1. active \subseteq {1, 2, 3}
    BY DEF Slots
  <2>2. active # {} => \E s \in active : \A t \in active : s <= t
    BY <2>1
  <2> HIDE DEF active
  <2> QED
    BY <2>2
<1>4. ASSUME NEW s \in Slots \ q.moved
      PROVE  /\ q.was[s] = "revoked" => s \notin active
             /\ q.was[s] = "active" => s \in active
  <2>1. CASE q.ctx[s] = Unknown
    <3>1. q.was[s] = "none"
      BY <1>2, <2>1, NoNewest DEF FoundRight, StatusOf
    <3> QED
      BY <3>1
  <2>2. CASE q.ctx[s] # Unknown
    BY <1>1, <1>2, <2>2 DEF FoundRight
  <2> QED
    BY <2>1, <2>2
<1>5. /\ active # {} => /\ Answered(r).tier = "T1" /\ Answered(r).by = first
                        /\ Answered(r).segment[1] = "gold" => q.found[first].gold
      /\ active = {} => Answered(r).tier # "T1" /\ Answered(r).segment[1] # "gold"
  BY DEF Answered, resolve, Verdict, segmentFor
<1>6. active \subseteq Slots
  OBVIOUS
<1>7. active # {} /\ q.found[first].gold =>
        \E row \in SeededRows : row.gold /\ row.sub = q.found[first].sub
  BY <1>2, <1>3 DEF FoundRight
<1> HIDE DEF active, first
<1> QED
  BY <1>3, <1>4, <1>5, <1>7

\* For any number of people, members, links, requests in flight and restarts of
\* the core: an answer is true of the links as they stood all along (store.ts,
\* "a revoked link downgrades immediately", link-reader.ts).
THEOREM IdentityCorrect ==
  IdentityInit /\ [][IdentityNext]_identityVars => []LinksAreAuthoritative
<1>1. IdentityInit => IdentityInv
  BY IdentityInvInit
<1>2. IdentityInv /\ [IdentityNext]_identityVars => IdentityInv'
  BY IdentityInvStep
<1>3. IdentityInv => LinksAreAuthoritative
  BY AnswerRight
<1> QED
  BY <1>1, <1>2, <1>3, PTL

-----------------------------------------------------------------------------
(***************************************************************************)
(* Sign-in: the windows of a limiter, and the mails it lets through.       *)
(***************************************************************************)

IsLimiter(limiter) == limiter \in [window : Nat \ {0}, limit : Nat \ {0}, maxKeys : Nat]

WindowsOK(limiter, w, now) ==
  /\ w \in [DOMAIN w -> [windowStart : 0..now, count : Nat \ {0}]]
  /\ IsFiniteSet(DOMAIN w) /\ Cardinality(DOMAIN w) <= limiter.maxKeys

\* A window goes on counting, or a new one is opened; the others stay or go.
CountedOn(limiter, w, key, now, v) ==
  /\ key \in DOMAIN v /\ DOMAIN v \subseteq DOMAIN w \cup {key}
  /\ \A k \in DOMAIN v : k # key => v[k] = w[k]
  /\ IF Opens(limiter, w, key, now) THEN v[key] = [windowStart |-> now, count |-> 1]
     ELSE /\ v[key].windowStart = w[key].windowStart
          /\ v[key].count = w[key].count + 1

\* Whatever is evicted, there is room for one key more.
LEMMA EvictionsMakeRoom ==
  ASSUME NEW limiter, IsLimiter(limiter), NEW now \in Nat, NEW w, WindowsOK(limiter, w, now),
         NEW v \in Evictions(limiter, w, now)
  PROVE  /\ DOMAIN v \subseteq DOMAIN w /\ \A k \in DOMAIN v : v[k] = w[k]
         /\ v = [k \in DOMAIN v |-> v[k]]
         /\ IsFiniteSet(DOMAIN v) /\ Cardinality(DOMAIN v) + 1 <= limiter.maxKeys
<1> DEFINE live == {k \in DOMAIN w : ~Expired(limiter, w, k, now)}
           oldest == {k \in live : \A j \in live : w[k].windowStart <= w[j].windowStart}
<1>1. v \in IF Cardinality(live) < limiter.maxKeys THEN {Keep(w, live)}
            ELSE {Keep(w, live \ {k}) : k \in oldest}
  BY DEF Evictions
<1>2. oldest \subseteq live /\ live \subseteq DOMAIN w
  OBVIOUS
<1>3. /\ IsFiniteSet(live) /\ Cardinality(live) <= Cardinality(DOMAIN w)
      /\ Cardinality(live) \in Nat /\ Cardinality(DOMAIN w) \in Nat
  BY <1>2, FS_Subset, FS_CardinalityType DEF WindowsOK
<1>4. limiter.maxKeys \in Nat /\ Cardinality(DOMAIN w) <= limiter.maxKeys
  BY DEF IsLimiter, WindowsOK
<1> HIDE DEF live, oldest
<1>5. CASE Cardinality(live) < limiter.maxKeys
  <2>1. v = Keep(w, live)
    BY <1>1, <1>5
  <2>2. DOMAIN v = live /\ \A k \in live : v[k] = w[k]
    BY <2>1 DEF Keep
  <2>3. v = [k \in DOMAIN v |-> v[k]]
    BY <2>1 DEF Keep
  <2> QED
    BY <1>2, <1>3, <1>4, <1>5, <2>2, <2>3
<1>6. CASE ~(Cardinality(live) < limiter.maxKeys)
  <2>1. PICK k \in oldest : v = Keep(w, live \ {k})
    BY <1>1, <1>6
  <2>2. DOMAIN v = live \ {k} /\ \A j \in live \ {k} : v[j] = w[j]
    BY <2>1 DEF Keep
  <2>3. v = [j \in DOMAIN v |-> v[j]]
    BY <2>1 DEF Keep
  <2>4. k \in live
    BY <1>2, <2>1
  <2>5. IsFiniteSet(live \ {k}) /\ Cardinality(live \ {k}) = Cardinality(live) - 1
    BY <1>3, <2>4, FS_RemoveElement
  <2> QED
    BY <1>2, <1>3, <1>4, <2>2, <2>3, <2>5
<1> QED
  BY <1>5, <1>6

LEMMA CountedRight ==
  ASSUME NEW limiter, IsLimiter(limiter), NEW now \in Nat, NEW w, WindowsOK(limiter, w, now),
         NEW key, NEW v \in Counted(limiter, w, key, now)
  PROVE  WindowsOK(limiter, v, now) /\ CountedOn(limiter, w, key, now, v)
<1>1. limiter.maxKeys \in Nat /\ Cardinality(DOMAIN w) \in Nat
  BY FS_CardinalityType DEF IsLimiter, WindowsOK
<1>2. CASE ~Opens(limiter, w, key, now)
  <2>1. v = [w EXCEPT ![key].count = @ + 1] /\ key \in DOMAIN w
    BY <1>2 DEF Counted, Opens
  <2>2. DOMAIN v = DOMAIN w /\ \A k \in DOMAIN v : k # key => v[k] = w[k]
    BY <2>1
  <2>3. w[key] \in [windowStart : 0..now, count : Nat \ {0}]
    BY <2>1 DEF WindowsOK
  <2>4. v[key] = [w[key] EXCEPT !.count = @ + 1]
    BY <2>1
  <2>5. /\ v[key].windowStart = w[key].windowStart /\ v[key].count = w[key].count + 1
        /\ v[key] \in [windowStart : 0..now, count : Nat \ {0}]
    BY <2>3, <2>4
  <2>6. v = [k \in DOMAIN v |-> v[k]]
    BY <2>1
  <2>7. v \in [DOMAIN v -> [windowStart : 0..now, count : Nat \ {0}]]
    BY <2>2, <2>5, <2>6 DEF WindowsOK
  <2> QED
    BY <1>2, <2>1, <2>2, <2>5, <2>7 DEF WindowsOK, CountedOn
<1>3. CASE Opens(limiter, w, key, now)
  <2>1. PICK u : /\ v = [k \in DOMAIN u \cup {key} |->
                           IF k = key THEN [windowStart |-> now, count |-> 1] ELSE u[k]]
                 /\ IF key \notin DOMAIN w /\ Cardinality(DOMAIN w) >= limiter.maxKeys
                    THEN u \in Evictions(limiter, w, now) ELSE u = w
    BY <1>3 DEF Counted
  <2>2. /\ DOMAIN u \subseteq DOMAIN w /\ \A k \in DOMAIN u : u[k] = w[k]
        /\ IsFiniteSet(DOMAIN u) /\ Cardinality(DOMAIN u) \in Nat
        /\ \/ Cardinality(DOMAIN u) + 1 <= limiter.maxKeys
           \/ key \in DOMAIN u /\ Cardinality(DOMAIN u) <= limiter.maxKeys
    <3>1. CASE key \notin DOMAIN w /\ Cardinality(DOMAIN w) >= limiter.maxKeys
      BY <2>1, <3>1, EvictionsMakeRoom, FS_CardinalityType
    <3>2. CASE ~(key \notin DOMAIN w /\ Cardinality(DOMAIN w) >= limiter.maxKeys)
      BY <1>1, <2>1, <3>2 DEF WindowsOK
    <3> QED
      BY <3>1, <3>2
  <2>3. DOMAIN v = DOMAIN u \cup {key} /\ v = [k \in DOMAIN v |-> v[k]]
    BY <2>1
  <2>4. IsFiniteSet(DOMAIN v) /\ Cardinality(DOMAIN v) <= limiter.maxKeys
    <3>1. CASE key \in DOMAIN u
      <4>1. DOMAIN v = DOMAIN u
        BY <2>3, <3>1
      <4>2. Cardinality(DOMAIN u) <= limiter.maxKeys
        BY <1>1, <2>2
      <4> QED
        BY <2>2, <4>1, <4>2
    <3>2. CASE key \notin DOMAIN u
      <4> PICK d : d = DOMAIN u
        OBVIOUS
      <4>1. IsFiniteSet(d \cup {key}) /\ Cardinality(d \cup {key}) = Cardinality(d) + 1
        BY <2>2, <3>2, FS_AddElement
      <4>2. DOMAIN v = d \cup {key} /\ Cardinality(d) + 1 <= limiter.maxKeys
        BY <2>2, <2>3, <3>2
      <4> QED
        BY <4>1, <4>2
    <3> QED
      BY <3>1, <3>2
  <2>5. v[key] = [windowStart |-> now, count |-> 1] /\ \A k \in DOMAIN v : k # key => v[k] = w[k]
    BY <2>1, <2>2
  <2>6. \A k \in DOMAIN v : v[k] \in [windowStart : 0..now, count : Nat \ {0}]
    BY <2>2, <2>3, <2>5 DEF WindowsOK
  <2> QED
    BY <1>3, <2>2, <2>3, <2>4, <2>5, <2>6 DEF WindowsOK, CountedOn
<1> QED
  BY <1>2, <1>3

\* The mails to an address since a time.
MailsSince(e, from) == {m \in mails[e] : m[2] >= from}

\* Who was mailed this instant has a window that goes on, and a window has counted
\* every mail since it was opened.
WindowKnows(e, w) ==
  /\ \A m \in mails[e] : m[2] = clock => e \in DOMAIN w /\ ~Expired(PerEmail, w, e, clock)
  /\ e \in DOMAIN w =>
       /\ Cardinality(MailsSince(e, w[e].windowStart)) <= w[e].count
       /\ Cardinality(MailsSince(e, w[e].windowStart)) <= PerEmail.limit

SignInInv ==
  /\ clock \in Nat
  /\ windows \in [ip : {windows.ip}, email : {windows.email}]
  /\ WindowsOK(PerIp, windows.ip, clock)
  /\ WindowsOK(PerEmail, windows.email, clock) /\ DOMAIN windows.email \subseteq Emails
  /\ mails = [e \in Emails |-> mails[e]]
  /\ \A e \in Emails : IsFiniteSet(mails[e]) /\ \A m \in mails[e] : m[2] \in 0..clock
  /\ ~evicted => \A e \in Emails : WindowKnows(e, windows.email)

LEMMA LimitersAreLimiters == IsLimiter(PerIp) /\ IsLimiter(PerEmail)
BY LimitersAssumption DEF IsLimiter

LEMMA NoWindowsOK ==
  ASSUME NEW limiter, IsLimiter(limiter), NEW now \in Nat
  PROVE  WindowsOK(limiter, NoWindows, now) /\ DOMAIN NoWindows = {}
BY FS_EmptySet DEF WindowsOK, NoWindows, IsLimiter

LEMMA SignInInvInit == SignInInit => SignInInv
<1> SUFFICES ASSUME SignInInit PROVE SignInInv
  OBVIOUS
<1>1. clock \in Nat /\ windows.ip = NoWindows /\ windows.email = NoWindows
  BY DEF SignInInit
<1>2. \A e \in Emails : mails[e] = {} /\ IsFiniteSet(mails[e])
  BY FS_EmptySet DEF SignInInit
<1>3. \A e \in Emails : WindowKnows(e, windows.email)
  BY <1>1, <1>2, NoWindowsOK, LimitersAreLimiters DEF WindowKnows
<1> QED
  BY <1>1, <1>2, <1>3, NoWindowsOK, LimitersAreLimiters DEF SignInInv, SignInInit

\* Time passes: windows and mails grow older.
LEMMA TimeKeeps ==
  ASSUME SignInInv, clock' = clock + 1, UNCHANGED <<windows, evicted, mails>>
  PROVE  SignInInv'
<1>1. \A limiter, w : WindowsOK(limiter, w, clock) => WindowsOK(limiter, w, clock)'
  <2> SUFFICES ASSUME NEW limiter, NEW w, WindowsOK(limiter, w, clock)
               PROVE  WindowsOK(limiter, w, clock)'
    OBVIOUS
  <2>1. 0..clock \subseteq 0..clock'
    BY DEF SignInInv
  <2> QED
    BY <2>1 DEF WindowsOK
<1>2. ASSUME ~evicted, NEW e \in Emails PROVE WindowKnows(e, windows.email)'
  <2>1. \A m \in mails[e] : m[2] # clock'
    BY DEF SignInInv
  <2>2. WindowKnows(e, windows.email)
    BY <1>2 DEF SignInInv
  <2> QED
    BY <2>1, <2>2 DEF WindowKnows, MailsSince
<1>3. /\ WindowsOK(PerIp, windows.ip, clock)'
      /\ WindowsOK(PerEmail, windows.email, clock)'
  BY <1>1 DEF SignInInv, WindowsOK
<1>4. clock' \in Nat /\ \A e \in Emails : \A m \in mails[e] : m[2] \in 0..clock'
  BY DEF SignInInv
<1> QED
  BY <1>2, <1>3, <1>4 DEF SignInInv

\* A mail goes out under a window that has room for it, or opens one.
LEMMA MailIsCounted ==
  ASSUME SignInInv, NEW email \in Emails, NEW v, NEW sent \in BOOLEAN, NEW link,
         WindowsOK(PerEmail, v, clock), CountedOn(PerEmail, windows.email, email, clock, v),
         ~evicted,
         \A e \in DOMAIN windows.email \ DOMAIN v : Expired(PerEmail, windows.email, e, clock),
         sent => Allowed(PerEmail, windows.email, email, clock),
         mails' = IF sent THEN [mails EXCEPT ![email] = @ \cup {<<link, clock>>}] ELSE mails,
         clock' = clock
  PROVE  \A e \in Emails : WindowKnows(e, v)'
<1> PICK w : w = windows.email
  OBVIOUS
<1>1. /\ w \in [DOMAIN w -> [windowStart : 0..clock, count : Nat \ {0}]]
      /\ v \in [DOMAIN v -> [windowStart : 0..clock, count : Nat \ {0}]]
      /\ \A e \in Emails : WindowKnows(e, w)
      /\ mails = [e \in Emails |-> mails[e]] /\ clock \in Nat
      /\ \A e \in Emails : IsFiniteSet(mails[e]) /\ \A m \in mails[e] : m[2] \in 0..clock
  BY DEF SignInInv, WindowsOK
<1>2. PerEmail.window \in Nat \ {0} /\ PerEmail.limit \in Nat \ {0}
  BY LimitersAssumption
<1>3. ASSUME NEW e \in Emails, e # email PROVE WindowKnows(e, v)'
  <2>1. mails'[e] = mails[e]
    BY <1>1, <1>3
  <2>2. e \in DOMAIN v => e \in DOMAIN w /\ v[e] = w[e]
    BY <1>3 DEF CountedOn
  <2>3. ASSUME NEW m \in mails[e], m[2] = clock
        PROVE  e \in DOMAIN v /\ ~Expired(PerEmail, v, e, clock)
    <3>1. e \in DOMAIN w /\ ~Expired(PerEmail, w, e, clock)
      BY <1>1, <2>3 DEF WindowKnows
    <3>2. e \in DOMAIN v
      BY <3>1
    <3> QED
      BY <2>2, <3>1, <3>2 DEF Expired
  <2> QED
    BY <1>1, <2>1, <2>2, <2>3 DEF WindowKnows, MailsSince, Expired
<1>4. WindowKnows(email, v)'
  <2> PICK start : start = v[email].windowStart
    OBVIOUS
  <2> PICK before : before = {m \in mails[email] : m[2] >= start}
    OBVIOUS
  <2> PICK after : after = {m \in mails'[email] : m[2] >= start}
    OBVIOUS
  <2>1. email \in DOMAIN v /\ start \in 0..clock /\ v[email].count \in Nat
    BY <1>1 DEF CountedOn
  <2>2. ~Expired(PerEmail, v, email, clock)
    <3>1. CASE Opens(PerEmail, w, email, clock)
      BY <1>1, <1>2, <3>1 DEF CountedOn, Expired
    <3>2. CASE ~Opens(PerEmail, w, email, clock)
      BY <3>2 DEF CountedOn, Expired, Opens
    <3> QED
      BY <3>1, <3>2
  <2>3. after \subseteq before \cup {<<link, clock>>} /\ (~sent => after = before)
    BY <1>1
  <2>4. IsFiniteSet(before) /\ Cardinality(before) \in Nat
    BY <1>1, FS_Subset, FS_CardinalityType
  <2> PICK more : more = before \cup {<<link, clock>>}
    OBVIOUS
  <2>5. /\ IsFiniteSet(more) /\ Cardinality(more) \in Nat
        /\ Cardinality(more) <= Cardinality(before) + 1
    <3>1. IsFiniteSet(more) /\ \/ Cardinality(more) = Cardinality(before)
                               \/ Cardinality(more) = Cardinality(before) + 1
      BY <2>4, FS_AddElement
    <3> QED
      BY <2>4, <3>1
  <2>6. /\ IsFiniteSet(after) /\ Cardinality(after) \in Nat
        /\ Cardinality(after) <= Cardinality(before) + 1
        /\ ~sent => Cardinality(after) = Cardinality(before)
    <3>1. IsFiniteSet(after) /\ Cardinality(after) <= Cardinality(more)
      BY <2>3, <2>5, FS_Subset
    <3>2. Cardinality(after) \in Nat
      BY <3>1, FS_CardinalityType
    <3>3. Cardinality(after) <= Cardinality(before) + 1
      BY <2>4, <2>5, <3>1, <3>2
    <3> QED
      BY <2>3, <3>1, <3>2, <3>3
  <2>7. Cardinality(after) <= v[email].count /\ Cardinality(after) <= PerEmail.limit
    <3>1. CASE Opens(PerEmail, w, email, clock)
      <4>1. start = clock /\ v[email].count = 1
        BY <3>1 DEF CountedOn
      <4>2. \A m \in mails[email] : m[2] # clock
        BY <1>1, <3>1 DEF WindowKnows, Opens
      <4>3. \A m \in mails[email] : m[2] \in 0..clock
        BY <1>1
      <4>4. \A m \in mails[email] : ~(m[2] >= start)
        BY <1>1, <4>1, <4>2, <4>3, SMTT(30)
      <4>5. before = {}
        BY <4>4
      <4>6. Cardinality(before) = 0
        BY <4>5, FS_EmptySet
      <4> QED
        BY <1>2, <2>6, <4>1, <4>6
    <3>2. CASE ~Opens(PerEmail, w, email, clock)
      <4>1. /\ email \in DOMAIN w /\ start = w[email].windowStart
            /\ v[email].count = w[email].count + 1
        BY <3>2 DEF CountedOn, Opens
      <4>2. Cardinality(before) <= w[email].count /\ Cardinality(before) <= PerEmail.limit
        BY <1>1, <4>1 DEF WindowKnows, MailsSince
      <4>3. w[email].count \in Nat
        BY <1>1, <4>1
      <4>4. sent => w[email].count + 1 <= PerEmail.limit
        BY <3>2 DEF Allowed
      <4> QED
        BY <1>2, <2>4, <2>6, <4>1, <4>2, <4>3, <4>4
    <3> QED
      BY <3>1, <3>2
  <2> QED
    BY <2>1, <2>2, <2>7 DEF WindowKnows, MailsSince, Expired
<1> QED
  BY <1>3, <1>4

LEMMA RequestLinkKeeps ==
  ASSUME SignInInv, NEW ip \in Ips, NEW email \in Emails, NEW link \in Links,
         RequestLink(ip, email, link)
  PROVE  SignInInv'
<1>1. PICK byIp \in Counted(PerIp, windows.ip, ip, clock),
           byEmail \in Counted(PerEmail, windows.email, email, clock) :
        /\ windows' = [windows EXCEPT !.ip = byIp, !.email = byEmail]
        /\ evicted' = (evicted \/ \E e \in DOMAIN windows.email \ DOMAIN byEmail :
                                    ~Expired(PerEmail, windows.email, e, clock))
  BY DEF RequestLink
<1>2. /\ clock \in Nat /\ clock' = clock
      /\ WindowsOK(PerIp, windows.ip, clock) /\ WindowsOK(PerEmail, windows.email, clock)
      /\ windows \in [ip : {windows.ip}, email : {windows.email}]
  BY DEF SignInInv, RequestLink
<1>3. /\ WindowsOK(PerIp, byIp, clock)
      /\ WindowsOK(PerEmail, byEmail, clock)
      /\ CountedOn(PerEmail, windows.email, email, clock, byEmail)
  BY <1>1, <1>2, LimitersAreLimiters, CountedRight
<1>4. /\ windows' = [ip |-> byIp, email |-> byEmail]
      /\ windows'.ip = byIp /\ windows'.email = byEmail
  BY <1>1, <1>2
<1>5. PICK sent \in BOOLEAN :
        /\ mails' = IF sent THEN [mails EXCEPT ![email] = @ \cup {<<link, clock>>}] ELSE mails
        /\ sent => Allowed(PerEmail, windows.email, email, clock)
  <2>1. CASE allowMagicLink(ip, email)
    <3>1. SendLink(email, link)
      BY <2>1 DEF RequestLink
    <3> QED
      BY <2>1, <3>1 DEF SendLink, allowMagicLink
  <2>2. CASE ~allowMagicLink(ip, email)
    BY <2>2 DEF RequestLink
  <2> QED
    BY <2>1, <2>2
<1>6. ASSUME ~evicted' PROVE \A e \in Emails : WindowKnows(e, windows.email)'
  <2>1. ~evicted /\ \A e \in DOMAIN windows.email \ DOMAIN byEmail :
                      Expired(PerEmail, windows.email, e, clock)
    BY <1>1, <1>6
  <2>2. \A e \in Emails : WindowKnows(e, byEmail)'
    BY <1>2, <1>3, <1>5, <2>1, MailIsCounted
  <2> QED
    BY <1>4, <2>2 DEF WindowKnows, MailsSince, Expired
<1>7. /\ mails' = [e \in Emails |-> mails'[e]]
      /\ \A e \in Emails : IsFiniteSet(mails'[e]) /\ \A m \in mails'[e] : m[2] \in 0..clock
  <2>1. /\ mails = [e \in Emails |-> mails[e]] /\ clock \in 0..clock
        /\ \A e \in Emails : IsFiniteSet(mails[e]) /\ \A m \in mails[e] : m[2] \in 0..clock
    BY DEF SignInInv
  <2>2. IsFiniteSet(mails[email] \cup {<<link, clock>>})
    BY <2>1, FS_AddElement
  <2>3. /\ mails' = [e \in Emails |-> mails'[e]]
        /\ \A e \in Emails \ {email} : mails'[e] = mails[e]
        /\ mails'[email] = IF sent THEN mails[email] \cup {<<link, clock>>} ELSE mails[email]
    BY <1>5, <2>1
  <2>4. IsFiniteSet(mails'[email]) /\ \A m \in mails'[email] : m[2] \in 0..clock
    <3>1. <<link, clock>>[2] \in 0..clock
      BY <2>1
    <3>2. IsFiniteSet(mails'[email])
      BY <2>1, <2>2, <2>3
    <3>3. \A m \in mails'[email] : m \in mails[email] \/ m = <<link, clock>>
      BY <2>3
    <3> QED
      BY <2>1, <3>1, <3>2, <3>3
  <2>5. ASSUME NEW e \in Emails
        PROVE  IsFiniteSet(mails'[e]) /\ \A m \in mails'[e] : m[2] \in 0..clock
    BY <2>1, <2>3, <2>4
  <2> QED
    BY <2>3, <2>5
<1>8. DOMAIN windows'.email \subseteq Emails
  BY <1>3, <1>4 DEF SignInInv, CountedOn
<1>9. WindowsOK(PerIp, windows.ip, clock)' /\ WindowsOK(PerEmail, windows.email, clock)'
  BY <1>2, <1>3, <1>4 DEF WindowsOK
<1> QED
  BY <1>2, <1>4, <1>6, <1>7, <1>8, <1>9 DEF SignInInv

LEMMA SignInInvStep == SignInInv /\ [SignInNext]_signInVars => SignInInv'
<1> SUFFICES ASSUME SignInInv, [SignInNext]_signInVars PROVE SignInInv'
  OBVIOUS
<1>1. CASE UNCHANGED <<clock, windows, evicted, mails>>
  BY <1>1 DEF SignInInv, WindowsOK, WindowKnows, MailsSince, Expired
<1>2. CASE RestartSignIn
  <2>1. /\ clock' = clock /\ mails' = mails /\ evicted'
        /\ windows' = [ip |-> NoWindows, email |-> NoWindows]
    BY <1>2 DEF RestartSignIn
  <2>2. /\ WindowsOK(PerIp, NoWindows, clock) /\ WindowsOK(PerEmail, NoWindows, clock)
        /\ DOMAIN NoWindows = {}
    BY NoWindowsOK, LimitersAreLimiters DEF SignInInv
  <2>3. windows'.ip = NoWindows /\ windows'.email = NoWindows
    BY <2>1
  <2>4. WindowsOK(PerIp, windows.ip, clock)' /\ WindowsOK(PerEmail, windows.email, clock)'
    BY <2>1, <2>2, <2>3 DEF WindowsOK
  <2> QED
    BY <2>1, <2>2, <2>3, <2>4 DEF SignInInv
<1>3. CASE SignInTick
  BY <1>3, TimeKeeps DEF SignInTick
<1>4. ASSUME NEW b \in Browsers,
             UpsertConsumer(b) \/ MintSession(b) \/ \E link \in Links : ConsumeLink(b, link)
      PROVE  SignInInv'
  BY <1>1, <1>4 DEF UpsertConsumer, MintSession, ConsumeLink
<1>5. ASSUME NEW session \in sessions, Logout(session) PROVE SignInInv'
  BY <1>1, <1>5 DEF Logout
<1>6. CASE UNCHANGED signInVars
  BY <1>1, <1>6 DEF signInVars
<1> QED
  BY <1>2, <1>3, <1>4, <1>5, <1>6, RequestLinkKeeps DEF SignInNext

\* Whatever addresses ask for whatever emails: the maps of the limiters stay within
\* their caps, and an address whose windows were not lost gets no more mails in a
\* window than the limit (auth/magic-link.ts, lib/rate-limit.ts).
THEOREM ThrottleCorrect == SignInSpec => []MailIsThrottled
<1>1. SignInInit => SignInInv
  BY SignInInvInit
<1>2. SignInInv /\ [SignInNext]_signInVars => SignInInv'
  BY SignInInvStep
<1>3. SignInInv => MailIsThrottled
  BY DEF SignInInv, WindowsOK, WindowKnows, MailsSince, MailIsThrottled
<1> QED
  BY <1>1, <1>2, <1>3, PTL DEF SignInSpec

=============================================================================
