----------------------------- MODULE MerchantDoors -----------------------------
(***************************************************************************)
(* Merchants of the core and the doors their deliveries come in by:         *)
(* onboarding (control-plane api/signup), credentials and suspension        *)
(* (merchants/service.ts), the webhooks of Grade-B, UCP, ACP and Shopify    *)
(* (grade-b/routes.ts, protocol/intake.ts, commerce/routes.ts), the claims  *)
(* API, and the Redis limiter.  What is admitted here goes on to            *)
(* withIdempotency and the claim funnel (ClaimIntake).                      *)
(*                                                                         *)
(* A secret, an API key and an HMAC stand for themselves: a delivery is     *)
(* signed with one secret, over its own bytes and timestamp.  Merchants,    *)
(* slugs and secrets are numbered in the order they are made.               *)
(***************************************************************************)
EXTENDS Integers, FiniteSets

CONSTANTS
  Shops,          \* bound: merchants; numbers
  Slugs,          \* slugs that share one base name: 1 is the base, n is base-n
  Secrets,        \* bound: webhook secrets; numbers
  Onboarders,     \* requests of the control plane in flight
  Deliveries,     \* bound: deliveries of merchants
  DeliveryInputs, \* what a delivery can be: see Arrive
  DoorSkew,       \* WEBHOOK_TIMESTAMP_MAX_SKEW_S
  DoorWindow, DoorLimit, \* windowS and limit of the limiter
  MaxDoorTime,    \* bound on the clock
  MaxSignups,     \* bound on requests that create a merchant or a key
  MaxEdits,       \* bound on issues, revocations and updates by operators
  MaxDoorFailures,\* bound on queries and calls that fail
  NoOne

\* The rows: a merchant, a webhook secret, a window of the limiter.
MerchantRows ==
  [slug : Slugs, status : {"active", "suspended"}, signing_key_ref : Shops \cup {NoOne},
   suspended_at : Int \cup {NoOne}]
SecretRows == [merchant : Shops, revoked_at : Int \cup {NoOne}]
WindowRows == [count : Nat, expires : Int \cup {NoOne}]

ASSUME DoorsAssumption ==
  /\ IsFiniteSet(Deliveries)
  /\ Shops \subseteq Int /\ Slugs \subseteq Int /\ Secrets \subseteq Int
  /\ NoOne \notin Int /\ NoOne \notin MerchantRows /\ NoOne \notin SecretRows
  /\ NoOne \notin WindowRows
  /\ DoorWindow \in Nat
  /\ \A input \in DeliveryInputs :
       /\ input.door \in {"grade_b", "ucp", "acp", "shopify", "claims", "verdict"}
       /\ input.claimant \in Shops \cup {NoOne}

VARIABLES
  clock,
  merchants,        \* core.merchants
  webhook_secrets,  \* core.merchant_webhook_secrets
  key_rows,         \* core.merchant_signing_keys: [merchant, ref]
  custody,          \* the merchants the trio holds a key for
  onboarder,        \* where each request of the control plane stands
  sheets,           \* the integration sheets that were answered
  delivery,         \* where each delivery stands
  windows,          \* the limiter's keys in Redis: count and expiry
  undisturbed,      \* history: honest deliveries that nothing has overtaken yet
  signups, edits, troubles

registry == <<merchants, webhook_secrets, key_rows, custody>>
office == <<onboarder, sheets, signups>>
gate == <<delivery, windows>>
doorVars == <<clock, registry, office, gate, undisturbed, edits, troubles>>

AtDesk == [step |-> "idle"]
Active(m) == merchants[m] # NoOne /\ merchants[m].status = "active"
LiveSecrets(m) ==
  {s \in Secrets : webhook_secrets[s] # NoOne /\ webhook_secrets[s].merchant = m
                     /\ webhook_secrets[s].revoked_at = NoOne}
FirstFree(table, ids) == {i \in ids : table[i] = NoOne /\ \A j \in ids : j < i => table[j] # NoOne}

Go(w, step) == onboarder' = [onboarder EXCEPT ![w].step = step]
Leave(w) == onboarder' = [onboarder EXCEPT ![w] = AtDesk]
Atstep(w, step) == onboarder[w].step = step

-----------------------------------------------------------------------------
\* Signup: the slugs that begin with the base are read, the first free one is
\* chosen; the row is inserted later, and slug is UNIQUE.
ReadSlugs(w) ==
  /\ onboarder[w] = AtDesk /\ signups < MaxSignups
  /\ signups' = signups + 1
  /\ LET taken == {merchants[m].slug : m \in {n \in Shops : merchants[n] # NoOne}}
     IN  \E slug \in Slugs \ taken :
           /\ \A n \in Slugs : n < slug => n \in taken
           /\ onboarder' = [onboarder EXCEPT ![w] =
                [step |-> "insert", slug |-> slug, merchant |-> NoOne, sheet |-> TRUE, secret |-> NoOne]]
  /\ UNCHANGED <<clock, registry, sheets, gate, undisturbed, edits, troubles>>

InsertMerchant(w) ==
  /\ Atstep(w, "insert")
  /\ IF \E m \in Shops : merchants[m] # NoOne /\ merchants[m].slug = onboarder[w].slug
       THEN Leave(w) /\ UNCHANGED merchants
       ELSE \E m \in FirstFree(merchants, Shops) :
              /\ merchants' = [merchants EXCEPT ![m] =
                   [slug |-> onboarder[w].slug, status |-> "active", signing_key_ref |-> NoOne,
                    suspended_at |-> NoOne]]
              /\ onboarder' = [onboarder EXCEPT ![w].step = "key", ![w].merchant = m]
  /\ UNCHANGED <<clock, webhook_secrets, key_rows, custody, sheets, signups, gate, undisturbed, edits,
                 troubles>>

\* An operator asks for a signing key of a merchant that exists.
AskForKey(w) ==
  /\ onboarder[w] = AtDesk /\ signups < MaxSignups
  /\ signups' = signups + 1
  /\ \E m \in Shops :
       /\ merchants[m] # NoOne
       /\ onboarder' = [onboarder EXCEPT ![w] =
            [step |-> "key", slug |-> NoOne, merchant |-> m, sheet |-> FALSE, secret |-> NoOne]]
  /\ UNCHANGED <<clock, registry, sheets, gate, undisturbed, edits, troubles>>

\* The trio's reference is a function of the merchant: asking twice is harmless.
IssueKey(w) ==
  /\ Atstep(w, "key")
  /\ custody' = custody \cup {onboarder[w].merchant}
  /\ Go(w, "row")
  /\ UNCHANGED <<clock, merchants, webhook_secrets, key_rows, sheets, signups, gate, undisturbed, edits,
                 troubles>>

\* Mutant of KeyTimesOut: the answer is not waited for.
KeyTimesOutQuietly(w) ==
  /\ Atstep(w, "key") /\ troubles < MaxDoorFailures
  /\ troubles' = troubles + 1
  /\ custody' \in {custody, custody \cup {onboarder[w].merchant}}
  /\ Go(w, "row")
  /\ UNCHANGED <<clock, merchants, webhook_secrets, key_rows, sheets, signups, gate, undisturbed, edits>>

\* The answer of the trio does not come: the call is given up (502).
KeyTimesOut(w) ==
  /\ Atstep(w, "key") /\ troubles < MaxDoorFailures
  /\ troubles' = troubles + 1
  /\ custody' \in {custody, custody \cup {onboarder[w].merchant}}
  /\ Leave(w)
  /\ UNCHANGED <<clock, merchants, webhook_secrets, key_rows, sheets, signups, gate, undisturbed, edits>>

InsertKeyRow(w) ==
  /\ Atstep(w, "row")
  /\ key_rows' = key_rows \cup {[merchant |-> onboarder[w].merchant, ref |-> onboarder[w].merchant]}
  /\ Go(w, "ref")
  /\ UNCHANGED <<clock, merchants, webhook_secrets, custody, sheets, signups, gate, undisturbed, edits,
                 troubles>>

SetKeyRef(w) ==
  /\ Atstep(w, "ref")
  /\ LET m == onboarder[w].merchant
     IN  merchants' = [merchants EXCEPT ![m].signing_key_ref = m]
  /\ IF onboarder[w].sheet THEN Go(w, "secret") ELSE Leave(w)
  /\ UNCHANGED <<clock, webhook_secrets, key_rows, custody, sheets, signups, gate, undisturbed, edits,
                 troubles>>

NewSecret(m) ==
  \E s \in FirstFree(webhook_secrets, Secrets) :
    webhook_secrets' = [webhook_secrets EXCEPT ![s] = [merchant |-> m, revoked_at |-> NoOne]]

IssueFirstSecret(w) ==
  /\ Atstep(w, "secret")
  /\ \E s \in FirstFree(webhook_secrets, Secrets) :
       onboarder' = [onboarder EXCEPT ![w].step = "publish", ![w].secret = s]
  /\ NewSecret(onboarder[w].merchant)
  /\ UNCHANGED <<clock, merchants, key_rows, custody, sheets, signups, gate, undisturbed, edits, troubles>>

\* The first offer is drafted and published (Offers), then the sheet is
\* answered, with the secret in the clear.
AnswerSheet(w) ==
  /\ Atstep(w, "publish")
  /\ sheets' = sheets \cup {[merchant |-> onboarder[w].merchant, slug |-> onboarder[w].slug,
                             secret |-> onboarder[w].secret]}
  /\ Leave(w)
  /\ UNCHANGED <<clock, registry, signups, gate, undisturbed, edits, troubles>>

\* A query fails, or the publication does: ONBOARDING_FAILED, and what is
\* written stays.
OnboardingFails(w) ==
  /\ onboarder[w] # AtDesk /\ troubles < MaxDoorFailures
  /\ troubles' = troubles + 1
  /\ Leave(w)
  /\ UNCHANGED <<clock, registry, sheets, signups, gate, undisturbed, edits>>

-----------------------------------------------------------------------------
\* Operators.  What one of them does may be what a delivery is refused for.
Edit == edits < MaxEdits /\ edits' = edits + 1
Still == UNCHANGED <<clock, key_rows, custody, sheets, signups, gate, troubles>>

RotateIn(m) ==
  /\ Edit /\ merchants[m] # NoOne
  /\ NewSecret(m)
  /\ Still /\ UNCHANGED <<merchants, onboarder, undisturbed>>

RevokeSecret(s) ==
  /\ Edit /\ webhook_secrets[s] # NoOne
  /\ webhook_secrets' = [webhook_secrets EXCEPT ![s].revoked_at = clock]
  /\ undisturbed' = {d \in undisturbed : delivery[d].input.secret # s}
  /\ Still /\ UNCHANGED <<merchants, onboarder>>

\* update: the row is read, and written back with what the patch says, or with
\* the status that was read (a patch of the commercial terms carries none).
ReadForUpdate(w, m, patch) ==
  /\ Edit /\ merchants[m] # NoOne /\ onboarder[w] = AtDesk
  /\ onboarder' = [onboarder EXCEPT ![w] =
       [step |-> "update", merchant |-> m,
        status |-> IF patch = NoOne THEN merchants[m].status ELSE patch]]
  /\ Still /\ UNCHANGED <<merchants, webhook_secrets, undisturbed>>

WriteUpdate(w) ==
  /\ Atstep(w, "update")
  /\ LET m == onboarder[w].merchant  status == onboarder[w].status
     IN  /\ merchants' = [merchants EXCEPT ![m].status = status,
              ![m].suspended_at = IF status = "suspended" THEN clock ELSE @]
         /\ undisturbed' = IF status = "active" THEN undisturbed
              ELSE {d \in undisturbed : delivery[d].input.slug # merchants[m].slug}
  /\ Leave(w)
  /\ Still /\ UNCHANGED <<webhook_secrets, edits>>

-----------------------------------------------------------------------------
\* The protocols, both ways.  An offer goes out with the token of its quote in
\* one designated field (and no field at all without one); of an order that
\* comes in only that field is read, and everything token-shaped elsewhere is
\* another vendor's business.  A carrier is that field, and what is elsewhere.
Carrier(field, elsewhere) == [field |-> field, elsewhere |-> elsewhere]

offerOut(quote) == Carrier(quote.token, NoOne)

\* A garbled field is no extension envelope to UCP, which drops it, and an
\* opaque token to the others.
orderIn(door, carrier) ==
  [token |-> IF door = "ucp" /\ carrier.field = "garbled" THEN NoOne ELSE carrier.field]

-----------------------------------------------------------------------------
\* A delivery.  Its input: the door and slug it is sent to, the secret it is
\* signed with (NoOne: no signature; 0: some other key), its timestamp,
\* NoOne where it has none, whether it has an idempotency key and a body that
\* parses, the merchant a formed claim names, and the carrier in it.  A claim
\* comes to no slug: slug is the one of the merchant whose API key it presents.
\* Nor does the question for a claim's verdict, the last door: the claimant is
\* the merchant of the claim asked for, NoOne if there is none, and quoted says
\* whether the key of the agent whose quote it consumed is presented.
Outside == [step |-> "outside"]
To(d, step) == delivery' = [delivery EXCEPT ![d].step = step]
InStage(d, step) == delivery[d].step = step
\* The delivery is known to be a merchant's, or not: a 401 remembers, for the
\* property, whether it met an honest one.
Recognise(d, m) ==
  /\ delivery' = [delivery EXCEPT ![d].step = "authentic", ![d].merchant = m]
  /\ undisturbed' = undisturbed \ {d}
Refuse(d) ==
  /\ delivery' = [delivery EXCEPT ![d] = [step |-> "401", honest |-> d \in undisturbed]]
  /\ undisturbed' = undisturbed \ {d}
Input(d) == delivery[d].input
UntouchedByDoor == UNCHANGED <<clock, registry, office, edits>>

TimelyAt(input, now) ==
  input.door \in {"shopify", "claims", "verdict"} \/ (input.ts # NoOne /\ now - input.ts \in -DoorSkew .. DoorSkew)
Timely(input) == TimelyAt(input, clock)

\* getBySlug: the active merchant of a slug, if there is one.
getBySlug(slug) == {m \in Shops : Active(m) /\ merchants[m].slug = slug}

\* A claim is shown to the merchant who claims, or to the agent of its quote.
\* The claim's row never changes owner, so reading it is no step of its own.
MayAsk(input) ==
  input.claimant # NoOne /\ (input.claimant \in getBySlug(input.slug) \/ input.quoted)

Arrive(d) ==
  /\ InStage(d, "outside")
  /\ \E input \in DeliveryInputs :
       /\ delivery' = [delivery EXCEPT ![d] =
            [step |-> "arrived", input |-> input, arrived |-> clock, merchant |-> NoOne, order |-> NoOne]]
       /\ undisturbed' = IF IF input.door = "verdict" THEN MayAsk(input)
                            ELSE /\ Timely(input)
                                 /\ \E m \in getBySlug(input.slug) :
                                      input.door = "claims" \/ input.secret \in LiveSecrets(m)
                           THEN undisturbed \cup {d} ELSE undisturbed
  /\ UntouchedByDoor /\ UNCHANGED <<windows, troubles>>

\* The slug, and the check that needs no secret: Shopify's scheme has no
\* timestamp.  Every refusal of the two is the same 401.
Precheck(d) ==
  /\ InStage(d, "arrived") /\ Input(d).door \notin {"claims", "verdict"}
  /\ LET known == getBySlug(Input(d).slug)
     IN  IF known = {} \/ Input(d).secret = NoOne \/ ~Timely(Input(d))
           THEN Refuse(d)
           ELSE \E m \in known :
                  /\ delivery' = [delivery EXCEPT ![d].step = "checked", ![d].merchant = m]
                  /\ UNCHANGED undisturbed
  /\ UntouchedByDoor /\ UNCHANGED <<windows, troubles>>

\* Mutant of activeWebhookSecrets: only the newest one is asked for.
newestWebhookSecret(m) == {s \in LiveSecrets(m) : \A r \in LiveSecrets(m) : r <= s}

activeWebhookSecrets(m) == LiveSecrets(m)

\* The signature is tried under each of them.
verifyWebhookSignature(input, secrets) == input.secret \in secrets

VerifySignature(d) ==
  /\ InStage(d, "checked")
  /\ IF verifyWebhookSignature(Input(d), activeWebhookSecrets(delivery[d].merchant))
       THEN Recognise(d, delivery[d].merchant)
       ELSE Refuse(d)
  /\ UntouchedByDoor /\ UNCHANGED <<windows, troubles>>

\* POST /v1/claims: the merchant whose API key is presented, if he is active.
AuthenticateKey(d) ==
  /\ InStage(d, "arrived") /\ Input(d).door = "claims"
  /\ LET owner == getBySlug(Input(d).slug)
     IN  IF owner = {} THEN Refuse(d)
         ELSE \E m \in owner : Recognise(d, m)
  /\ UntouchedByDoor /\ UNCHANGED <<windows, troubles>>

\* GET /v1/claims/:id.  Whoever may not ask is refused as if there were no such
\* claim.
ReadVerdict(d) ==
  /\ InStage(d, "arrived") /\ Input(d).door = "verdict"
  /\ IF MayAsk(Input(d)) THEN To(d, "told") /\ undisturbed' = undisturbed \ {d} ELSE Refuse(d)
  /\ UntouchedByDoor /\ UNCHANGED <<windows, troubles>>

\* INCR; the first hit of a window is to set its expiry in a second call, which
\* is not in one transaction with it.
Buckets == {"grade_b", "ucp", "acp", "shopify", "claims"} \X Shops
Bucket(d) == <<Input(d).door, delivery[d].merchant>>
CountHit(d) ==
  /\ InStage(d, "authentic")
  /\ LET b == Bucket(d)
         count == IF windows[b] = NoOne THEN 1 ELSE windows[b].count + 1
     IN  /\ windows' = [windows EXCEPT ![b] =
              [count |-> count, expires |-> IF count = 1 THEN NoOne ELSE @.expires]]
         /\ To(d, CASE count = 1 -> "opening" [] count > DoorLimit -> "429" [] OTHER -> "counted")
  /\ UntouchedByDoor /\ UNCHANGED <<undisturbed, troubles>>

SetExpiry(d) ==
  /\ InStage(d, "opening")
  /\ windows' = IF windows[Bucket(d)] = NoOne THEN windows
                ELSE [windows EXCEPT ![Bucket(d)].expires = clock + DoorWindow]
  /\ To(d, "counted")
  /\ UntouchedByDoor /\ UNCHANGED <<undisturbed, troubles>>

\* Redis fails, and the limiter opens.
RedisFails(d) ==
  /\ delivery[d].step \in {"authentic", "opening"} /\ troubles < MaxDoorFailures
  /\ troubles' = troubles + 1
  /\ To(d, "counted")
  /\ UntouchedByDoor /\ UNCHANGED <<windows, undisturbed>>

\* An idempotency key, and a body the door can read.
WellPut(input) == input.keyed /\ input.parses

\* The order goes on to withIdempotency and the claim funnel, whose answer is
\* the delivery's.
PassOn(d) ==
  delivery' = [delivery EXCEPT ![d].step = "admitted",
                               ![d].order = orderIn(Input(d).door, Input(d).carrier)]

\* The last refusals, of a claim in another's name too.
Admit(d) ==
  /\ InStage(d, "counted")
  /\ IF WellPut(Input(d)) /\ Input(d).claimant \in {NoOne, delivery[d].merchant}
       THEN PassOn(d) ELSE To(d, "refused")
  /\ UntouchedByDoor /\ UNCHANGED <<windows, undisturbed, troubles>>

\* A query fails, or the process dies: a 500, or no answer.
DeliveryLost(d) ==
  /\ delivery[d].step \in {"arrived", "checked", "opening"} /\ troubles < MaxDoorFailures
  /\ troubles' = troubles + 1
  /\ IF InStage(d, "opening") THEN To(d, "lost")
       ELSE delivery' = [delivery EXCEPT ![d] = [step |-> "500"]]
  /\ undisturbed' = undisturbed \ {d}
  /\ UntouchedByDoor /\ UNCHANGED windows

\* Time passes, and Redis drops what has expired.
PassTime ==
  /\ clock < MaxDoorTime
  /\ clock' = clock + 1
  /\ windows' = [b \in DOMAIN windows |->
       IF windows[b] = NoOne THEN NoOne
       ELSE IF windows[b].expires # NoOne /\ windows[b].expires <= clock' THEN NoOne ELSE windows[b]]
  /\ undisturbed' = {d \in undisturbed : TimelyAt(Input(d), clock')}
  /\ UNCHANGED <<registry, office, delivery, edits, troubles>>

-----------------------------------------------------------------------------
DoorsInit ==
  /\ clock = 0
  /\ merchants = [m \in Shops |-> NoOne]
  /\ webhook_secrets = [s \in Secrets |-> NoOne]
  /\ key_rows = {} /\ custody = {}
  /\ onboarder = [w \in Onboarders |-> AtDesk]
  /\ sheets = {}
  /\ delivery = [d \in Deliveries |-> Outside]
  /\ windows = [b \in Buckets |-> NoOne]
  /\ undisturbed = {}
  /\ signups = 0 /\ edits = 0 /\ troubles = 0

DoorsNext ==
  \/ \E w \in Onboarders :
       \/ ReadSlugs(w) \/ InsertMerchant(w) \/ AskForKey(w) \/ IssueKey(w) \/ KeyTimesOut(w)
       \/ InsertKeyRow(w) \/ SetKeyRef(w) \/ IssueFirstSecret(w) \/ AnswerSheet(w)
       \/ OnboardingFails(w) \/ WriteUpdate(w)
       \/ \E m \in Shops, patch \in {"active", "suspended", NoOne} : ReadForUpdate(w, m, patch)
  \/ \E m \in Shops : RotateIn(m)
  \/ \E s \in Secrets : RevokeSecret(s)
  \/ \E d \in Deliveries :
       \/ Arrive(d) \/ Precheck(d) \/ VerifySignature(d) \/ AuthenticateKey(d) \/ ReadVerdict(d)
       \/ CountHit(d) \/ SetExpiry(d) \/ RedisFails(d) \/ Admit(d) \/ DeliveryLost(d)
  \/ PassTime

DoorsSpec == DoorsInit /\ [][DoorsNext]_doorVars

-----------------------------------------------------------------------------
\* Whoever got an integration sheet is onboarded: his slug is his alone, his
\* secret is a row of his, and the key his claims are signed with is in the
\* trio's custody with its public half on record (api/signup: "claims cannot
\* form without it"); nor does any merchant name a key that is not.
OnboardedIsComplete ==
  /\ \A sheet \in sheets :
       /\ {m \in Shops : merchants[m] # NoOne /\ merchants[m].slug = sheet.slug} = {sheet.merchant}
       /\ webhook_secrets[sheet.secret] # NoOne
       /\ webhook_secrets[sheet.secret].merchant = sheet.merchant
       /\ merchants[sheet.merchant].signing_key_ref # NoOne
  /\ \A m \in Shops : merchants[m] # NoOne /\ merchants[m].signing_key_ref # NoOne =>
       /\ m \in custody
       /\ [merchant |-> m, ref |-> merchants[m].signing_key_ref] \in key_rows

\* What is let in was signed with a secret of the merchant that was live, and
\* the merchant active, after it arrived, and carries no token but the one its
\* designated field has; and a delivery that was honest when it came and was
\* overtaken neither by an operator nor by its time is never refused as
\* unauthentic, so that secrets can be rotated with both in use
\* (activeWebhookSecrets, getBySlug).  A verdict is told to the agent of the
\* quote or to the claiming merchant, active after the question arrived, and to
\* nobody else.  No window of the limiter, which stands
\* behind the signature, counts more than a merchant's own deliveries.
DoorsAreFair ==
  /\ \A d \in Deliveries :
       /\ InStage(d, "admitted") =>
            LET m == delivery[d].merchant  secret == webhook_secrets[Input(d).secret]
            IN  /\ merchants[m].slug = Input(d).slug
                /\ Input(d).door # "claims" =>
                     /\ secret.merchant = m
                     /\ secret.revoked_at = NoOne \/ secret.revoked_at >= delivery[d].arrived
                /\ Input(d).claimant \in {NoOne, m}
                /\ merchants[m].status = "active" \/ merchants[m].suspended_at >= delivery[d].arrived
                /\ delivery[d].order.token \in {Input(d).carrier.field, NoOne}
       /\ InStage(d, "told") =>
            /\ Input(d).claimant # NoOne
            /\ Input(d).quoted \/ LET m == merchants[Input(d).claimant]
                                  IN  /\ m.slug = Input(d).slug
                                      /\ m.status = "active" \/ m.suspended_at >= delivery[d].arrived
       /\ InStage(d, "401") => ~delivery[d].honest
  /\ \A b \in DOMAIN windows : windows[b] # NoOne =>
       windows[b].count <= Cardinality({d \in Deliveries :
         /\ delivery[d].step \notin {"outside", "arrived", "checked", "401", "500"} /\ Bucket(d) = b
         /\ \/ Input(d).door = "claims"
            \/ /\ Input(d).secret \in Secrets
               /\ webhook_secrets[Input(d).secret].merchant = delivery[d].merchant})

===============================================================================
