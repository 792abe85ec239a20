-------------------------------- MODULE Linking --------------------------------
(***************************************************************************)
(* Loyalty accounts linked to a wallet: the OAuth flow and the hosted one   *)
(* (linking/link-service.ts, hosted/hosted-link-service.ts), the brand's    *)
(* identity provider and loyalty API (apps/fake-aurora), the sealed tokens, *)
(* and the credit of points for a conversion (loyalty/points-credit.ts).    *)
(*                                                                         *)
(* A state parameter, a PKCE verifier and a mailed token are secrets of one *)
(* attempt, and stand for it.  Times are left out: an attempt or a code     *)
(* expires when it does.  Links are numbered in the order of linked_at.     *)
(***************************************************************************)
EXTENDS Integers, FiniteSets

CONSTANTS
  People,        \* consumers with a wallet session
  Programmes,
  Members,       \* a brand's members
  Programme,     \* the programme of each
  Attempts,      \* bound: link attempts; numbers, used in order
  LinkIds,       \* bound: links; numbers, used in order
  Claims,        \* verified conversions of a pound or more, delivered to the projection
  Owner,         \* the consumer whose approval a claim carries, Nobody if it has none
  Workers,       \* requests and deliveries in flight
  MaxFailures,   \* bound: calls that fail and processes that die
  Nobody

AttemptRows == [kind : {"oauth", "hosted"}, consumer : People, programme : Programmes,
                member : Members \cup {Nobody}, open : BOOLEAN]
CodeRows == [sub : Members, live : BOOLEAN]
LinkRows == [attempt : Attempts, consumer : People, programme : Programmes, sub : Members,
             status : {"active", "revoked"}]

ASSUME LinkingAssumption ==
  /\ LinkIds \subseteq Int
  /\ Programme \in [Members -> Programmes]
  /\ Nobody \notin AttemptRows /\ Nobody \notin CodeRows /\ Nobody \notin LinkRows

VARIABLES
  attempts,        \* wallet.link_attempts and wallet.hosted_link_attempts
  codes,           \* the IdP's authorization codes, by the attempt whose challenge they carry
  refresh_tokens,  \* the IdP's refresh tokens, by the attempt they were issued for
  identity_links,  \* wallet.identity_links
  link_tokens,     \* wallet.link_tokens: the sealed refresh token of a link
  next_link,       \* the link that is built next
  linked, unlinked, \* the AccountLinked and AccountUnlinked events of each link
  work,            \* the requests and deliveries in flight
  seen_orders,     \* the orders each brand has credited, and to whom
  points_credits,  \* wallet.points_credits by claim
  failures

linkingVars == <<attempts, codes, refresh_tokens, identity_links, link_tokens, next_link,
                 linked, unlinked, work, seen_orders, points_credits, failures>>
brand == <<codes, refresh_tokens>>
events == <<linked, unlinked>>
money == <<seen_orders, points_credits>>

Resting == [step |-> "idle"]
Free(w) == work[w] = Resting
InStep(w, step) == work[w].step = step
ToStep(w, step) == work' = [work EXCEPT ![w].step = step]
Done(w) == work' = [work EXCEPT ![w] = Resting]

\* A call to another service, or to the database, fails: the request ends there.
Fail(w) ==
  /\ ~Free(w) /\ failures < MaxFailures
  /\ failures' = failures + 1
  /\ Done(w)
  /\ UNCHANGED <<attempts, brand, identity_links, link_tokens, next_link, events, money>>

\* The process dies with everything it has in flight.
CrashLinking ==
  /\ failures < MaxFailures /\ \E w \in Workers : ~Free(w)
  /\ failures' = failures + 1
  /\ work' = [w \in Workers |-> Resting]
  /\ UNCHANGED <<attempts, brand, identity_links, link_tokens, next_link, events, money>>

-----------------------------------------------------------------------------
\* Attempts.

FreshAttempt(a) == attempts[a] = Nobody /\ \A b \in Attempts : b < a => attempts[b] # Nobody
NewAttempt(a, kind, c, programme, member) ==
  /\ FreshAttempt(a)
  /\ attempts' = [attempts EXCEPT ![a] =
       [kind |-> kind, consumer |-> c, programme |-> programme, member |-> member, open |-> TRUE]]
  /\ UNCHANGED <<brand, identity_links, link_tokens, next_link, events, work, money, failures>>

StartOAuth(a, c, programme) == NewAttempt(a, "oauth", c, programme, Nobody)
\* An attempt is written only for a member the brand confirms.
StartHosted(a, c, m) == NewAttempt(a, "hosted", c, Programme[m], m)

AttemptExpires(a) ==
  /\ attempts[a] # Nobody /\ attempts[a].open
  /\ attempts' = [attempts EXCEPT ![a].open = FALSE]
  /\ UNCHANGED <<brand, identity_links, link_tokens, next_link, events, work, money, failures>>

\* The consent screen of the brand's provider: whom it offers to sign in as, on a
\* request that carries a challenge.
ConsentScreen(a) ==
  IF attempts[a] # Nobody /\ attempts[a].kind = "oauth"
    THEN {m \in Members : Programme[m] = attempts[a].programme} ELSE {}

\* The member approves at the brand: a code bound to the challenge she came with.
Consent(a, m) ==
  /\ m \in ConsentScreen(a) /\ codes[a] = Nobody
  /\ codes' = [codes EXCEPT ![a] = [sub |-> m, live |-> TRUE]]
  /\ UNCHANGED <<attempts, refresh_tokens, identity_links, link_tokens, next_link, events,
                 work, money, failures>>

\* One statement uses the attempt up; the wrong session has burnt it.
Callback(w, c, a, code) ==
  /\ Free(w) /\ attempts[a] # Nobody /\ attempts[a].kind = "oauth" /\ attempts[a].open
  /\ attempts' = [attempts EXCEPT ![a].open = FALSE]
  /\ IF attempts[a].consumer = c
       THEN work' = [work EXCEPT ![w] = [step |-> "exchange", attempt |-> a, code |-> code]]
       ELSE UNCHANGED work
  /\ UNCHANGED <<brand, identity_links, link_tokens, next_link, events, money, failures>>

Built(a, sub) ==
  [attempt |-> a, consumer |-> attempts[a].consumer, programme |-> attempts[a].programme,
   sub |-> sub, status |-> "active"]
BuildLink(w, a, sub, step) ==
  /\ next_link \in LinkIds
  /\ next_link' = next_link + 1
  /\ work' = [work EXCEPT ![w] = [step |-> step, link |-> next_link, row |-> Built(a, sub)]]

VerifyHosted(w, c, a) ==
  /\ Free(w) /\ attempts[a] # Nobody /\ attempts[a].kind = "hosted" /\ attempts[a].open
  /\ attempts' = [attempts EXCEPT ![a].open = FALSE]
  /\ IF attempts[a].consumer = c
       THEN BuildLink(w, a, attempts[a].member, "persist")
       ELSE UNCHANGED <<work, next_link>>
  /\ UNCHANGED <<brand, identity_links, link_tokens, events, money, failures>>

\* Mutant of VerifierMatches: the brand does not compare the PKCE verifier.
AnyVerifier(w) == TRUE

\* The verifier the wallet kept with the attempt hashes to the code's challenge.
VerifierMatches(w) == work[w].code = work[w].attempt

LiveCode(code) == codes[code] # Nobody /\ codes[code].live
\* The code was given out by the brand that is asked, and is not used up.
KnownCode(w) ==
  LiveCode(work[w].code) /\ attempts[work[w].code].programme = attempts[work[w].attempt].programme

\* The provider keeps the refresh token it issues; the access token serves for one
\* userinfo, whose failure is passed over.
IssueTokens(a) == refresh_tokens' = [refresh_tokens EXCEPT ![a] = "live"]

\* Whom the id_token of the answer is about.
SubjectOf(code) == codes[code].sub

\* The brand deletes the code before it looks at the verifier.
Exchange(w) ==
  LET code == work[w].code  a == work[w].attempt
  IN  /\ InStep(w, "exchange")
      /\ KnownCode(w)
      /\ codes' = [codes EXCEPT ![code].live = FALSE]
      /\ IF VerifierMatches(w)
           THEN IssueTokens(a) /\ BuildLink(w, a, SubjectOf(code), "seal")
           ELSE Done(w) /\ UNCHANGED <<refresh_tokens, next_link>>
      /\ UNCHANGED <<attempts, identity_links, link_tokens, events, money, failures>>

NoSuchCode(w) ==
  /\ InStep(w, "exchange")
  /\ ~KnownCode(w)
  /\ Done(w)
  /\ UNCHANGED <<attempts, brand, identity_links, link_tokens, next_link, events, money, failures>>

CodeExpires(a) ==
  /\ LiveCode(a)
  /\ codes' = [codes EXCEPT ![a].live = FALSE]
  /\ UNCHANGED <<attempts, refresh_tokens, identity_links, link_tokens, next_link, events,
                 work, money, failures>>

SealTokens(w) ==
  /\ InStep(w, "seal")
  /\ link_tokens' = [link_tokens EXCEPT ![work[w].link] = work[w].row.attempt]
  /\ ToStep(w, "persist")
  /\ UNCHANGED <<attempts, brand, identity_links, next_link, events, money, failures>>

PersistLink(w) ==
  /\ InStep(w, "persist")
  /\ identity_links' = [identity_links EXCEPT ![work[w].link] = work[w].row]
  /\ ToStep(w, "tell_linked")
  /\ UNCHANGED <<attempts, brand, link_tokens, next_link, events, money, failures>>

AppendLinked(w) ==
  /\ InStep(w, "tell_linked")
  /\ linked' = [linked EXCEPT ![work[w].link] = @ + 1]
  /\ Done(w)
  /\ UNCHANGED <<attempts, brand, identity_links, link_tokens, next_link, unlinked, money, failures>>

-----------------------------------------------------------------------------
\* Unlinking.

Unlink(w, c, l) ==
  /\ Free(w) /\ identity_links[l] # Nobody
  /\ identity_links[l].consumer = c /\ identity_links[l].status = "active"
  /\ identity_links' = [identity_links EXCEPT ![l].status = "revoked"]
  /\ work' = [work EXCEPT ![w] = [step |-> "revoke_at_brand", link |-> l]]
  /\ UNCHANGED <<attempts, brand, link_tokens, next_link, events, money, failures>>

\* The only doorway to what was sealed for a link.
Unsealed(l) == link_tokens[l]

\* The provider marks a refresh token it knows; it answers the same in any case.
RevokeToken(token) == refresh_tokens' = [refresh_tokens EXCEPT ![token] = "revoked"]

\* Best effort: with a sealed token the brand is told, and may not answer.
RevokeAtBrand(w) ==
  LET token == Unsealed(work[w].link)
  IN  /\ InStep(w, "revoke_at_brand")
      /\ \/ /\ token # Nobody
            /\ RevokeToken(token)
            /\ UNCHANGED failures
         \/ token = Nobody /\ UNCHANGED <<refresh_tokens, failures>>
         \/ /\ token # Nobody /\ failures < MaxFailures
            /\ failures' = failures + 1 /\ UNCHANGED refresh_tokens
      /\ ToStep(w, "drop")
      /\ UNCHANGED <<attempts, codes, identity_links, link_tokens, next_link, events, money>>

\* Mutant of DropTokens: the sealed tokens stay.
KeepTokens(w) ==
  /\ InStep(w, "drop")
  /\ ToStep(w, "tell_unlinked")
  /\ UNCHANGED <<attempts, brand, identity_links, link_tokens, next_link, events, money, failures>>

DropTokens(w) ==
  /\ InStep(w, "drop")
  /\ link_tokens' = [link_tokens EXCEPT ![work[w].link] = Nobody]
  /\ ToStep(w, "tell_unlinked")
  /\ UNCHANGED <<attempts, brand, identity_links, next_link, events, money, failures>>

AppendUnlinked(w) ==
  /\ InStep(w, "tell_unlinked")
  /\ unlinked' = [unlinked EXCEPT ![work[w].link] = @ + 1]
  /\ Done(w)
  /\ UNCHANGED <<attempts, brand, identity_links, link_tokens, next_link, linked, money, failures>>

-----------------------------------------------------------------------------
\* Points.

ActiveLinks(c) ==
  {l \in LinkIds : identity_links[l] # Nobody /\ identity_links[l].consumer = c
                   /\ identity_links[l].status = "active"}

\* The event is delivered, perhaps again: nothing is done for a claim that has
\* its row, or that no approval of a wallet stands behind.
DeliverClaim(w, claim) ==
  /\ Free(w) /\ points_credits[claim] = Nobody /\ Owner[claim] # Nobody
  /\ work' = [work EXCEPT ![w] = [step |-> "choose", claim |-> claim]]
  /\ UNCHANGED <<attempts, brand, identity_links, link_tokens, next_link, events, money, failures>>

\* The consumer's earliest active link; without one nothing is credited.
ChooseLink(w) ==
  LET active == ActiveLinks(Owner[work[w].claim])
  IN  /\ InStep(w, "choose")
      /\ IF active = {}
           THEN Done(w)
           ELSE \E l \in active :
                  /\ \A k \in active : l <= k
                  /\ work' = [work EXCEPT ![w] =
                       [step |-> "credit", claim |-> work[w].claim, link |-> l]]
      /\ UNCHANGED <<attempts, brand, identity_links, link_tokens, next_link, events, money, failures>>

\* Mutant of OrderSeen: the brand credits whatever it has credited before.
OrderNeverSeen(programme, claim) == FALSE

OrderSeen(programme, claim) == \E o \in seen_orders : o.programme = programme /\ o.claim = claim

\* The brand credits an order once, to the member the reference resolves to.
CreditOrder(programme, claim, member) ==
  seen_orders' = IF OrderSeen(programme, claim) THEN seen_orders
    ELSE seen_orders \cup {[programme |-> programme, claim |-> claim,
                            member |-> member, nth |-> Cardinality(seen_orders)]}

\* Credited first, recorded second; the brand's answer may be lost on the way.
CreditAtBrand(w) ==
  LET link == identity_links[work[w].link]  claim == work[w].claim
  IN  /\ InStep(w, "credit")
      /\ CreditOrder(link.programme, claim, link.sub)
      /\ ToStep(w, "record")
      /\ UNCHANGED <<attempts, brand, identity_links, link_tokens, next_link, events,
                     points_credits, failures>>

RecordCredit(w) ==
  LET link == identity_links[work[w].link]  claim == work[w].claim
  IN  /\ InStep(w, "record")
      /\ points_credits' = IF points_credits[claim] # Nobody THEN points_credits
           ELSE [points_credits EXCEPT ![claim] =
                  [consumer |-> link.consumer, programme |-> link.programme, member |-> link.sub]]
      /\ Done(w)
      /\ UNCHANGED <<attempts, brand, identity_links, link_tokens, next_link, events,
                     seen_orders, failures>>

\* What her wallet tells a consumer: the points of a programme, counted here in
\* credits.
PointsOf(c, programme) ==
  Cardinality({claim \in Claims : points_credits[claim] # Nobody
                 /\ points_credits[claim].consumer = c /\ points_credits[claim].programme = programme})

-----------------------------------------------------------------------------
LinkingInit ==
  /\ attempts = [a \in Attempts |-> Nobody]
  /\ codes = [a \in Attempts |-> Nobody]
  /\ refresh_tokens = [a \in Attempts |-> Nobody]
  /\ identity_links = [l \in LinkIds |-> Nobody]
  /\ link_tokens = [l \in LinkIds |-> Nobody]
  /\ next_link = 1
  /\ linked = [l \in LinkIds |-> 0] /\ unlinked = [l \in LinkIds |-> 0]
  /\ work = [w \in Workers |-> Resting]
  /\ seen_orders = {}
  /\ points_credits = [claim \in Claims |-> Nobody]
  /\ failures = 0

LinkingStep(w) ==
  \/ Exchange(w) \/ NoSuchCode(w) \/ SealTokens(w) \/ PersistLink(w) \/ AppendLinked(w)
  \/ RevokeAtBrand(w) \/ DropTokens(w) \/ AppendUnlinked(w)
  \/ ChooseLink(w) \/ CreditAtBrand(w) \/ RecordCredit(w)
  \/ Fail(w)

LinkingNext ==
  \/ \E a \in Attempts :
       \/ \E c \in People : \/ \E programme \in Programmes : StartOAuth(a, c, programme)
                            \/ \E m \in Members : StartHosted(a, c, m)
       \/ \E m \in Members : Consent(a, m)
       \/ AttemptExpires(a)
       \/ CodeExpires(a)
  \/ \E w \in Workers :
       \/ \E c \in People, a \in Attempts :
            VerifyHosted(w, c, a) \/ \E code \in Attempts : Callback(w, c, a, code)
       \/ \E c \in People, l \in LinkIds : Unlink(w, c, l)
       \/ \E claim \in Claims : DeliverClaim(w, claim)
       \/ LinkingStep(w)
  \/ CrashLinking

LinkingSpec == LinkingInit /\ [][LinkingNext]_linkingVars

-----------------------------------------------------------------------------
\* A link says what was agreed to: it comes from one attempt of its consumer,
\* used once, and its member is the one who approved under that attempt at the
\* brand, or whom the brand confirmed (state, PKCE and the one UPDATE).  And a
\* brand credits a conversion at most once, to a member its consumer had linked,
\* under redeliveries, crashes and lost answers (apply's two layers); her wallet
\* never tells her of points that the brand does not hold.
LinkedAsConsented ==
  /\ \A l, k \in LinkIds : identity_links[l] # Nobody /\ identity_links[k] # Nobody
       /\ identity_links[l].attempt = identity_links[k].attempt => l = k
  /\ \A l \in LinkIds : identity_links[l] # Nobody =>
       LET row == identity_links[l]  attempt == attempts[row.attempt]
       IN  /\ attempt.consumer = row.consumer /\ ~attempt.open
           /\ Programme[row.sub] = row.programme
           /\ attempt.kind = "hosted" => row.sub = attempt.member
           /\ attempt.kind = "oauth" => /\ codes[row.attempt] # Nobody
                                       /\ row.sub = codes[row.attempt].sub
  /\ \A l \in LinkIds :
       /\ linked[l] <= 1 /\ unlinked[l] <= 1
       /\ linked[l] = 1 => identity_links[l] # Nobody
       /\ unlinked[l] = 1 => identity_links[l].status = "revoked" /\ link_tokens[l] = Nobody
  /\ \A o, p \in seen_orders : o.programme = p.programme /\ o.claim = p.claim => o = p
  /\ \A o \in seen_orders : \E l \in LinkIds :
       /\ identity_links[l] # Nobody
       /\ identity_links[l].consumer = Owner[o.claim] /\ identity_links[l].sub = o.member
  /\ \A c \in People, programme \in Programmes :
       PointsOf(c, programme) <=
         Cardinality({o \in seen_orders : o.programme = programme /\ Owner[o.claim] = c})

===============================================================================
