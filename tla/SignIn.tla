-------------------------------- MODULE SignIn ---------------------------------
(***************************************************************************)
(* How consumers get in: the wallet's magic links and sessions (auth/      *)
(* magic-link.ts, auth/session.ts) behind its two limiters.  A cookie is   *)
(* signed, so it stands for the session it was made for.                   *)
(***************************************************************************)
EXTENDS Integers, FiniteSets, RateLimiter

CONSTANTS
  Ips, Emails, Browsers,
  Links,          \* bound: tokens of links; numbers, used in order
  PerIp, PerEmail,    \* the two limiters
  LinkTtl, SessionTtl,
  MaxRequests,    \* bound: requests for a link
  MaxSignInTime,  \* bound of the clock
  Unset

ASSUME LimitersAssumption ==
  {PerIp, PerEmail} \subseteq [window : Nat \ {0}, limit : Nat \ {0}, maxKeys : Nat]

VARIABLES
  clock,
  windows,        \* the map of each limiter, in the memory of its process
  evicted,        \* history: a window that counts mails was lost to a flood or a restart
  mails,          \* history: the times at which links were mailed to each email
  magic_links,    \* wallet.magic_links by token
  consumers,      \* the emails in wallet.consumers; the email stands for its reference
  verifying,      \* the verify requests in flight: the step and the link
  sessions,       \* wallet.sessions: each with the link it was made from
  requests        \* how many links were asked for

signInVars == <<clock, windows, evicted, mails, magic_links, consumers, verifying,
                sessions, requests>>

Waiting == [step |-> "idle", link |-> Unset]

\* Both limiters must allow the attempt; neither is spared the other's refusal.
allowMagicLink(ip, email) ==
  Allowed(PerIp, windows.ip, ip, clock) /\ Allowed(PerEmail, windows.email, email, clock)

\* The token's hash is stored and the token is mailed; the mail may fail.
SendLink(email, link) ==
  \E sent \in BOOLEAN :
    /\ magic_links' = [magic_links EXCEPT ![link] =
         [email |-> email, expires_at |-> clock + LinkTtl, consumed |-> FALSE, sent |-> sent]]
    /\ mails' = IF sent THEN [mails EXCEPT ![email] = @ \cup {<<link, clock>>}] ELSE mails

\* Both limiters count the attempt; one beyond the cap is dropped with the same
\* answer.
RequestLink(ip, email, link) ==
  /\ requests < MaxRequests /\ requests' = requests + 1
  /\ magic_links[link] = Unset /\ \A l \in Links : l < link => magic_links[l] # Unset
  /\ \E byIp \in Counted(PerIp, windows.ip, ip, clock),
        byEmail \in Counted(PerEmail, windows.email, email, clock) :
       /\ windows' = [windows EXCEPT !.ip = byIp, !.email = byEmail]
       /\ evicted' = (evicted \/ \E e \in DOMAIN windows.email \ DOMAIN byEmail :
                                   ~Expired(PerEmail, windows.email, e, clock))
  /\ IF allowMagicLink(ip, email) THEN SendLink(email, link) ELSE UNCHANGED <<magic_links, mails>>
  /\ UNCHANGED <<clock, consumers, verifying, sessions>>

\* One statement finds the token unexpired and unused, and uses it up.
ConsumeLink(b, link) ==
  /\ verifying[b].step = "idle" /\ magic_links[link] # Unset /\ magic_links[link].sent
  /\ ~magic_links[link].consumed /\ magic_links[link].expires_at > clock
  /\ magic_links' = [magic_links EXCEPT ![link].consumed = TRUE]
  /\ verifying' = [verifying EXCEPT ![b] = [step |-> "upsert", link |-> link]]
  /\ UNCHANGED <<clock, windows, evicted, mails, consumers, sessions, requests>>

\* ON CONFLICT (email): the row of the address, whoever inserted it.
UpsertConsumer(b) ==
  /\ verifying[b].step = "upsert"
  /\ consumers' = consumers \cup {magic_links[verifying[b].link].email}
  /\ verifying' = [verifying EXCEPT ![b].step = "mint"]
  /\ UNCHANGED <<clock, windows, evicted, mails, magic_links, sessions, requests>>

\* A fresh session, whatever cookie the browser presented.
MintSession(b) ==
  /\ verifying[b].step = "mint"
  /\ sessions' = sessions \cup
       {[browser |-> b, link |-> verifying[b].link, expires_at |-> clock + SessionTtl,
         consumer |-> magic_links[verifying[b].link].email]}
  /\ verifying' = [verifying EXCEPT ![b] = Waiting]
  /\ UNCHANGED <<clock, windows, evicted, mails, magic_links, consumers, requests>>

\* validate reads the row of every request; an expired one counts for nothing.
Valid(session) == session.expires_at > clock

Logout(session) ==
  /\ session \in sessions /\ Valid(session)
  /\ sessions' = sessions \ {session}
  /\ UNCHANGED <<clock, windows, evicted, mails, magic_links, consumers, verifying,
                 requests>>

\* A restart forgets the windows and the requests in flight.
RestartSignIn ==
  /\ evicted' = TRUE
  /\ windows' = [ip |-> NoWindows, email |-> NoWindows]
  /\ verifying' = [b \in Browsers |-> Waiting]
  /\ UNCHANGED <<clock, mails, magic_links, consumers, sessions, requests>>

SignInTick ==
  /\ clock < MaxSignInTime
  /\ clock' = clock + 1
  /\ UNCHANGED <<windows, evicted, mails, magic_links, consumers, verifying, sessions,
                 requests>>

SignInInit ==
  /\ clock = 0 /\ evicted = FALSE /\ requests = 0
  /\ windows = [ip |-> NoWindows, email |-> NoWindows]
  /\ mails = [e \in Emails |-> {}]
  /\ magic_links = [l \in Links |-> Unset]
  /\ consumers = {} /\ sessions = {}
  /\ verifying = [b \in Browsers |-> Waiting]

SignInNext ==
  \/ \E ip \in Ips, email \in Emails, link \in Links : RequestLink(ip, email, link)
  \/ \E b \in Browsers : \/ \E link \in Links : ConsumeLink(b, link)
                         \/ UpsertConsumer(b)
                         \/ MintSession(b)
  \/ \E session \in sessions : Logout(session)
  \/ RestartSignIn
  \/ SignInTick

SignInSpec == SignInInit /\ [][SignInNext]_signInVars

-----------------------------------------------------------------------------
\* The maps stay below their cap, and as long as no live window was lost to
\* the cap or to a restart an address gets no more mails in a window than the
\* limit says (W4: no email bombing, no unbounded map).
MailIsThrottled ==
  /\ Cardinality(DOMAIN windows.ip) <= PerIp.maxKeys
  /\ Cardinality(DOMAIN windows.email) <= PerEmail.maxKeys
  /\ ~evicted => \A e \in DOMAIN windows.email :
       Cardinality({m \in mails[e] : m[2] >= windows.email[e].windowStart}) <= PerEmail.limit

===============================================================================
