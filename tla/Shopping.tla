-------------------------------- MODULE Shopping --------------------------------
(***************************************************************************)
(* The valet around its errands: the brief it makes of a text               *)
(* (interpreter/), the identity it registers on first use                   *)
(* (ports/quote-client.ts), the quote it takes, and the checkout of an      *)
(* errand over one of four rails, with the shop behind the rail and the     *)
(* core behind the shop.  What a driver does between quote and checkout is  *)
(* in Errand.                                                              *)
(*                                                                         *)
(* Processes of the valet may overlap once its identity is stored; the      *)
(* first use is by one process at a time, which may die anywhere.           *)
(***************************************************************************)
EXTENDS Integers, Sequences, FiniteSets

CONSTANTS
  Valets,        \* processes of the valet
  Wants,         \* errands that can be begun
  Texts,         \* what is asked: pounds and the digits of the pence, or NoPrice
  Replies,       \* what the model answers, NoModel if it was not asked or did not answer
  Flags4Max,     \* values of --max-pence, and NoPrice
  Prices,        \* final amounts the core quotes
  Rails,         \* the rails of this deployment, of which one is used
  MaxAttempts,   \* of a webhook of the shop
  MaxQuoted, MaxSold, MaxClock, MaxMishaps,  \* bounds
  NoPrice, NoModel, Nil

\* The row of an errand.
WantRows == [agent : Nat, ceiling : Int \cup {NoPrice}, quote : Nat \cup {Nil}, barren : BOOLEAN]

ASSUME ShoppingAssumption ==
  /\ Texts \subseteq [pounds : Nat, digits : Seq(0 .. 9)] \cup {NoPrice}
  /\ Replies \subseteq [search : STRING, max : Int \cup {NoPrice}] \cup {NoModel}
  /\ Flags4Max \subseteq Int \cup {NoPrice}
  /\ Nil \notin Int /\ Nil \notin Wants /\ Nil \notin WantRows

VARIABLES
  credentials,     \* valet.agent_credentials: the stored identity
  registered,      \* how many agents the core has registered for the valet
  valets,          \* the processes
  wants,           \* the errand rows: agent, ceiling and quote
  quoted,          \* the core's quotes: owner and amount
  rail,
  confirmations,   \* what the shop remembers, by errand
  order_seq,       \* its order numbers
  sending,         \* the webhooks it is delivering
  taken_in,        \* core.idempotency_keys: the request admitted under each key
  told,            \* the confirmations that valets were given
  shop_clock, mishaps

shopVars == <<confirmations, order_seq, sending>>
identity == <<credentials, registered>>
asked == <<wants, quoted, rail>>
shopTime == <<shop_clock, mishaps>>
shoppingVars == <<identity, valets, asked, shopVars, taken_in, told, shopTime>>

-----------------------------------------------------------------------------
\* The brief.

\* "£95.5": one digit after the point is tens of pence.
priceCeilingFrom(text) ==
  IF text = NoPrice THEN NoPrice
  ELSE text.pounds * 100 + (IF Len(text.digits) > 0 THEN 10 * text.digits[1] ELSE 0)
                         + (IF Len(text.digits) > 1 THEN text.digits[2] ELSE 0)

\* The model's answer is used if it names a search and no or a sound maximum.
UsableReply(reply) ==
  /\ reply # NoModel
  /\ reply.search # ""
  /\ reply.max = NoPrice \/ reply.max >= 0

interpret(text, reply) ==
  IF UsableReply(reply) THEN reply.max ELSE priceCeilingFrom(text)

\* An explicit --max-pence wins over what was interpreted.
CeilingOf(text, reply, flag) == IF flag # NoPrice THEN flag ELSE interpret(text, reply)

-----------------------------------------------------------------------------
\* A process and its identity.

Off == [step |-> "off", held |-> Nil, want |-> Nil, ceiling |-> NoPrice]
In(p, step) == valets[p].step = step
To(p, step) == valets' = [valets EXCEPT ![p].step = step]
QuoteFor(p) == wants[valets[p].want].quote

\* A new errand, or one that is resumed; of one whose search found nothing the
\* driver makes nothing more.
Launch(p) ==
  /\ In(p, "off")
  /\ credentials # Nil \/ \A o \in Valets : In(o, "off")
  /\ \/ \E text \in Texts, reply \in Replies, flag \in Flags4Max :
          valets' = [valets EXCEPT ![p] =
            [Off EXCEPT !.step = "load", !.ceiling = CeilingOf(text, reply, flag)]]
     \/ \E w \in Wants :
          /\ wants[w] # Nil /\ ~wants[w].barren
          /\ valets' = [valets EXCEPT ![p] = [Off EXCEPT !.step = "load", !.want = w]]
  /\ UNCHANGED <<identity, asked, shopVars, taken_in, told, shopTime>>

\* Where a process goes on, the identity once found.
NextFor(w) == IF w = Nil THEN "create" ELSE IF wants[w].quote = Nil THEN "search" ELSE "buy"

LoadCredentials(p) ==
  /\ In(p, "load")
  /\ IF credentials = Nil THEN To(p, "register")
     ELSE valets' = [valets EXCEPT ![p].held = credentials, ![p].step = NextFor(valets[p].want)]
  /\ UNCHANGED <<identity, asked, shopVars, taken_in, told, shopTime>>

Register(p) ==
  /\ In(p, "register")
  /\ registered' = registered + 1
  /\ valets' = [valets EXCEPT ![p].held = registered', ![p].step = "save"]
  /\ UNCHANGED <<credentials, asked, shopVars, taken_in, told, shopTime>>

\* save: ON CONFLICT the latest identity stands.
StoreCredentials(held) == credentials' = held

SaveCredentials(p) ==
  /\ In(p, "save")
  /\ StoreCredentials(valets[p].held)
  /\ To(p, NextFor(valets[p].want))
  /\ UNCHANGED <<registered, asked, shopVars, taken_in, told, shopTime>>

startErrand(p) ==
  /\ In(p, "create")
  /\ \E w \in Wants :
       /\ wants[w] = Nil /\ \A v \in Wants : v < w => wants[v] # Nil
       /\ wants' = [wants EXCEPT ![w] = [agent |-> valets[p].held, ceiling |-> valets[p].ceiling,
                                         quote |-> Nil, barren |-> FALSE]]
       /\ valets' = [valets EXCEPT ![p].step = "search", ![p].want = w]
  /\ UNCHANGED <<identity, quoted, rail, shopVars, taken_in, told, shopTime>>

Within(amount, ceiling) == ceiling = NoPrice \/ amount <= ceiling

\* One read of the offers for a term of the brief: the core mints what it ranks.
Mint(p, amounts) ==
  quoted' = quoted \o [i \in DOMAIN amounts |-> [owner |-> valets[p].held, amount |-> amounts[i]]]

\* The first quote within the ceiling is taken; of two drivers the first records
\* his (Errand).  Without one the next term is tried, or the search has failed.
TakeQuote(p, q) ==
  LET w == valets[p].want IN
  IF wants[w].quote = Nil /\ ~wants[w].barren
    THEN wants' = [wants EXCEPT ![w].quote = q] /\ To(p, "buy")
    ELSE UNCHANGED wants /\ valets' = [valets EXCEPT ![p] = Off]

ReadOffers(p) ==
  /\ In(p, "search")
  /\ \E n \in 0 .. 2 : \E amounts \in [1 .. n -> Prices] :
       LET fit == {i \in 1 .. n : Within(amounts[i], wants[valets[p].want].ceiling)}
           top == CHOOSE i \in fit : \A j \in fit : i <= j
       IN  /\ Len(quoted) + n <= MaxQuoted
           /\ Mint(p, amounts)
           /\ IF fit # {} THEN TakeQuote(p, Len(quoted) + top)
              ELSE UNCHANGED <<wants, valets>>
  /\ UNCHANGED <<identity, rail, shopVars, taken_in, told, shopTime>>

SearchFails(p) ==
  LET w == valets[p].want IN
  /\ In(p, "search")
  /\ wants' = [wants EXCEPT ![w].barren = @ \/ wants[w].quote = Nil]
  /\ valets' = [valets EXCEPT ![p] = Off]
  /\ UNCHANGED <<identity, quoted, rail, shopVars, taken_in, told, shopTime>>

-----------------------------------------------------------------------------
\* The core admits a request under its key, or knows it.

\* Mutant of SameRequest: the hash of the request is not compared.
AnyRequest(key, body) == TRUE

SameRequest(key, body) == taken_in[key] = body

Accepted(key, body) == IF key \in DOMAIN taken_in THEN SameRequest(key, body) ELSE TRUE

TakeIn(key, body) ==
  taken_in' = IF key \in DOMAIN taken_in THEN taken_in
              ELSE [k \in DOMAIN taken_in \cup {key} |-> IF k = key THEN body ELSE taken_in[k]]

Body(w, at) == [want |-> w, token |-> wants[w].quote, at |-> at]

-----------------------------------------------------------------------------
\* The rails.  Two of them are the platform themselves: the purchase and the
\* callback to the core are one call, stamped with the time of the call.

Tell(w, number, webhook) == told' = told \cup {[want |-> w, number |-> number, webhook |-> webhook]}

\* The order number is a function of the errand.
CallBack(p, scheme) ==
  LET w == valets[p].want  key == <<scheme, w>>  body == Body(w, shop_clock) IN
  /\ TakeIn(key, body)
  /\ \/ /\ Accepted(key, body)
        /\ Tell(w, w, "delivered") /\ To(p, "poll")
     \/ UNCHANGED told /\ valets' = [valets EXCEPT ![p] = Off]
  /\ UNCHANGED <<identity, asked, shopVars, shopTime>>

ucpCheckout(p) == In(p, "buy") /\ rail = "ucp" /\ CallBack(p, "ucp")
acpCheckout(p) == In(p, "buy") /\ rail = "acp" /\ CallBack(p, "acp")

\* The catalogue has no product for the brief, or the shop does not know it.
NothingToBuy(p) ==
  /\ In(p, "buy")
  /\ valets' = [valets EXCEPT ![p] = Off]
  /\ UNCHANGED <<identity, asked, shopVars, taken_in, told, shopTime>>

\* A shop replays what it remembers under the errand's key, or takes an order.
\* FakeShop's webhooks are keyed by its order number and sent three times, those
\* of the simulated Shopify store by the errand's key and sent once.
PlaceOrder(p, key, tries) ==
  LET w == valets[p].want IN
  IF confirmations[w] # Nil
    THEN /\ Tell(w, confirmations[w].number, confirmations[w].webhook)
         /\ To(p, "poll")
         /\ UNCHANGED shopVars
    ELSE /\ order_seq < MaxSold
         /\ order_seq' = order_seq + 1
         /\ sending' = sending \cup {[want |-> w, number |-> order_seq', key |-> key,
                                      body |-> Body(w, shop_clock), left |-> tries, to |-> p]}
         /\ To(p, "wait")
         /\ UNCHANGED <<told, confirmations>>

fakeShopCheckout(p) ==
  /\ In(p, "buy") /\ rail = "fakeshop"
  /\ PlaceOrder(p, <<"fakeshop", order_seq + 1>>, MaxAttempts)
  /\ UNCHANGED <<identity, asked, taken_in, shopTime>>

shopifyCheckout(p) ==
  /\ In(p, "buy") /\ rail = "shopify"
  /\ PlaceOrder(p, <<"shopify", valets[p].want>>, 1)
  /\ UNCHANGED <<identity, asked, taken_in, shopTime>>

\* An order is settled: the confirmation is remembered and goes to the valet
\* that placed it, if he still waits for it.
Settle(d, webhook) ==
  /\ confirmations' = [confirmations EXCEPT ![d.want] = [number |-> d.number, webhook |-> webhook]]
  /\ IF In(d.to, "wait") /\ valets[d.to].want = d.want
       THEN Tell(d.want, d.number, webhook) /\ To(d.to, "poll")
       ELSE UNCHANGED <<told, valets>>

\* FakeShop can be told to drop webhooks.
DropWebhook(d) ==
  /\ rail = "fakeshop" /\ d.left = MaxAttempts
  /\ sending' = sending \ {d}
  /\ Settle(d, "dropped")
  /\ UNCHANGED <<identity, asked, order_seq, taken_in, shopTime>>

\* An attempt: the core takes the order in or refuses it, and its answer
\* arrives or is lost; or the attempt does not reach it.
DeliverWebhook(d) ==
  \/ /\ TakeIn(d.key, d.body)
     /\ Accepted(d.key, d.body)
     /\ sending' = sending \ {d}
     /\ Settle(d, "delivered")
     /\ UNCHANGED <<identity, asked, order_seq, shopTime>>
  \/ /\ TakeIn(d.key, d.body) \/ UNCHANGED taken_in
     /\ IF d.left > 1
          THEN /\ sending' = (sending \ {d}) \cup {[d EXCEPT !.left = @ - 1]}
               /\ UNCHANGED <<confirmations, told, valets>>
          ELSE sending' = sending \ {d} /\ Settle(d, "failed")
     /\ UNCHANGED <<identity, asked, order_seq, shopTime>>

\* The owner of a quote polls it for the verdict; anybody else is refused.
MayPoll(p) == quoted[QuoteFor(p)].owner = valets[p].held

PollVerdict(p) ==
  /\ In(p, "poll")
  /\ valets' = [valets EXCEPT ![p] = Off]
  /\ UNCHANGED <<identity, asked, shopVars, taken_in, told, shopTime>>

\* A process dies, or a call it waits for times out.
KillValet(p) ==
  /\ ~In(p, "off") /\ mishaps < MaxMishaps
  /\ mishaps' = mishaps + 1
  /\ valets' = [valets EXCEPT ![p] = Off]
  /\ UNCHANGED <<identity, asked, shopVars, taken_in, told, shop_clock>>

\* What a shop knows it knows in memory, its order numbers included.
RestartShop ==
  /\ mishaps < MaxMishaps /\ order_seq > 0
  /\ mishaps' = mishaps + 1
  /\ order_seq' = 0 /\ sending' = {}
  /\ confirmations' = [w \in Wants |-> Nil]
  /\ valets' = [p \in Valets |-> IF In(p, "wait") THEN Off ELSE valets[p]]
  /\ UNCHANGED <<identity, asked, taken_in, told, shop_clock>>

TickShop ==
  /\ shop_clock < MaxClock
  /\ shop_clock' = shop_clock + 1
  /\ UNCHANGED <<identity, valets, asked, shopVars, taken_in, told, mishaps>>

-----------------------------------------------------------------------------
ShoppingInit ==
  /\ credentials = Nil /\ registered = 0
  /\ valets = [p \in Valets |-> Off]
  /\ wants = [w \in Wants |-> Nil]
  /\ quoted = <<>>
  /\ rail \in Rails
  /\ confirmations = [w \in Wants |-> Nil] /\ order_seq = 0 /\ sending = {}
  /\ taken_in = <<>> /\ told = {}
  /\ shop_clock = 0 /\ mishaps = 0

ShoppingNext ==
  \/ \E p \in Valets :
       \/ Launch(p) \/ LoadCredentials(p) \/ Register(p) \/ SaveCredentials(p)
       \/ startErrand(p) \/ ReadOffers(p) \/ SearchFails(p) \/ NothingToBuy(p)
       \/ ucpCheckout(p) \/ acpCheckout(p) \/ fakeShopCheckout(p) \/ shopifyCheckout(p)
       \/ PollVerdict(p) \/ KillValet(p)
  \/ \E d \in sending : DropWebhook(d) \/ DeliverWebhook(d)
  \/ RestartShop \/ TickShop

ShoppingSpec == ShoppingInit /\ [][ShoppingNext]_shoppingVars

-----------------------------------------------------------------------------
\* What is bought for an errand is what was asked for, wherever a process died
\* or a shop restarted on the way: its quote is within the ceiling of its row
\* and belongs to the identity every later process of the valet uses, which
\* alone may ask for the verdict (quote-client.ts, "every later run reuses the
\* stored identity"); and when a rail calls an order delivered, the core has
\* taken it in with the errand's own token, although a restarted shop gives old
\* order numbers, and with them old keys, to new orders.
BoughtAsAsked ==
  /\ \A w \in Wants :
       wants[w] # Nil =>
         /\ wants[w].agent = credentials
         /\ wants[w].quote # Nil =>
              /\ quoted[wants[w].quote].owner = credentials
              /\ Within(quoted[wants[w].quote].amount, wants[w].ceiling)
  /\ \A p \in Valets : In(p, "poll") => MayPoll(p)
  /\ \A t \in told :
       t.webhook = "delivered" =>
         \E key \in DOMAIN taken_in :
           taken_in[key].want = t.want /\ taken_in[key].token = wants[t.want].quote

=============================================================================
