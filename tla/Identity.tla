-------------------------------- MODULE Identity --------------------------------
(***************************************************************************)
(* Who a shopper is for the core (core identity/): the links of the wallet  *)
(* and the seeded members, looked up by each signal of the request while    *)
(* the wallet links and unlinks, and the tier resolved from what was found. *)
(*                                                                         *)
(* sub_hash and the tokenised member_ref of a link are functions of the     *)
(* member and stand for him.  A seeded row has a member_ref of its own, and *)
(* its sub_hash is derived otherwise, so that neither is ever a link's; its *)
(* first digits are those of the member_ref of a link of the same member.   *)
(***************************************************************************)
EXTENDS Integers, Sequences, FiniteSets

CONSTANTS
  Persons,      \* consumers of the wallet
  Subs,         \* members of the brand's programme
  SeededRows,   \* core.aurora_club_members: [ref, hash, sub, consumer, gold, active]
  Hashes,       \* hashed emails
  Contexts,     \* what a request can carry, by signal, and Unknown where nothing is
  Readers,      \* requests being resolved by one process of the core
  MaxLinked,    \* bound: links ever made
  MaxReads,     \* bound: requests ever resolved
  Unknown

KnownLinks == [consumer : Persons, sub : Subs, active : BOOLEAN]

\* References are numbers in the order of their text.
ASSUME SeededAssumption ==
  \A row \in SeededRows :
    row.ref \in Nat /\ row.gold \in BOOLEAN /\ row.active \in BOOLEAN

ASSUME ContextsAssumption ==
  \A ctx \in Contexts : ctx[4] \in Hashes \cup {Unknown}

Signals == <<"consumer_ref", "sub_hash", "member_ref">>
Slots == {1, 2, 3}

VARIABLES
  wallet_schema,    \* whether the wallet's tables exist
  rows,             \* wallet.identity_links in the order of linked_at
  available,        \* what the link reader of the process remembers of its probe
  soft_identities,  \* core.soft_identities: "none", "once", "again" by hash
  resolving,        \* the requests in flight
  reads

identityVars == <<wallet_schema, rows, available, soft_identities, resolving, reads>>

Column(link, s) == IF s = 1 THEN link.consumer ELSE link.sub
SeededColumn(row, s) == IF s = 1 THEN row.consumer ELSE IF s = 2 THEN row.hash ELSE row.ref

NewestLink(s, value) ==
  LET own == {l \in DOMAIN rows : Column(rows[l], s) = value}
  IN  IF own = {} \/ value = Unknown THEN Unknown
      ELSE rows[CHOOSE l \in own : \A k \in own : k <= l]

NotAsked == [ctx |-> Unknown]
LookUpIs(r, s, place) == resolving[r] # NotAsked /\ resolving[r].at[s] = place

-----------------------------------------------------------------------------
\* The wallet.

\* A link changes what every request in flight that names it may still find.
Disturb(link) ==
  resolving' = [r \in Readers |->
    IF resolving[r] = NotAsked THEN NotAsked
    ELSE [resolving[r] EXCEPT !.moved =
            @ \cup {s \in Slots : Column(link, s) = resolving[r].ctx[s]}]]

InsertLink(c, m) ==
  /\ wallet_schema /\ Len(rows) < MaxLinked
  /\ rows' = Append(rows, [consumer |-> c, sub |-> m, active |-> TRUE])
  /\ Disturb(rows'[Len(rows')])
  /\ UNCHANGED <<wallet_schema, available, soft_identities, reads>>

RevokeLink(l) ==
  /\ l \in DOMAIN rows /\ rows[l].active
  /\ rows' = [rows EXCEPT ![l].active = FALSE]
  /\ Disturb(rows[l])
  /\ UNCHANGED <<wallet_schema, available, soft_identities, reads>>

\* The wallet's migrations may run after the core has started.
MigrateWallet ==
  /\ ~wallet_schema /\ wallet_schema' = TRUE
  /\ UNCHANGED <<rows, available, soft_identities, resolving, reads>>

-----------------------------------------------------------------------------
\* A request of the core.

touchSoftIdentity(h) ==
  /\ soft_identities' = [soft_identities EXCEPT ![h] = IF @ = "none" THEN "once" ELSE "again"]
  /\ UNCHANGED <<wallet_schema, rows, available, resolving, reads>>

StatusOf(link) == IF link = Unknown THEN "none" ELSE IF link.active THEN "active" ELSE "revoked"

\* The look-ups of all signals start at once, each by asking whether the table
\* is there.  was and moved remember the links as the request found them.
BeginResolution(r, ctx) ==
  /\ resolving[r] = NotAsked /\ reads < MaxReads
  /\ reads' = reads + 1
  /\ resolving' = [resolving EXCEPT ![r] =
       [ctx |-> ctx,
        at |-> [s \in Slots |-> IF ctx[s] = Unknown THEN "answered"
                               ELSE IF available = "unknown" THEN "probe" ELSE "look"],
        there |-> [s \in Slots |-> available = "there"],
        found |-> [s \in Slots |-> Unknown],
        soft |-> IF ctx[4] = Unknown THEN "none" ELSE "unread",
        was |-> [s \in Slots |-> StatusOf(NewestLink(s, ctx[s]))], moved |-> {}]]
  /\ UNCHANGED <<wallet_schema, rows, available, soft_identities>>

\* The answer of to_regclass is on its way back; it is this look-up's answer, and
\* remembered for the next request: of two probes the later answer stands.
Probe(r, s) ==
  /\ LookUpIs(r, s, "probe")
  /\ resolving' = [resolving EXCEPT ![r].there[s] = wallet_schema, ![r].at[s] = "probed"]
  /\ UNCHANGED <<wallet_schema, rows, available, soft_identities, reads>>

RememberProbe(r, s) ==
  /\ LookUpIs(r, s, "probed")
  /\ available' = IF resolving[r].there[s] THEN "there" ELSE "absent"
  /\ resolving' = [resolving EXCEPT ![r].at[s] = "look"]
  /\ UNCHANGED <<wallet_schema, rows, soft_identities, reads>>

\* Mutant of linkBy: revoked links are passed over.
linkByActive(s, value) ==
  LET own == {l \in DOMAIN rows : Column(rows[l], s) = value /\ rows[l].active}
  IN  IF own = {} \/ value = Unknown THEN Unknown
      ELSE rows[CHOOSE l \in own : \A k \in own : k <= l]

\* The newest link of the signal, whatever its status.
linkBy(s, value) == NewestLink(s, value)

FoundMembers ==
  [sub : Subs \cup {row.sub : row \in SeededRows}, gold : BOOLEAN, active : BOOLEAN]
ASSUME UnknownAssumption ==
  /\ Unknown \notin Contexts /\ Unknown \notin KnownLinks /\ Unknown \notin FoundMembers

tierForLinkedMember(m) == \E row \in SeededRows : row.sub = m /\ row.gold

seededBy(s, value) ==
  LET own == {row \in SeededRows : SeededColumn(row, s) = value}
  IN  IF own = {} \/ value = Unknown THEN Unknown
      ELSE LET row == CHOOSE one \in own : \A other \in own : one.ref <= other.ref
           IN  [sub |-> row.sub, gold |-> row.gold, active |-> row.active]

\* A link is authoritative for its signal; the seeded row stands in for none.
memberBy(s, value, there) ==
  LET link == IF there THEN linkBy(s, value) ELSE Unknown
  IN  IF link = Unknown THEN seededBy(s, value)
      ELSE [sub |-> link.sub, gold |-> tierForLinkedMember(link.sub), active |-> link.active]

\* The look-ups are answered in any order.
LookUpMember(r, s) ==
  /\ LookUpIs(r, s, "look")
  /\ resolving' = [resolving EXCEPT
       ![r].at[s] = "answered",
       ![r].found[s] = memberBy(s, resolving[r].ctx[s], resolving[r].there[s])]
  /\ UNCHANGED <<wallet_schema, rows, available, soft_identities, reads>>

softIdentity(r) ==
  /\ resolving[r] # NotAsked /\ resolving[r].soft = "unread"
  /\ resolving' = [resolving EXCEPT ![r].soft = soft_identities[resolving[r].ctx[4]]]
  /\ UNCHANGED <<wallet_schema, rows, available, soft_identities, reads>>

segmentFor(tier, gold, returning) ==
  CASE tier = "T1" ->
         <<IF gold THEN "gold" ELSE "member", IF returning THEN "returning" ELSE "new">>
    [] tier = "T2" -> <<"t2", IF returning THEN "returning" ELSE "new">>
    [] OTHER       -> <<"t3", "acquisition">>

\* The first active match in the order of the signals; by says whose it was.
Verdict(tier, by, gold, soft) ==
  [tier |-> tier, by |-> by, segment |-> segmentFor(tier, gold, soft = "again")]

resolve(found, soft) ==
  LET active == {s \in Slots : found[s] # Unknown /\ found[s].active}
      first  == CHOOSE s \in active : \A t \in active : s <= t
  IN  IF active # {}       THEN Verdict("T1", first, found[first].gold, soft)
      ELSE IF soft # "none" THEN Verdict("T2", 0, FALSE, soft)
      ELSE Verdict("T3", 0, FALSE, soft)

Resolved(r) ==
  (\A s \in Slots : LookUpIs(r, s, "answered")) /\ resolving[r].soft # "unread"

AnswerResolution(r) ==
  /\ Resolved(r)
  /\ resolving' = [resolving EXCEPT ![r] = NotAsked]
  /\ UNCHANGED <<wallet_schema, rows, available, soft_identities, reads>>

RestartCore ==
  /\ available # "unknown"
  /\ available' = "unknown"
  /\ resolving' = [r \in Readers |-> NotAsked]
  /\ UNCHANGED <<wallet_schema, rows, soft_identities, reads>>

-----------------------------------------------------------------------------
IdentityInit ==
  /\ wallet_schema \in BOOLEAN
  /\ rows = <<>>
  /\ available = "unknown"
  /\ soft_identities = [h \in Hashes |-> "none"]
  /\ resolving = [r \in Readers |-> NotAsked]
  /\ reads = 0

IdentityNext ==
  \/ \E c \in Persons, m \in Subs : InsertLink(c, m)
  \/ \E l \in DOMAIN rows : RevokeLink(l)
  \/ MigrateWallet \/ RestartCore
  \/ \E h \in Hashes : soft_identities[h] # "again" /\ touchSoftIdentity(h)
  \/ \E r \in Readers :
       \/ \E ctx \in Contexts : BeginResolution(r, ctx)
       \/ \E s \in Slots : Probe(r, s) \/ RememberProbe(r, s) \/ LookUpMember(r, s)
       \/ softIdentity(r)
       \/ AnswerResolution(r)

-----------------------------------------------------------------------------
Answered(r) == resolve(resolving[r].found, resolving[r].soft)

\* However the look-ups fall between the links and unlinks of the wallet, the
\* answer is true of the links as they stood all along: a signal whose newest
\* link was revoked before the request came, and not linked since, gives nobody
\* T1, an older link or a seeded row of the signal notwithstanding (store.ts:
\* "a revoked link downgrades immediately"); a signal whose newest link was
\* active all along does; and Gold is the seeded tier of the member found
\* ("never an inflated one").
LinksAreAuthoritative ==
  \A r \in Readers :
    Resolved(r) /\ (\A s \in Slots : resolving[r].ctx[s] # Unknown => resolving[r].there[s]) =>
      LET answer == Answered(r)
          steady(status) == {s \in Slots \ resolving[r].moved : resolving[r].was[s] = status}
      IN  /\ answer.tier = "T1" => answer.by \notin steady("revoked")
          /\ steady("active") # {} =>
               answer.tier = "T1" /\ \A s \in steady("active") : answer.by <= s
          /\ answer.segment[1] = "gold" =>
               \E row \in SeededRows : row.gold /\ row.sub = resolving[r].found[answer.by].sub

=============================================================================
