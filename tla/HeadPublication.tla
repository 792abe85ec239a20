--------------------------- MODULE HeadPublication ---------------------------
(***************************************************************************)
(* The daily publication of the ledger head (packages/events/src/          *)
(* head-publisher.ts publishHead, driven by HeadPublicationJob in          *)
(* apps/core/src/modules/audit/head-publication-job.ts) and the check of   *)
(* the ledger against the published heads (verifyAgainstHeads), which the  *)
(* verify-chain command runs after a walk that found nothing wrong.        *)
(*                                                                         *)
(* The object store is external: put replaces the object under a key.      *)
(***************************************************************************)
EXTENDS EventLedger

CONSTANTS
  Publishers,   \* processes running the job; its ticks never overlap
  MaxDay        \* bound on the calendar

\* What the store holds under a day: the number and the hash of a row.
Objects == [seq : Nat, head_hash : Seq(Bodies)]

ASSUME DayAssumption == MaxDay \in Nat \ {0} /\ None \notin Objects

VARIABLES
  today,    \* the UTC day
  heads,    \* heads/<date>.json
  latest,   \* heads/latest.json
  posted,   \* the heads that went to the merchants' webhooks
  at,       \* where each publisher stands in publishHead
  date,     \* the date it works for
  head,     \* the head it read
  against   \* verifyAgainstHeads: the dates it has yet to check, what it found

publication == <<today, heads, latest, posted, at, date, head, against>>

\* The object store: put, get and list of the dated heads.
PutObject(d, body) == heads' = [heads EXCEPT ![d] = body]
GetObject(d) == heads[d]
ListObjects == {d \in 1..MaxDay : heads[d] # None}

Midnight ==
  /\ today < MaxDay
  /\ today' = today + 1
  /\ UNCHANGED <<heads, latest, posted, at, date, head, against>>

\* Mutant of StartPublication: the day's object is not looked up.
StartWithoutLookup(p) ==
  /\ at[p] = "idle"
  /\ date' = [date EXCEPT ![p] = today]
  /\ at' = [at EXCEPT ![p] = "head"]
  /\ UNCHANGED <<today, heads, latest, posted, head, against>>

\* A tick: the day's object is looked up, and a day that has one is done.
StartPublication(p) ==
  /\ at[p] = "idle"
  /\ GetObject(today) = None
  /\ date' = [date EXCEPT ![p] = today]
  /\ at' = [at EXCEPT ![p] = "head"]
  /\ UNCHANGED <<today, heads, latest, posted, head, against>>

\* Mutant of ReadHead: the head is read before the events are committed.
ReadUncommittedHead(p) ==
  /\ at[p] = "head"
  /\ \E t \in Transactions :
       /\ Visible(t) # {}
       /\ head' = [head EXCEPT ![p] = HeadOf(Visible(t))]
  /\ at' = [at EXCEPT ![p] = "put"]
  /\ UNCHANGED <<today, heads, latest, posted, date, against>>

\* currentHead; an empty ledger publishes nothing.
ReadHead(p) ==
  /\ at[p] = "head"
  /\ IF events = {}
     THEN /\ at' = [at EXCEPT ![p] = "idle"]
          /\ UNCHANGED head
     ELSE /\ at' = [at EXCEPT ![p] = "put"]
          /\ head' = [head EXCEPT ![p] = HeadOf(events)]
  /\ UNCHANGED <<today, heads, latest, posted, date, against>>

PutHead(p) ==
  /\ at[p] = "put"
  /\ PutObject(date[p], [seq |-> head[p].seq, head_hash |-> head[p].this_hash])
  /\ at' = [at EXCEPT ![p] = "latest"]
  /\ UNCHANGED <<today, latest, posted, date, head, against>>

\* The convenience pointer gets the same body.
PutLatest(p) ==
  /\ at[p] = "latest"
  /\ latest' = [date |-> date[p], seq |-> head[p].seq, head_hash |-> head[p].this_hash]
  /\ at' = [at EXCEPT ![p] = "post"]
  /\ UNCHANGED <<today, heads, posted, date, head, against>>

\* The webhooks of a new publication, best effort.
PostHead(p) ==
  /\ at[p] = "post"
  /\ posted' = posted \cup {[date |-> date[p], seq |-> head[p].seq, head_hash |-> head[p].this_hash]}
  /\ at' = [at EXCEPT ![p] = "idle"]
  /\ UNCHANGED <<today, heads, latest, date, head, against>>

\* A failed get, query, put or post, or a dead process; the next tick starts
\* over, and leaves a day that has its object as it is.
FailPublication(p) ==
  /\ at[p] # "idle"
  /\ at' = [at EXCEPT ![p] = "idle"]
  /\ UNCHANGED <<today, heads, latest, posted, date, head, against>>

-----------------------------------------------------------------------------
Unchecked == [todo |-> {}, result |-> "idle"]

\* The command goes on to the heads when the walk has ended well.
StartAgainstHeads ==
  /\ audit.result = "ok" /\ against.result # "checking"
  /\ against' = [todo |-> ListObjects, result |-> "checking"]
  /\ UNCHANGED <<today, heads, latest, posted, at, date, head>>

\* One object and the row it names; a row that is not there, or has another
\* hash, ends the check.
CheckHead ==
  /\ against.result = "checking"
  /\ \E d \in against.todo :
       /\ \A other \in against.todo : d <= other
       /\ against' = IF \E row \in events : /\ row.seq = GetObject(d).seq
                                             /\ row.this_hash = GetObject(d).head_hash
                       THEN [against EXCEPT !.todo = @ \ {d}]
                       ELSE [against EXCEPT !.result = "mismatch"]
  /\ UNCHANGED <<today, heads, latest, posted, at, date, head>>

FinishAgainstHeads ==
  /\ against.result = "checking" /\ against.todo = {}
  /\ against' = [against EXCEPT !.result = "cross-checked"]
  /\ UNCHANGED <<today, heads, latest, posted, at, date, head>>

-----------------------------------------------------------------------------
PublicationInit ==
  /\ today = 1
  /\ heads = [d \in 1..MaxDay |-> None]
  /\ latest = None /\ posted = {} /\ against = Unchecked
  /\ at = [p \in Publishers |-> "idle"]
  /\ date = [p \in Publishers |-> None]
  /\ head = [p \in Publishers |-> None]

PublicationStep ==
  \/ Midnight
  \/ \E p \in Publishers :
       \/ StartPublication(p) \/ ReadHead(p) \/ PutHead(p) \/ PutLatest(p)
       \/ PostHead(p) \/ FailPublication(p)
  \/ StartAgainstHeads \/ CheckHead \/ FinishAgainstHeads

PublishedInit == Init /\ PublicationInit

\* The job and the audit of the heads beside the transactions that append and
\* the walk of verifyChain.
PublishedNext ==
  \/ Next /\ UNCHANGED publication
  \/ PublicationStep /\ UNCHANGED vars

PublishedSpec == PublishedInit /\ [][PublishedNext]_<<vars, publication>>

-----------------------------------------------------------------------------
\* verifyAgainstHeads passes on an honest ledger, however its appends and the
\* job's ticks fall between its queries: every published head is a committed
\* row with that hash.
HeadsAreCommitted ==
  /\ against.result # "mismatch"
  /\ \A d \in 1..MaxDay : heads[d] # None =>
       \E row \in events :
         row.seq = heads[d].seq /\ row.this_hash = heads[d].head_hash

\* A published head is never rewritten, whatever is appended after it and
\* however often the job ticks or fails: what a webhook received, and what the
\* pointer says of its day, is the head of that day for ever (head-publisher.ts:12
\* "FIRST-WRITE-WINS").
NeverRewritten ==
  \A told \in posted \cup ({latest} \ {None}) :
    heads[told.date] = [seq |-> told.seq, head_hash |-> told.head_hash]

HeadsAnchorTheChain == HeadsAreCommitted /\ NeverRewritten

=============================================================================
