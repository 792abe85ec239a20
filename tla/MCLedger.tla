------------------------------- MODULE MCLedger -------------------------------
(***************************************************************************)
(* The ledger and the projections over it for TLC.  The projections        *)
(* framework runs over the ledger's own table; the analytics, which are    *)
(* about what the events say, over a ledger of typed events.  A behaviour  *)
(* runs one part.                                                          *)
(***************************************************************************)
EXTENDS Projections, Analytics, SequencesExt, TLC

CONSTANTS t1, t2, m1, Parts

VARIABLE part

-----------------------------------------------------------------------------
\* A share of one merchant's orders and a fixed bounty of another's.
MCTerms == ("com1" :> [merchant |-> "aurora", bounty |-> [type |-> "pct_of_order", pct_bps |-> 5000]])
        @@ ("com2" :> [merchant |-> "brio", bounty |-> [type |-> "fixed", amount |-> 2]])
MCTokenOf == ("j1" :> [commitment |-> "com1", agent |-> "a"])
          @@ ("j2" :> [commitment |-> "com2", agent |-> "b"])
MCClaimOf == ("k1" :> [merchant |-> "aurora", jti |-> "j1", gross |-> 3])
          @@ ("k2" :> [merchant |-> "brio", jti |-> NotThere, gross |-> 7])

-----------------------------------------------------------------------------
ledgerVars == <<vars, projection>>
readerVars == <<part, ledgerVars, analyticsVars>>

ReadersInit == part \in Parts /\ ProjectedInit /\ AnalyticsInit

ReadersNext ==
  \/ part = "projections" /\ ProjectedNext /\ UNCHANGED <<part, analyticsVars>>
  \/ part = "analytics" /\ AnalyticsNext /\ UNCHANGED <<part, ledgerVars>>

OnlyProjection == part = "projections" /\ UNCHANGED <<part, vars, analyticsVars>>
OnlyAnalytics == part = "analytics" /\ UNCHANGED <<part, ledgerVars>>

\* The timers fire, and a query or a transaction that every cycle and every
\* poll tries again succeeds in the end.
ReadersFairness ==
  /\ \A w \in Workers :
       /\ WF_readerVars(OnlyProjection /\ StartCycle(w))
       /\ SF_readerVars(OnlyProjection /\ ReadCursor(w))
       /\ SF_readerVars(OnlyProjection /\ FetchBatch(w))
       /\ SF_readerVars(OnlyProjection /\ ApplyWithCursor(w))
       /\ SF_readerVars(OnlyProjection /\ Drain(w))
       /\ SF_readerVars(OnlyProjection /\ Deliver(w))
  /\ WF_readerVars(OnlyAnalytics /\ MonitorStep)

FairReaders == ReadersInit /\ [][ReadersNext]_readerVars /\ ReadersFairness

\* Readers catch up with a ledger that rests, whatever crashed, was lost or was
\* rebuilt on the way: a projection has applied every event (framework.ts,
\* subscriber.ts), and the badge of every merchant with a mint or a claim in the
\* window is the one it deserves, whatever it was before
\* (mint-vs-claim-monitor.integration.test.ts:169 "no sticky alerts").
ReadersCatchUp == (part = "projections" => EventuallyProjected) /\ BadgesSettle

=============================================================================
