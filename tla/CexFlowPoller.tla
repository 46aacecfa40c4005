----------------------------- MODULE CexFlowPoller -----------------------------
(***************************************************************************)
(* The coroutine that polls the flows to and from the exchanges: it sleeps *)
(* until shortly after a boundary and stores the rows of the bucket that   *)
(* ended there.  How a row is computed is in FlowRows.                     *)
(***************************************************************************)
EXTENDS MarketClock

VARIABLES
  cex,   \* where the coroutine stands
  busy   \* history: buckets that began while it was not asleep until them,
         \* that it slept through, or in which the process started

\* Fault: the padding is added before the rest of the bucket is computed.
CexAsleepTooLong == [pc |-> "sleep", wake |-> bucket + 2, target |-> 0]

\* Fault: the sleep is reckoned from the boundary that has just passed.
CexAsleepUntilNow == [pc |-> "sleep", wake |-> bucket, target |-> 0]

CexAsleep == [pc |-> "sleep", wake |-> bucket + 1, target |-> 0]

CexPolling == [pc |-> "poll", wake |-> 0, target |-> bucket - 1]

CexWake ==
  /\ cex.pc = "sleep"
  /\ Reached(cex.wake, CexOffset)
  /\ cex' = CexPolling
  /\ UNCHANGED <<clock, rows, flows, scores, briefs, busy>>

CexSleeps(outcome) ==
  /\ cex.pc = "poll"
  /\ flows' = [flows EXCEPT ![cex.target] = outcome]
  /\ cex' = CexAsleep
  /\ UNCHANGED <<clock, rows, scores, briefs, busy>>

\* The queries have been answered and the batch is committed.
CexStore ==
  CexSleeps(IF bucket = cex.target + 1 /\ phase < EngineOffset
              THEN "prompt" ELSE "late")

\* No transfers, queries that failed, or a batch that was not committed.
CexNothing ==
  LET old == flows[cex.target]
  IN CexSleeps(IF old = "unpolled" THEN "nothing" ELSE old)

\* The part of busy that the next boundary adds.
CexMisses ==
  CASE cex.pc = "poll" -> {bucket + 1}
    [] cex.pc = "sleep" /\ cex.wake <= bucket -> {bucket}
    [] OTHER -> {}
=============================================================================
