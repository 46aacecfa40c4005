----------------------------- MODULE AnalysisCycle -----------------------------
(***************************************************************************)
(* The three cycles together on one clock and one database, and the        *)
(* process that runs them, which stops and starts again at any time.       *)
(***************************************************************************)
EXTENDS CexFlowPoller, AnomalyEngine, LlmBriefing

CONSTANTS
  Started,      \* the coroutines of this instance: main starts them by the keys
  MaxRestarts   \* bounds the restarts

ASSUME CycleAssumption ==
  /\ Started \subseteq {"cex_flows", "anomaly_engine", "llm_decision_engine"}
  /\ MaxRestarts \in Nat

VARIABLE restarts

tables == <<rows, flows, scores, briefs>>
vars == <<clock, tables, cex, busy, eng, llm, restarts>>

Init ==
  /\ ClockInit
  /\ cex = CexAsleep
  /\ busy = {FirstBucket}
  /\ eng = EngineStart
  /\ llm = LlmAsleep
  /\ restarts = 0

TimePasses ==
  /\ Tick
  /\ busy' = IF bucket' = bucket THEN busy ELSE busy \union CexMisses
  /\ UNCHANGED <<tables, cex, eng, llm, restarts>>

Market ==
  /\ \E b \in Buckets, s \in Symbols : MarketRow(b, s)
  /\ UNCHANGED <<cex, busy, eng, llm, restarts>>

\* The tables stay; the coroutines begin anew.
Restart ==
  /\ restarts < MaxRestarts
  /\ restarts' = restarts + 1
  /\ cex' = CexAsleep
  /\ eng' = EngineStart
  /\ llm' = LlmAsleep
  /\ busy' = busy \union {bucket}
                   \union (IF cex.pc = "poll" THEN {cex.target + 1} ELSE {})
  /\ UNCHANGED <<clock, tables>>

Poller ==
  /\ "cex_flows" \in Started
  /\ CexWake \/ CexStore \/ CexNothing
  /\ UNCHANGED <<eng, llm, restarts>>

EngineReads == EngineWake \/ EngineFetch \/ EngineFails \/ EngineStartsOver

Engine ==
  /\ "anomaly_engine" \in Started
  /\ \/ EngineReads /\ UNCHANGED scores
     \/ EngineStore
  /\ UNCHANGED <<clock, rows, flows, briefs, cex, busy, llm, restarts>>

LlmReads == \/ LlmWake \/ LlmGetsSequence \/ LlmHasNoHistory \/ LlmWaits
            \/ LlmQueryFails \/ LlmStoreFails \/ LlmAborts

Briefing ==
  /\ "llm_decision_engine" \in Started
  /\ \/ LlmReads /\ UNCHANGED briefs
     \/ LlmStore
  /\ UNCHANGED <<clock, rows, flows, scores, cex, busy, eng, restarts>>

Next == TimePasses \/ Market \/ Restart \/ Poller \/ Engine \/ Briefing

Spec == Init /\ [][Next]_vars

\* asyncio runs what can run, and every await of an engine that is not asleep ends,
\* with a result or an exception: nothing says that a failing query ever succeeds.
FairSpec ==
  /\ Spec
  /\ WF_vars(Briefing /\ llm.pc # "sleep")
  /\ WF_vars(Engine /\ eng.pc # "sleep")

-----------------------------------------------------------------------------
(* Properties.                                                             *)

TypeOK ==
  /\ bucket \in FirstBucket .. LastBucket /\ phase \in 0 .. Window - 1
  /\ {rows, scores, briefs} \subseteq SUBSET (Buckets \X Symbols)
  /\ flows \in [Buckets -> {"unpolled", "nothing"} \union Stored]
  /\ cex \in [pc : {"sleep", "poll"}, wake : Nat, target : Nat]
  /\ busy \subseteq Nat
  /\ eng \in [pc : {"sleep", "fetch", "infer", "raised"}, sym : Symbols, wake : Nat,
              scored : Nat, flow : BOOLEAN]
  /\ llm \in [pc : {"sleep", "fetch", "infer"}, sym : Symbols, wake : Nat,
              expected : Nat, tries : 0 .. MaxRetries - 1, latest : Nat]
  /\ restarts \in 0 .. MaxRestarts

\* Every score is of SeqLen buckets in a row that all have a row of the market,
\* whatever is missing elsewhere and however late rows came.
NoScoreOverGap ==
  \A e \in scores : \A i \in 0 .. SeqLen - 1 : <<e[1] - i, e[2]>> \in rows

\* The poller never comes to a bucket that has its flow row: rows are final,
\* across restarts too ("zero partial entry overwrites").
FlowRowsAreFinal == cex.pc = "poll" => flows[cex.target] \notin Stored

\* A bucket is left out by the poller only when the poller was busy at the
\* boundary of its turn, slept through that turn or was restarted during it.
FlowGapOnlyIfBusy ==
  \A b \in FirstBucket .. bucket - 2 :
    \/ flows[b] # "unpolled"
    \/ b + 1 \in busy
    \/ cex.pc = "poll" /\ cex.target = b

\* A flow row that was stored before the engine's offset is in every score of
\* its bucket by a cycle that was put off to a later bucket (the padding "to allow
\* slower NLP and CEX poller tasks to settle").
SettledFlowIsSeen ==
  /\ eng.pc = "infer"
  /\ eng.wake > eng.scored
  /\ flows[eng.scored] = "prompt"
  => eng.flow

\* No briefing is made twice: the bucket that is being briefed has none yet,
\* over slow cycles, retries past a boundary and restarts ("to prevent
\* timeline-drift duplicates").
NoSecondBrief == llm.pc = "infer" => <<llm.latest, llm.sym>> \notin briefs

\* One try block around all symbols: an exception costs the whole cycle, and what
\* starves a symbol is exactly a failure that repeats for ever at an earlier one.
\* Any other symbol has its turn after an exception, and unless some symbol fails
\* for ever (the loop then spins without a sleep) a cycle ends.
EngineRecovers ==
  /\ \A s \in Symbols :
       (eng.pc = "raised" ~> eng.sym = s) \/ \E t \in 1 .. s - 1 : []<>Raised(t)
  /\ (eng.pc # "sleep" ~> eng.pc = "sleep") \/ \E t \in Symbols : []<>Raised(t)

\* A cycle of briefings ends, also when the expected buckets never come.
BriefingEnds == llm.pc # "sleep" ~> llm.pc = "sleep"
=============================================================================
