------------------------- MODULE PipelineShutdownProofs -------------------------
(***************************************************************************)
(* PipelineShutdown for any set of pipelines, any queue size, any number   *)
(* of items and any set of tasks that may crash.                           *)
(***************************************************************************)
EXTENDS PipelineShutdown, TLAPS

\* The inductive invariant, pipeline by pipeline.  The drain of a pipeline can
\* be aborted only by a cancellation that finds its loop in "gather", and that
\* happens only when the pipeline itself failed fast (AbortNeedsCrash): any
\* other loop leaves "waiting" by that very cancellation.
StopIsFirst == ~stop => orch = "waiting"

EarlyLoop(p) == orch = "waiting" =>
  /\ ~cancelled[p]
  /\ loop[p] \in {"waiting", "gather"}
  /\ loop[p] = "gather" => Crashed(p)

AbortNeedsCrash(p) == cancelled[p] =>
  /\ loop[p] \in {"waiting", "gather"}
  /\ loop[p] = "gather" => Crashed(p)

ListenerStopped(p) == loop[p] # "waiting" => listener[p] # "running"

Drained(p) == loop[p] = "done" =>
  /\ ~Crashed(p) => queue[p] = 0
  /\ processor[p] = "running" => listener[p] = "crashed"

Teardown(p) ==
  /\ orch \in {"settling", "closed", "exited"} => loop[p] = "done"
  /\ orch \in {"closed", "exited"} => open[p] = 0 \/ listener[p] = "crashed"

PipelineInv(p) ==
  /\ EarlyLoop(p)
  /\ AbortNeedsCrash(p)
  /\ ListenerStopped(p)
  /\ Drained(p)
  /\ Teardown(p)

Inv ==
  /\ TypeOK
  /\ StopIsFirst
  /\ \A p \in Pipelines : PipelineInv(p)

-----------------------------------------------------------------------------
\* The types are kept by every step.
LEMMA TypeStep == TypeOK /\ [Next]_vars => TypeOK'
<1> SUFFICES ASSUME TypeOK, [Next]_vars PROVE TypeOK'
  OBVIOUS
<1> USE ConstantsAssumption DEF TypeOK, Orch, Loop, Task, Cancel
<1>1. ASSUME NEW p \in Pipelines, Put(p) PROVE TypeOK'
  BY <1>1 DEF Put
<1>2. ASSUME NEW p \in Pipelines, ListenerReturn(p) PROVE TypeOK'
  BY <1>2 DEF ListenerReturn
<1>3. ASSUME NEW p \in Pipelines, ListenerCrash(p) PROVE TypeOK'
  BY <1>3 DEF ListenerCrash
<1>4. ASSUME NEW p \in Pipelines, FlusherTick(p) PROVE TypeOK'
  BY <1>4 DEF FlusherTick
<1>5. ASSUME NEW p \in Pipelines, Process(p) PROVE TypeOK'
  BY <1>5 DEF Process
<1>6. ASSUME NEW p \in Pipelines, ProcessorCrash(p) PROVE TypeOK'
  BY <1>6 DEF ProcessorCrash
<1>7. ASSUME NEW p \in Pipelines, ProcessorReturn(p) PROVE TypeOK'
  BY <1>7 DEF ProcessorReturn
<1>8. ASSUME NEW p \in Pipelines, FailFast(p) PROVE TypeOK'
  BY <1>8 DEF FailFast, EnterFinally
<1>9. ASSUME NEW p \in Pipelines, CancelledWaiting(p) PROVE TypeOK'
  BY <1>9 DEF CancelledWaiting, EnterFinally
<1>10. ASSUME NEW p \in Pipelines, AbortDrain(p) PROVE TypeOK'
  BY <1>10 DEF AbortDrain
<1>11. ASSUME NEW p \in Pipelines, Gathered(p) PROVE TypeOK'
  BY <1>11 DEF Gathered
<1>12. ASSUME NEW p \in Pipelines, Joined(p) PROVE TypeOK'
  BY <1>12 DEF Joined
<1>13. CASE Signal
  BY <1>13 DEF Signal
<1>14. CASE CancelPipelines
  BY <1>14 DEF CancelPipelines
<1>15. CASE PipelinesDone
  BY <1>15 DEF PipelinesDone
<1>16. CASE CloseSink
  BY <1>16 DEF CloseSink
<1>17. CASE Exit
  BY <1>17 DEF Exit
<1>18. CASE UNCHANGED vars
  BY <1>18 DEF vars
<1>. QED
  BY <1>1, <1>2, <1>3, <1>4, <1>5, <1>6, <1>7, <1>8, <1>9, <1>10, <1>11,
     <1>12, <1>13, <1>14, <1>15, <1>16, <1>17, <1>18
     DEF Next, ProcessorStep, PipelineStep, OrchStep

\* Nobody but the orchestrator leaves "waiting", and only after the stop.
LEMMA StopStep == StopIsFirst /\ [Next]_vars => StopIsFirst'
  BY DEF StopIsFirst, Next, vars, Put, ListenerReturn, ListenerCrash, FlusherTick,
     ProcessorStep, Process, ProcessorCrash, ProcessorReturn, PipelineStep,
     FailFast, CancelledWaiting, AbortDrain, Gathered, Joined, EnterFinally,
     Signal, OrchStep, CancelPipelines, PipelinesDone, CloseSink, Exit

\* A step of the tasks or the loop of a pipeline keeps the invariant of every
\* pipeline.
LEMMA PipelineStepKeeps ==
  ASSUME TypeOK, StopIsFirst, NEW p \in Pipelines, PipelineInv(p), NEW q \in Pipelines,
         \/ Put(q) \/ ListenerReturn(q) \/ ListenerCrash(q) \/ FlusherTick(q)
         \/ ProcessorStep(q) \/ PipelineStep(q)
  PROVE  PipelineInv(p)'
<1> USE ConstantsAssumption
    DEF PipelineInv, EarlyLoop, AbortNeedsCrash, ListenerStopped, Drained,
        Teardown, Crashed, TypeOK, Orch, Loop, Task, Cancel, StopIsFirst
<1>1. CASE Put(q)
  BY <1>1 DEF Put
<1>2. CASE ListenerReturn(q)
  BY <1>2 DEF ListenerReturn
<1>3. CASE ListenerCrash(q)
  BY <1>3 DEF ListenerCrash
<1>4. CASE FlusherTick(q)
  BY <1>4 DEF FlusherTick
<1>5. CASE Process(q)
  BY <1>5 DEF Process
<1>6. CASE ProcessorCrash(q)
  BY <1>6 DEF ProcessorCrash
<1>7. CASE ProcessorReturn(q)
  BY <1>7 DEF ProcessorReturn
<1>8. CASE FailFast(q)
  BY <1>8 DEF FailFast, EnterFinally
<1>9. CASE CancelledWaiting(q)
  BY <1>9 DEF CancelledWaiting, EnterFinally
<1>10. CASE AbortDrain(q)
  BY <1>10 DEF AbortDrain
<1>11. CASE Gathered(q)
  BY <1>11 DEF Gathered
<1>12. CASE Joined(q)
  BY <1>12 DEF Joined
<1>. QED
  BY <1>1, <1>2, <1>3, <1>4, <1>5, <1>6, <1>7, <1>8, <1>9, <1>10, <1>11, <1>12
     DEF ProcessorStep, PipelineStep

\* So does a step of the orchestrator or a signal.
LEMMA OrchestratorStepKeeps ==
  ASSUME TypeOK, StopIsFirst, NEW p \in Pipelines, PipelineInv(p),
         Signal \/ OrchStep
  PROVE  PipelineInv(p)'
<1> USE ConstantsAssumption
    DEF PipelineInv, EarlyLoop, AbortNeedsCrash, ListenerStopped, Drained,
        Teardown, Crashed, TypeOK, Orch, Loop, Task, Cancel, StopIsFirst
<1>1. CASE Signal
  BY <1>1 DEF Signal
<1>2. CASE CancelPipelines
  BY <1>2 DEF CancelPipelines
<1>3. CASE PipelinesDone
  BY <1>3 DEF PipelinesDone
<1>4. CASE CloseSink
  BY <1>4 DEF CloseSink
<1>5. CASE Exit
  BY <1>5 DEF Exit
<1>. QED
  BY <1>1, <1>2, <1>3, <1>4, <1>5 DEF OrchStep

LEMMA InvInit == Init => Inv
<1> SUFFICES ASSUME Init PROVE Inv
  OBVIOUS
<1>1. TypeOK
  <2>1. 0 \in Nat /\ 0 \in 0 .. QueueMax /\ 0 \in 0 .. MaxItems
    BY ConstantsAssumption
  <2>2. stop \in BOOLEAN /\ cancelled \in [Pipelines -> BOOLEAN]
    BY DEF Init
  <2>3. orch \in Orch /\ loop \in [Pipelines -> Loop]
    BY DEF Init, Orch, Loop
  <2>4. listener \in [Pipelines -> Task] /\ processor \in [Pipelines -> Task]
    BY DEF Init, Task
  <2>5. queue \in [Pipelines -> 0 .. QueueMax]
    BY <2>1 DEF Init
  <2>6. open \in [Pipelines -> Nat] /\ sent \in [Pipelines -> 0 .. MaxItems]
    BY <2>1 DEF Init
  <2>. QED
    BY <2>2, <2>3, <2>4, <2>5, <2>6 DEF TypeOK
<1>2. StopIsFirst
  BY DEF Init, StopIsFirst
<1>3. ASSUME NEW p \in Pipelines PROVE PipelineInv(p)
  <2>1. orch = "waiting" /\ loop[p] = "waiting" /\ cancelled[p] = FALSE
    BY DEF Init
  <2>. QED
    BY <2>1 DEF PipelineInv, EarlyLoop, AbortNeedsCrash, ListenerStopped, Drained, Teardown
<1>. QED
  BY <1>1, <1>2, <1>3 DEF Inv

LEMMA InvStep == Inv /\ [Next]_vars => Inv'
<1> SUFFICES ASSUME Inv, [Next]_vars PROVE Inv'
  OBVIOUS
<1>1. TypeOK' /\ StopIsFirst'
  BY TypeStep, StopStep DEF Inv
<1>2. ASSUME NEW p \in Pipelines PROVE PipelineInv(p)'
  <2>1. CASE UNCHANGED vars
    BY <2>1 DEF Inv, vars, PipelineInv, EarlyLoop, AbortNeedsCrash,
       ListenerStopped, Drained, Teardown, Crashed
  <2>2. CASE Next
    BY <2>2, PipelineStepKeeps, OrchestratorStepKeeps DEF Inv, Next
  <2>. QED
    BY <2>1, <2>2
<1>. QED
  BY <1>1, <1>2 DEF Inv

LEMMA InvAlways == Spec => []Inv
<1>. QED
  BY InvInit, InvStep, PTL DEF Spec

-----------------------------------------------------------------------------
\* The queue never exceeds its maxsize, whoever puts and gets.
THEOREM TypeCorrect == Spec => []TypeOK
<1>1. Inv => TypeOK
  BY DEF Inv
<1>. QED
  BY <1>1, InvAlways, PTL

\* Whatever happens to the other pipelines, one without a crash of its own is
\* drained, and flushed, before the program closes the sink.
THEOREM CleanPipelinesLoseNothing == Spec => []CleanPipelineLosesNothing
<1>1. Inv => CleanPipelineLosesNothing
  BY DEF Inv, PipelineInv, Teardown, Drained, CleanPipelineLosesNothing, Crashed
<1>. QED
  BY <1>1, InvAlways, PTL

\* Only a pipeline whose listener crashed still accumulates after the flush.
THEOREM OnlyListenerCrashesLoseData == Spec => []OnlyAListenerCrashLeavesOpenBuckets
<1>1. Inv => OnlyAListenerCrashLeavesOpenBuckets
  BY DEF Inv, TypeOK, PipelineInv, Teardown, OnlyAListenerCrashLeavesOpenBuckets
<1>. QED
  BY <1>1, InvAlways, PTL
=============================================================================
