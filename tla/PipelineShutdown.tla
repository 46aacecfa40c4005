---------------------------- MODULE PipelineShutdown ----------------------------
(***************************************************************************)
(* The ingestion pipelines (run_pipeline_loop: listener, queue, processor, *)
(* periodic flusher) under the orchestrator (main._run_all), from start to *)
(* the end of the process.                                                 *)
(*                                                                         *)
(* All of it runs on one event loop, so a step is what runs between two    *)
(* awaits.  A cancelled task does nothing after the request but its own    *)
(* finally clauses, so cancelling a listener or a processor ends it.       *)
(* Callbacks run in the order in which they were scheduled: the            *)
(* orchestrator waits on the stop event before any pipeline runs, hence it *)
(* is the first to wake, before a pipeline can finish an await it began    *)
(* after the event was set.                                                *)
(***************************************************************************)
EXTENDS Naturals, FiniteSets

CONSTANTS
  Pipelines,   \* the streams run by run_pipeline_loop: trades, order book
  MaxItems,    \* bound: items a listener receives in a behaviour
  QueueMax,    \* maxsize of a pipeline's queue
  Crashes      \* which tasks may end with an exception

ASSUME ConstantsAssumption ==
  /\ MaxItems \in Nat
  /\ QueueMax \in Nat \ {0}
  /\ Crashes \subseteq {"listener", "processor"}

VARIABLES
  stop,        \* the shared asyncio.Event
  orch,        \* where _run_all is
  loop,        \* where each run_pipeline_loop is
  cancelled,   \* a CancelledError is on its way to run_pipeline_loop
  listener,    \* the listener task
  processor,   \* the processor task
  queue,       \* items put and not yet marked done
  open,        \* items in the aggregator's open buckets
  sent         \* items put so far

vars == <<stop, orch, loop, cancelled, listener, processor, queue, open, sent>>

Orch == {"waiting",    \* await stop.wait()
         "gathering",  \* pipelines cancelled, await gather(*tasks)
         "settling",   \* await sleep(1.0)
         "closed",     \* sink flushed, scheduler stopped, pool closed
         "exited"}     \* asyncio.run cancelled what was left

Loop == {"waiting",    \* await asyncio.wait(...)
         "gather",     \* finally: await gather(listener, flusher)
         "join",       \* finally: await queue.join()
         "done"}

\* "returned" on its own, "crashed" with an exception, or "cancelled".
Task == {"running", "returned", "crashed", "cancelled"}

Init ==
  /\ stop = FALSE
  /\ orch = "waiting"
  /\ loop = [p \in Pipelines |-> "waiting"]
  /\ cancelled = [p \in Pipelines |-> FALSE]
  /\ listener = [p \in Pipelines |-> "running"]
  /\ processor = [p \in Pipelines |-> "running"]
  /\ queue = [p \in Pipelines |-> 0]
  /\ open = [p \in Pipelines |-> 0]
  /\ sent = [p \in Pipelines |-> 0]

Cancel(task) == IF task = "running" THEN "cancelled" ELSE task

-----------------------------------------------------------------------------
(* Listener, processor and flusher.                                        *)

\* put waits while the queue is full; the listener looks at the stop event
\* only after the put.
Put(p) ==
  /\ listener[p] = "running"
  /\ queue[p] < QueueMax
  /\ sent[p] < MaxItems
  /\ queue' = [queue EXCEPT ![p] = @ + 1]
  /\ sent' = [sent EXCEPT ![p] = @ + 1]
  /\ listener' = [listener EXCEPT ![p] = IF stop THEN "returned" ELSE "running"]
  /\ UNCHANGED <<stop, orch, loop, cancelled, processor, open>>

\* A receive that timed out, a refused connection or a pause: back at the
\* loop's condition.
ListenerReturn(p) ==
  /\ listener[p] = "running"
  /\ stop
  /\ listener' = [listener EXCEPT ![p] = "returned"]
  /\ UNCHANGED <<stop, orch, loop, cancelled, processor, queue, open, sent>>

\* Any exception the reconnect loop does not name ends the task.
ListenerCrash(p) ==
  /\ "listener" \in Crashes
  /\ listener[p] = "running"
  /\ listener' = [listener EXCEPT ![p] = "crashed"]
  /\ UNCHANGED <<stop, orch, loop, cancelled, processor, queue, open, sent>>

\* get, sink.write and task_done without an await in between: the item is in
\* an open bucket; the aggregator may flush the buckets before it.
Process(p) ==
  /\ processor[p] = "running"
  /\ queue[p] > 0
  /\ queue' = [queue EXCEPT ![p] = @ - 1]
  /\ open' \in {[open EXCEPT ![p] = @ + 1], [open EXCEPT ![p] = 1]}
  /\ UNCHANGED <<stop, orch, loop, cancelled, listener, processor, sent>>

\* sink.write raises: task_done still runs, the task ends.
ProcessorCrash(p) ==
  /\ "processor" \in Crashes
  /\ processor[p] = "running"
  /\ queue[p] > 0
  /\ queue' = [queue EXCEPT ![p] = @ - 1]
  /\ processor' = [processor EXCEPT ![p] = "crashed"]
  /\ UNCHANGED <<stop, orch, loop, cancelled, listener, open, sent>>

\* get timed out and the loop's condition no longer holds.
ProcessorReturn(p) ==
  /\ processor[p] = "running"
  /\ stop
  /\ queue[p] = 0
  /\ processor' = [processor EXCEPT ![p] = "returned"]
  /\ UNCHANGED <<stop, orch, loop, cancelled, listener, queue, open, sent>>

\* The periodic flusher lives until run_pipeline_loop cancels it.
FlusherTick(p) ==
  /\ loop[p] = "waiting"
  /\ open[p] > 0
  /\ open' = [open EXCEPT ![p] = 0]
  /\ UNCHANGED <<stop, orch, loop, cancelled, listener, processor, queue, sent>>

-----------------------------------------------------------------------------
(* run_pipeline_loop.                                                      *)

Crashed(p) == listener[p] = "crashed" \/ processor[p] = "crashed"

\* Entering the finally block: the listener (and the flusher) is cancelled.
EnterFinally(p) ==
  /\ loop' = [loop EXCEPT ![p] = "gather"]
  /\ listener' = [listener EXCEPT ![p] = Cancel(@)]
  /\ UNCHANGED <<orch, processor, queue, open, sent>>

\* Fault: the crash is logged and the event is not set.
FailFastQuietly(p) ==
  /\ loop[p] = "waiting"
  /\ ~cancelled[p]
  /\ Crashed(p)
  /\ EnterFinally(p)
  /\ UNCHANGED <<stop, cancelled>>

\* asyncio.wait returned because a task ended: the event stops everyone.
FailFast(p) ==
  /\ loop[p] = "waiting"
  /\ ~cancelled[p]
  /\ Crashed(p)
  /\ stop' = TRUE
  /\ EnterFinally(p)
  /\ UNCHANGED cancelled

\* The orchestrator's cancellation reaches asyncio.wait.
CancelledWaiting(p) ==
  /\ loop[p] = "waiting"
  /\ cancelled[p]
  /\ cancelled' = [cancelled EXCEPT ![p] = FALSE]
  /\ EnterFinally(p)
  /\ UNCHANGED stop

\* The cancellation reaches the finally block instead: the rest of it, queue
\* and processor included, is skipped.
AbortDrain(p) ==
  /\ loop[p] = "gather"
  /\ cancelled[p]
  /\ cancelled' = [cancelled EXCEPT ![p] = FALSE]
  /\ loop' = [loop EXCEPT ![p] = "done"]
  /\ UNCHANGED <<stop, orch, listener, processor, queue, open, sent>>

Gathered(p) ==
  /\ loop[p] = "gather"
  /\ ~cancelled[p]
  /\ orch # "waiting"
  /\ loop' = [loop EXCEPT ![p] = "join"]
  /\ UNCHANGED <<stop, orch, cancelled, listener, processor, queue, open, sent>>

\* Fault: the queue is not joined.
JoinedAtOnce(p) ==
  /\ loop[p] = "join"
  /\ processor' = [processor EXCEPT ![p] = Cancel(@)]
  /\ loop' = [loop EXCEPT ![p] = "done"]
  /\ UNCHANGED <<stop, orch, cancelled, listener, queue, open, sent>>

\* Every item put was marked done: the processor is cancelled and awaited.
Joined(p) ==
  /\ loop[p] = "join"
  /\ queue[p] = 0
  /\ processor' = [processor EXCEPT ![p] = Cancel(@)]
  /\ loop' = [loop EXCEPT ![p] = "done"]
  /\ UNCHANGED <<stop, orch, cancelled, listener, queue, open, sent>>

-----------------------------------------------------------------------------
(* The orchestrator.                                                       *)

Signal ==
  /\ ~stop
  /\ stop' = TRUE
  /\ UNCHANGED <<orch, loop, cancelled, listener, processor, queue, open, sent>>

\* Fault: the tasks are awaited without being cancelled.
GatherOnly ==
  /\ orch = "waiting"
  /\ stop
  /\ orch' = "gathering"
  /\ UNCHANGED <<stop, loop, cancelled, listener, processor, queue, open, sent>>

CancelPipelines ==
  /\ orch = "waiting"
  /\ stop
  /\ orch' = "gathering"
  /\ cancelled' = [p \in Pipelines |-> loop[p] # "done"]
  /\ UNCHANGED <<stop, loop, listener, processor, queue, open, sent>>

PipelinesDone ==
  /\ orch = "gathering"
  /\ \A p \in Pipelines : loop[p] = "done"
  /\ orch' = "settling"
  /\ UNCHANGED <<stop, loop, cancelled, listener, processor, queue, open, sent>>

\* timescale_sink.close, shutdown_retraining_scheduler and close_pool: no await.
CloseSink ==
  /\ orch = "settling"
  /\ orch' = "closed"
  /\ open' = [p \in Pipelines |-> 0]
  /\ UNCHANGED <<stop, loop, cancelled, listener, processor, queue, sent>>

Exit ==
  /\ orch = "closed"
  /\ orch' = "exited"
  /\ listener' = [p \in Pipelines |-> Cancel(listener[p])]
  /\ processor' = [p \in Pipelines |-> Cancel(processor[p])]
  /\ UNCHANGED <<stop, loop, cancelled, queue, open, sent>>

PipelineStep(p) ==
  FailFast(p) \/ CancelledWaiting(p) \/ AbortDrain(p) \/ Gathered(p) \/ Joined(p)

ProcessorStep(p) == Process(p) \/ ProcessorCrash(p) \/ ProcessorReturn(p)

OrchStep == CancelPipelines \/ PipelinesDone \/ CloseSink \/ Exit

Next ==
  \/ \E p \in Pipelines :
       \/ Put(p) \/ ListenerReturn(p) \/ ListenerCrash(p) \/ FlusherTick(p)
       \/ ProcessorStep(p)
       \/ PipelineStep(p)
  \/ Signal
  \/ OrchStep

Spec == Init /\ [][Next]_vars

\* The event loop runs whatever is ready.  Signals, crashes and incoming data
\* are up to the environment.
Fairness ==
  /\ \A p \in Pipelines : WF_vars(ProcessorStep(p)) /\ WF_vars(PipelineStep(p))
  /\ WF_vars(OrchStep)

FairSpec == Spec /\ Fairness
-----------------------------------------------------------------------------
(* Properties.                                                             *)

\* Types; the queue never exceeds its maxsize.
TypeOK ==
  /\ stop \in BOOLEAN
  /\ orch \in Orch
  /\ loop \in [Pipelines -> Loop]
  /\ cancelled \in [Pipelines -> BOOLEAN]
  /\ listener \in [Pipelines -> Task]
  /\ processor \in [Pipelines -> Task]
  /\ queue \in [Pipelines -> 0 .. QueueMax]
  /\ open \in [Pipelines -> Nat]
  /\ sent \in [Pipelines -> 0 .. MaxItems]

\* A pipeline none of whose tasks crashed is drained before the sink is closed,
\* also when the stop comes from the crash of another one: nothing is left in
\* its queue, its processor is gone, and after the flush nothing is open.
CleanPipelineLosesNothing ==
  \A p \in Pipelines : ~Crashed(p) =>
    /\ orch \in {"settling", "closed", "exited"} => queue[p] = 0 /\ processor[p] # "running"
    /\ orch \in {"closed", "exited"} => open[p] = 0

\* Once the sink has been flushed, something is open only where the listener
\* crashed: there the drain was aborted and the processor left behind.
OnlyAListenerCrashLeavesOpenBuckets ==
  orch \in {"closed", "exited"} =>
    \A p \in Pipelines : open[p] > 0 => listener[p] = "crashed"

\* A task that dies stops the program (run_pipeline_loop: "fail fast if listener
\* or processor terminates early").
CrashStopsEverything == \A p \in Pipelines : Crashed(p) ~> stop

JoinStuck(p) == loop[p] = "join" /\ queue[p] > 0 /\ processor[p] # "running"

\* A stop is followed by the end of the process, unless some pipeline waits in
\* queue.join() for a processor that is gone: nothing else can block it.
ShutdownEndsUnlessJoinStuck ==
  stop ~> (orch = "exited" \/ \E p \in Pipelines : JoinStuck(p))

\* README: teardown is a hierarchy with a grace period and synchronous flushes,
\* so a stop is followed by the end of the process.  Without any crash, the
\* processor may return between the stop and the listener's last put: the item
\* is never marked done and queue.join() waits for ever.
ShutdownCompletes == stop ~> orch = "exited"
=============================================================================
