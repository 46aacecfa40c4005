----------------------------- MODULE AnomalyEngine -----------------------------
(***************************************************************************)
(* The coroutine that scores the latest bucket of every symbol: at once    *)
(* when it starts, then after each boundary.  What a model computes, and   *)
(* which model it is, is left out (ModelArtifacts).                        *)
(***************************************************************************)
EXTENDS MarketClock

VARIABLE
  eng   \* sym: position in TRACKED_SYMBOLS; wake: the bucket this cycle, or the
        \* next, was put off to; scored: the last row of the window that is being
        \* scored; flow: whether it had a flow row

EngineAt(pc, sym, wake) ==
  [pc |-> pc, sym |-> sym, wake |-> wake, scored |-> 0, flow |-> FALSE]

EngineStart == EngineAt("fetch", 1, 0)

\* Fault: no padding after the boundary.
EngineWakeUnpadded ==
  /\ eng.pc = "sleep"
  /\ Reached(eng.wake, 0)
  /\ eng' = EngineAt("fetch", 1, eng.wake)

EngineWake ==
  /\ eng.pc = "sleep"
  /\ Reached(eng.wake, EngineOffset)
  /\ eng' = EngineAt("fetch", 1, eng.wake)

EngineNext ==
  eng' = IF eng.sym < NSymbols THEN EngineAt("fetch", eng.sym + 1, eng.wake)
                               ELSE EngineAt("sleep", 1, bucket + 1)

\* Fault: gaps are not looked for.
UsableWithGaps(S) == Cardinality(S) >= SeqLen

\* The window of a symbol: its last rows, when there are enough of them and no
\* two neighbours are further apart than a bucket.
Usable(S) ==
  /\ Cardinality(S) >= SeqLen
  /\ \A b \in S : b = Last(S) \/ b + 1 \in S

EngineFetch ==
  LET window == Newest(SeqLen, Of(rows, eng.sym))
  IN /\ eng.pc = "fetch"
     /\ IF Usable(window)
          THEN eng' = [eng EXCEPT !.pc = "infer",
                                  !.scored = Last(window),
                                  !.flow = flows[Last(window)] \in Stored]
          ELSE EngineNext

\* Inference in a worker thread, then the upsert.
EngineStore ==
  /\ eng.pc = "infer"
  /\ scores' = scores \union {<<eng.scored, eng.sym>>}
  /\ EngineNext

\* Fault: the try block is around the loop.
EngineFailsForGood ==
  /\ eng.pc \in {"fetch", "infer"}
  /\ eng' = [eng EXCEPT !.pc = "ended"]

\* A query or the inference raises, which is logged ...
EngineFails ==
  /\ eng.pc \in {"fetch", "infer"}
  /\ eng' = EngineAt("raised", eng.sym, eng.wake)

\* ... and the loop starts over with the first symbol, without a sleep.
EngineStartsOver ==
  /\ eng.pc = "raised"
  /\ eng' = EngineAt("fetch", 1, eng.wake)

Raised(s) == eng.pc = "raised" /\ eng.sym = s
=============================================================================
