------------------------------ MODULE LlmBriefing ------------------------------
(***************************************************************************)
(* The coroutine that has a language model explain the scores: it sleeps   *)
(* until after a boundary, then briefs one symbol after the other.  It     *)
(* waits for the score of the bucket that ended there, in a bounded number *)
(* of tries.                                                               *)
(***************************************************************************)
EXTENDS MarketClock

CONSTANT MaxRetries   \* max_retries, 10

ASSUME RetriesAssumption == MaxRetries \in Nat \ {0}

VARIABLE
  llm   \* sym: position in TRACKED_SYMBOLS; expected: expected_dt; tries:
        \* attempts made; latest: latest_bucket of the context

LlmAt(pc, sym, wake, expected) ==
  [pc |-> pc, sym |-> sym, wake |-> wake, expected |-> expected,
   tries |-> 0, latest |-> 0]

LlmAsleep == LlmAt("sleep", 1, bucket + 1, 0)

\* fetch_12_candle_sequence(symbol) fixes the expected bucket when it is called.
LlmTurn(sym) == LlmAt("fetch", sym, 0, bucket - 1)

LlmWake ==
  /\ llm.pc = "sleep"
  /\ Reached(llm.wake, LlmOffset)
  /\ llm' = LlmTurn(1)

LlmNext == llm' = IF llm.sym < NSymbols THEN LlmTurn(llm.sym + 1) ELSE LlmAsleep

\* The sequence: the last SeqLen scores of the symbol.
Sequence == Newest(SeqLen, Of(scores, llm.sym))

Enough == Cardinality(Sequence) >= SeqLen

\* Fault: any history will do.
LlmGetsAnySequence ==
  /\ llm.pc = "fetch"
  /\ Enough
  /\ llm' = [llm EXCEPT !.pc = "infer", !.latest = Last(Sequence),
                      !.expected = 0, !.tries = 0]

\* The database has caught up with the expected bucket.
LlmGetsSequence ==
  /\ llm.pc = "fetch"
  /\ Enough
  /\ Last(Sequence) >= llm.expected
  /\ llm' = [llm EXCEPT !.pc = "infer", !.latest = Last(Sequence),
                      !.expected = 0, !.tries = 0]

LlmHasNoHistory == llm.pc = "fetch" /\ ~Enough /\ LlmNext

\* Fault: the failsafe is forgotten.
RetryForEver == llm' = [llm EXCEPT !.tries = 0]

Retry ==
  IF llm.tries + 1 < MaxRetries THEN llm' = [llm EXCEPT !.tries = @ + 1] ELSE LlmNext

\* The expected bucket is not there yet.
LlmWaits ==
  /\ llm.pc = "fetch"
  /\ Enough
  /\ Last(Sequence) < llm.expected
  /\ Retry

\* The query raises.
LlmQueryFails == llm.pc = "fetch" /\ Retry

\* Ollama's answer, or the fallback text in its place, is upserted.
LlmStore ==
  /\ llm.pc = "infer"
  /\ briefs' = briefs \union {<<llm.latest, llm.sym>>}
  /\ LlmNext

\* The upsert raises; that is logged.
LlmStoreFails == llm.pc = "infer" /\ LlmNext

\* Any other exception ends the cycle.
LlmAborts == llm.pc = "infer" /\ llm' = LlmAsleep
=============================================================================
