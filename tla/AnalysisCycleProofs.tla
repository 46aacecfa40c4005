-------------------------- MODULE AnalysisCycleProofs --------------------------
(***************************************************************************)
(* AnalysisCycle for any symbols, window, offsets, lengths, any choice of  *)
(* coroutines and any number of restarts.                                  *)
(***************************************************************************)
EXTENDS AnalysisCycle, FiniteSetTheorems, WellFoundedInduction, TLAPS

LEMMA Constants ==
  /\ NSymbols \in Nat /\ NSymbols >= 1
  /\ Window \in Nat /\ Window >= 1
  /\ SeqLen \in Nat /\ SeqLen >= 1
  /\ CexOffset \in Nat /\ EngineOffset \in Nat /\ LlmOffset \in Nat
  /\ FirstBucket \in Nat /\ LastBucket \in Nat /\ MaxLag \in Nat
  /\ FirstBucket <= LastBucket
  /\ MaxRetries \in Nat /\ MaxRetries >= 1
  /\ MaxRestarts \in Nat
BY ClockAssumption, RetriesAssumption, CycleAssumption

-----------------------------------------------------------------------------
(* The newest buckets of a table.                                          *)

LEMMA GreatestExists ==
  ASSUME NEW S \in SUBSET Buckets, S # {}
  PROVE  \E b \in S : \A c \in S : c <= b
<1> DEFINE R == {p \in Nat \X Nat : p[1] < p[2]}
           T == {LastBucket - b : b \in S}
<1>1. IsWellFoundedOn(R, Nat)
  BY NatLessThanWellFounded DEF OpToRel
<1>2. T \subseteq Nat /\ T # {}
  <2>1. \A b \in S : b \in Nat /\ b <= LastBucket
    BY Constants DEF Buckets
  <2> QED BY <2>1, Constants
<1>3. PICK m \in T : \A n \in T : <<n, m>> \notin R
  <2> HIDE DEF R, T
  <2> QED BY <1>1, <1>2, WFMin
<1>4. PICK b \in S : m = LastBucket - b
  OBVIOUS
<1>5. ASSUME NEW c \in S PROVE c <= b
  <2>1. LastBucket - c \in T
    OBVIOUS
  <2>2. ~(LastBucket - c < m)
    BY <1>2, <1>3, <2>1
  <2> QED BY <1>4, <2>2, Constants DEF Buckets
<1> QED BY <1>5

LEMMA LastIsGreatest ==
  ASSUME NEW S \in SUBSET Buckets, S # {}
  PROVE  Last(S) \in S /\ \A c \in S : c <= Last(S)
BY GreatestExists DEF Last

LEMMA BucketsAreFinite ==
  ASSUME NEW S \in SUBSET Buckets
  PROVE  IsFiniteSet(S) /\ Cardinality(S) \in Nat
<1>1. IsFiniteSet(Buckets)
  BY FS_Interval, Constants DEF Buckets
<1> QED BY <1>1, FS_Subset, FS_CardinalityType

LEMMA NewestIsSome ==
  ASSUME NEW S \in SUBSET Buckets, NEW n \in Nat
  PROVE  Newest(n, S) \in SUBSET S
BY DEF Newest

\* A set with enough members is not empty, so it has a last one.
LEMMA EnoughHasLast ==
  ASSUME NEW S \in SUBSET Buckets, Cardinality(S) >= SeqLen
  PROVE  Last(S) \in S
<1>1. S # {}
  BY FS_EmptySet, Constants
<1> QED BY <1>1, LastIsGreatest

\* What the engine accepts is a run of at least SeqLen buckets.
LEMMA UsableIsRun ==
  ASSUME NEW S \in SUBSET Buckets, Usable(S), NEW i \in 0 .. SeqLen - 1
  PROVE  Last(S) - i \in S
<1> DEFINE hole == Last(S) - i
           below == {b \in S : b < hole}
<1>1. S # {}
  BY FS_EmptySet, Constants DEF Usable
<1>2. Last(S) \in S /\ \A c \in S : c <= Last(S)
  BY <1>1, LastIsGreatest
<1>3. SUFFICES ASSUME hole \notin S PROVE FALSE
  OBVIOUS
<1>4. Last(S) \in Nat /\ hole \in Int
  <2>1. Last(S) \in Buckets
    BY <1>2
  <2>2. Last(S) \in Nat
    BY <2>1 DEF Buckets
  <2>3. i \in Int
    BY Constants
  <2> QED BY <2>2, <2>3
<1>5. below = {}
  <2>1. SUFFICES ASSUME below # {} PROVE FALSE
    OBVIOUS
  <2>2. below \in SUBSET Buckets
    OBVIOUS
  <2>3. PICK b \in below : \A c \in below : c <= b
    BY <2>1, <2>2, GreatestExists
  <2>4. b \in S /\ b < hole /\ b \in Nat
    BY <2>2 DEF Buckets
  <2>5. b + 1 \in S
    BY <2>4, <1>4, Constants DEF Usable
  <2>6. b + 1 < hole
    BY <1>3, <1>4, <2>4, <2>5
  <2> QED BY <2>3, <2>4, <2>5, <2>6
<1>6. S \subseteq hole + 1 .. Last(S)
  <2>1. ASSUME NEW b \in S PROVE b \in hole + 1 .. Last(S)
    <3>1. b \in Nat /\ b <= Last(S)
      BY <1>2 DEF Buckets
    <3>2. ~(b < hole) /\ b # hole
      BY <1>3, <1>5
    <3> QED BY <1>4, <3>1, <3>2
  <2> QED BY <2>1
<1>7. Cardinality(hole + 1 .. Last(S)) <= i /\ IsFiniteSet(hole + 1 .. Last(S))
  <2>1. hole + 1 \in Int /\ Last(S) \in Int
    BY <1>4
  <2>2. /\ IsFiniteSet(hole + 1 .. Last(S))
        /\ Cardinality(hole + 1 .. Last(S))
             = IF hole + 1 > Last(S) THEN 0 ELSE Last(S) - (hole + 1) + 1
    BY <2>1, FS_Interval
  <2>3. i \in Nat
    BY Constants
  <2> QED BY <2>2, <2>3, <1>4
<1>8. Cardinality(S) <= Cardinality(hole + 1 .. Last(S))
  BY <1>6, <1>7, FS_Subset
<1>9. Cardinality(hole + 1 .. Last(S)) \in Nat
  BY <1>7, FS_CardinalityType
<1> QED BY <1>7, <1>8, <1>9, BucketsAreFinite, Constants DEF Usable

-----------------------------------------------------------------------------
(* The inductive invariant.                                                *)

StoredBelow(n) == \A b \in Buckets : flows[b] \in Stored => b < n

\* Where the poller stands, everything it has stored is of older buckets than
\* the one it comes to next; and when it was put off to the next boundary, it has
\* dealt with the bucket before this one, or the history says why not.
PollerInv ==
  /\ cex.pc = "sleep" =>
       /\ cex.wake \in 1 .. bucket + 1
       /\ StoredBelow(cex.wake - 1)
       /\ cex.wake = bucket + 1 =>
            \/ bucket \in busy
            \/ bucket >= 1 /\ flows[bucket - 1] # "unpolled"
  /\ cex.pc = "poll" =>
       /\ cex.target < bucket
       /\ StoredBelow(cex.target)
       /\ cex.target < bucket - 1 => bucket \in busy
  /\ FlowGapOnlyIfBusy

IsRun(b, s) == \A i \in 0 .. SeqLen - 1 : <<b - i, s>> \in rows

\* What is scored is a run of rows, and a cycle that was put off runs after the
\* offset of the bucket it was put off to.
EngineInv ==
  /\ \A e \in rows : e[1] < bucket
  /\ \A e \in scores : IsRun(e[1], e[2])
  /\ eng.pc = "infer" => IsRun(eng.scored, eng.sym)
  /\ eng.pc # "sleep" /\ eng.wake > 0 => Reached(eng.wake, EngineOffset)
  /\ SettledFlowIsSeen

\* Briefings of the symbols that are still to come.
AheadBelow(n) == \A e \in briefs : e[2] >= llm.sym => e[1] < n

\* Where the briefing stands, the symbols it has still to come to were not
\* briefed for the bucket that it will expect.
LlmInv ==
  /\ briefs \subseteq scores
  /\ llm.pc = "sleep" =>
       /\ llm.wake >= 1
       /\ \A e \in briefs : e[1] < llm.wake - 1
  /\ llm.pc # "sleep" => bucket >= 1 /\ AheadBelow(bucket - 1)
  /\ llm.pc = "fetch" => llm.expected <= bucket - 1 /\ AheadBelow(llm.expected)
  /\ llm.pc = "infer" => <<llm.latest, llm.sym>> \in scores /\ AheadBelow(llm.latest)

Inv == TypeOK /\ PollerInv /\ EngineInv /\ LlmInv

-----------------------------------------------------------------------------
(* Types.                                                                  *)

USE DEF clock, tables

CexTypes == [pc : {"sleep", "poll"}, wake : Nat, target : Nat]

EngineTypes ==
  [pc : {"sleep", "fetch", "infer", "raised"}, sym : Symbols, wake : Nat,
   scored : Nat, flow : BOOLEAN]

LlmTypes ==
  [pc : {"sleep", "fetch", "infer"}, sym : Symbols, wake : Nat,
   expected : Nat, tries : 0 .. MaxRetries - 1, latest : Nat]

LEMMA StateTypes ==
  ASSUME TypeOK
  PROVE  /\ bucket \in Nat /\ bucket \in Buckets /\ phase \in Nat
         /\ flows \in [Buckets -> {"unpolled", "nothing"} \union Stored]
         /\ busy \subseteq Nat
         /\ cex \in CexTypes
         /\ eng \in EngineTypes
         /\ llm \in LlmTypes
BY Constants DEF TypeOK, Buckets, CexTypes, EngineTypes, LlmTypes

LEMMA InitType == Init => TypeOK
BY Constants DEF Init, ClockInit, TypeOK, CexAsleep, EngineStart, EngineAt, LlmAsleep,
   LlmAt, Symbols, Buckets, Stored

LEMMA ScoredIsBucket ==
  ASSUME TypeOK, EngineInv, eng.pc = "infer"
  PROVE  eng.scored \in Buckets /\ <<eng.scored, eng.sym>> \in rows
<1>1. 0 \in 0 .. SeqLen - 1
  BY Constants
<1>2. <<eng.scored - 0, eng.sym>> \in rows
  BY <1>1 DEF EngineInv, IsRun
<1>3. eng.scored - 0 = eng.scored
  BY DEF TypeOK
<1> QED BY <1>2, <1>3 DEF TypeOK

LEMMA TickTypes ==
  ASSUME TypeOK, Tick
  PROVE  /\ bucket' \in FirstBucket .. LastBucket /\ phase' \in 0 .. Window - 1
         /\ \/ bucket' = bucket /\ phase' = phase + 1
            \/ bucket' = bucket + 1 /\ phase' = 0
BY Constants DEF TypeOK, Tick

\* The table that a query returns, and its newest rows.
LEMMA TableTypes ==
  ASSUME NEW table \in SUBSET (Buckets \X Symbols), NEW s \in Symbols, NEW n \in Nat
  PROVE  /\ Newest(n, Of(table, s)) \in SUBSET Buckets
         /\ \A b \in Newest(n, Of(table, s)) : <<b, s>> \in table
BY DEF Newest, Of

LEMMA EngineNextTypes ==
  ASSUME TypeOK, EngineNext
  PROVE  /\ eng' \in EngineTypes
         /\ eng'.pc \in {"sleep", "fetch"}
         /\ eng'.pc = "fetch" => eng'.wake = eng.wake
BY Constants DEF TypeOK, EngineNext, EngineAt, Symbols, EngineTypes

LEMMA EngineFetchTypes ==
  ASSUME TypeOK, EngineFetch
  PROVE  \/ EngineNext
         \/ /\ eng' = [eng EXCEPT !.pc = "infer", !.scored = eng'.scored, !.flow = eng'.flow]
            /\ eng'.scored \in Buckets
            /\ eng'.flow \in BOOLEAN /\ eng'.flow = (flows[eng'.scored] \in Stored)
            /\ IsRun(eng'.scored, eng.sym)
<1> DEFINE window == Newest(SeqLen, Of(rows, eng.sym))
<1>1. CASE ~Usable(window)
  BY <1>1 DEF EngineFetch
<1>2. CASE Usable(window)
  <2>1. eng' = [eng EXCEPT !.pc = "infer", !.scored = Last(window),
                           !.flow = flows[Last(window)] \in Stored]
    BY <1>2 DEF EngineFetch
  <2>2. window \in SUBSET Buckets /\ \A b \in window : <<b, eng.sym>> \in rows
    BY TableTypes, Constants DEF TypeOK
  <2>3. \A i \in 0 .. SeqLen - 1 : Last(window) - i \in window
    <3> HIDE DEF window
    <3> QED BY <1>2, <2>2, UsableIsRun
  <2>4. Last(window) \in window
    <3> HIDE DEF window
    <3> QED BY <1>2, <2>2, EnoughHasLast DEF Usable
  <2> HIDE DEF window
  <2>5. eng'.scored = Last(window) /\ eng'.flow = (flows[Last(window)] \in Stored)
    BY <2>1 DEF TypeOK
  <2>6. IsRun(eng'.scored, eng.sym)
    BY <2>2, <2>3, <2>5 DEF IsRun
  <2>7. eng'.scored \in Buckets
    BY <2>2, <2>4, <2>5
  <2>8. eng'.flow \in BOOLEAN
    BY <2>5
  <2> QED BY <2>1, <2>5, <2>6, <2>7, <2>8
<1> QED BY <1>1, <1>2

LEMMA LlmAtTypes ==
  ASSUME NEW pc \in {"sleep", "fetch", "infer"}, NEW s \in Symbols, NEW w \in Nat,
         NEW x \in Nat
  PROVE  LlmAt(pc, s, w, x) \in LlmTypes
BY Constants DEF LlmAt, LlmTypes

LEMMA LlmNextTypes ==
  ASSUME TypeOK, LlmInv, llm.pc # "sleep", LlmNext
  PROVE  /\ llm' \in LlmTypes
         /\ \/ llm' = LlmAsleep
            \/ llm' = LlmTurn(llm.sym + 1)
<1>1. bucket \in Nat /\ bucket - 1 \in Nat /\ bucket + 1 \in Nat
  BY Constants DEF TypeOK, LlmInv
<1>2. 1 \in Symbols /\ (llm.sym < NSymbols => llm.sym + 1 \in Symbols)
  BY Constants DEF Symbols, TypeOK
<1>3. LlmAsleep \in LlmTypes
  BY <1>1, <1>2, LlmAtTypes DEF LlmAsleep
<1>4. CASE llm.sym < NSymbols
  BY <1>1, <1>2, <1>4, LlmAtTypes DEF LlmTurn, LlmNext
<1>5. CASE ~(llm.sym < NSymbols)
  BY <1>3, <1>5 DEF LlmNext
<1> QED BY <1>4, <1>5

LEMMA RetryTypes ==
  ASSUME TypeOK, LlmInv, llm.pc # "sleep", Retry
  PROVE  /\ llm' \in LlmTypes
         /\ \/ llm' = [llm EXCEPT !.tries = @ + 1]
            \/ LlmNext
<1>1. CASE llm.tries + 1 < MaxRetries
  <2>1. llm.tries + 1 \in 0 .. MaxRetries - 1
    BY <1>1, Constants DEF TypeOK
  <2> QED BY <1>1, <2>1 DEF Retry, TypeOK, LlmTypes
<1>2. CASE ~(llm.tries + 1 < MaxRetries)
  BY <1>2, LlmNextTypes DEF Retry
<1> QED BY <1>1, <1>2

\* The scores that the briefing reads.
LEMMA SequenceTypes ==
  ASSUME TypeOK, Enough
  PROVE  /\ Last(Sequence) \in Buckets
         /\ <<Last(Sequence), llm.sym>> \in scores
<1>1. Sequence \in SUBSET Buckets /\ \A b \in Sequence : <<b, llm.sym>> \in scores
  BY TableTypes, Constants DEF TypeOK, Sequence
<1>2. Last(Sequence) \in Sequence
  BY <1>1, EnoughHasLast DEF Enough
<1> QED BY <1>1, <1>2

LEMMA TypeStep ==
  ASSUME TypeOK, PollerInv, EngineInv, LlmInv, [Next]_vars
  PROVE  TypeOK'
<1>h. /\ busy \subseteq Nat /\ cex \in CexTypes /\ eng \in EngineTypes /\ llm \in LlmTypes
       /\ phase \in Nat
  BY StateTypes
<1>0. bucket \in Nat /\ bucket \in Buckets /\ bucket <= LastBucket /\ 1 \in Symbols
  BY Constants DEF TypeOK, Buckets, Symbols
<1>1. CASE TimePasses
  <2>1. busy' \subseteq Nat
    <3>1. CexMisses \subseteq Nat
      BY <1>0 DEF CexMisses
    <3> QED BY <1>1, <3>1 DEF TimePasses, TypeOK
  <2> QED BY <1>1, <2>1, TickTypes DEF TimePasses, TypeOK
<1>2. CASE Market
  BY <1>2 DEF Market, MarketRow, TypeOK
<1>3. CASE Restart
  <2>1. busy' \subseteq Nat
    <3>1. cex.target \in Nat
      BY <1>h DEF CexTypes
    <3>2. busy' = busy \union {bucket}
                       \union (IF cex.pc = "poll" THEN {cex.target + 1} ELSE {})
      BY <1>3 DEF Restart
    <3>3. \A b \in busy' : b \in busy \/ b = bucket \/ b = cex.target + 1
      BY <3>2
    <3>4. bucket \in Nat /\ cex.target + 1 \in Nat /\ busy \subseteq Nat
      BY <1>0, <1>h, <3>1
    <3> QED BY <3>3, <3>4, Zenon
  <2>2. CexAsleep \in CexTypes
    BY <1>0 DEF CexAsleep, CexTypes
  <2>3. EngineStart \in EngineTypes
    BY <1>0 DEF EngineStart, EngineAt, EngineTypes
  <2>4. LlmAsleep \in LlmTypes
    BY <1>0, LlmAtTypes DEF LlmAsleep
  <2>5. restarts' \in 0 .. MaxRestarts
    BY <1>3, Constants DEF Restart, TypeOK
  <2> QED BY <1>3, <2>1, <2>2, <2>3, <2>4, <2>5 DEF Restart, TypeOK, CexTypes, EngineTypes, LlmTypes
<1>4. CASE Poller
  <2>1. CASE CexWake
    <3>1. cex.wake \in 1 .. bucket + 1 /\ bucket >= cex.wake
      BY <2>1 DEF CexWake, PollerInv, Reached, TypeOK
    <3>2. bucket - 1 \in Nat
      BY <1>0, <3>1
    <3> QED BY <1>4, <2>1, <3>2 DEF Poller, CexWake, CexPolling, TypeOK
  <2>2. ASSUME NEW outcome \in {"unpolled", "nothing"} \union Stored, CexSleeps(outcome)
        PROVE  TypeOK'
    <3>1. cex' \in CexTypes
      BY <1>0, <2>2 DEF CexSleeps, CexAsleep, CexTypes
    <3>2. flows' \in [Buckets -> {"unpolled", "nothing"} \union Stored]
      BY <2>2 DEF CexSleeps, TypeOK
    <3> QED BY <1>4, <2>2, <3>1, <3>2 DEF Poller, CexSleeps, TypeOK, CexTypes
  <2>3. CASE CexStore
    BY <2>2, <2>3 DEF CexStore, Stored
  <2>4. CASE CexNothing
    <3>1. cex.target \in Buckets
      <4>1. cex.pc = "poll"
        BY <2>4 DEF CexNothing, CexSleeps
      <4>2. cex.target < bucket
        BY <4>1 DEF PollerInv
      <4>3. cex.target \in Nat
        BY <1>h DEF CexTypes
      <4> QED BY <1>0, <4>2, <4>3, Constants DEF Buckets
    <3>2. flows[cex.target] \in {"unpolled", "nothing"} \union Stored
      BY <3>1 DEF TypeOK
    <3> QED BY <2>2, <2>4, <3>2 DEF CexNothing
  <2> QED BY <1>4, <2>1, <2>3, <2>4 DEF Poller
<1>5. CASE Engine
  <2>1. scores' \subseteq Buckets \X Symbols
    <3>1. CASE EngineStore
      BY <3>1, ScoredIsBucket DEF EngineStore, TypeOK
    <3>2. CASE UNCHANGED scores
      BY <3>2 DEF TypeOK
    <3> QED BY <1>5, <3>1, <3>2 DEF Engine
  <2>2. eng' \in EngineTypes
    <3>1. CASE EngineWake \/ EngineFails \/ EngineStartsOver
      <4>1. eng.wake \in Nat /\ eng.sym \in Symbols
        BY <1>h DEF EngineTypes
      <4>2. \/ eng' = EngineAt("fetch", 1, eng.wake)
            \/ eng' = EngineAt("raised", eng.sym, eng.wake)
        BY <3>1 DEF EngineWake, EngineFails, EngineStartsOver
      <4>3. CASE eng' = EngineAt("fetch", 1, eng.wake)
        BY <1>0, <4>1, <4>3 DEF EngineAt, EngineTypes
      <4>4. CASE eng' = EngineAt("raised", eng.sym, eng.wake)
        BY <4>1, <4>4 DEF EngineAt, EngineTypes
      <4> QED BY <4>2, <4>3, <4>4
    <3>2. CASE EngineFetch
      <4>1. CASE EngineNext
        BY <4>1, EngineNextTypes
      <4>2. ASSUME eng' = [eng EXCEPT !.pc = "infer", !.scored = eng'.scored,
                                      !.flow = eng'.flow],
                   eng'.scored \in Nat, eng'.flow \in BOOLEAN
            PROVE  eng' \in EngineTypes
        BY <1>h, <4>2 DEF EngineTypes
      <4>3. \A b \in Buckets : b \in Nat
        BY DEF Buckets
      <4> QED BY <3>2, <4>1, <4>2, <4>3, EngineFetchTypes
    <3>3. CASE EngineStore
      BY <3>3, EngineNextTypes DEF EngineStore
    <3> QED BY <1>5, <3>1, <3>2, <3>3 DEF Engine, EngineReads
  <2> QED BY <1>5, <2>1, <2>2 DEF Engine, TypeOK, EngineTypes
<1>6. CASE Briefing
  <2>1. briefs' \subseteq Buckets \X Symbols
    BY <1>6 DEF Briefing, LlmStore, LlmInv, TypeOK
  <2>2. llm' \in LlmTypes
    <3>1. CASE LlmWake
      <4>1. bucket - 1 \in Nat
        BY <1>0, <3>1 DEF LlmWake, LlmInv, Reached, TypeOK
      <4> QED BY <1>0, <3>1, <4>1, LlmAtTypes DEF LlmWake, LlmTurn
    <3>2. CASE LlmGetsSequence
      <4>1. Last(Sequence) \in Nat
        BY <3>2, SequenceTypes DEF LlmGetsSequence, Buckets
      <4>2. 0 \in 0 .. MaxRetries - 1
        BY Constants
      <4>3. llm' = [llm EXCEPT !.pc = "infer", !.latest = Last(Sequence),
                              !.expected = 0, !.tries = 0]
        BY <3>2 DEF LlmGetsSequence
      <4> QED BY <1>h, <4>1, <4>2, <4>3 DEF LlmTypes
    <3>3. CASE LlmHasNoHistory \/ LlmStore \/ LlmStoreFails
      BY <3>3, LlmNextTypes DEF LlmHasNoHistory, LlmStore, LlmStoreFails
    <3>4. CASE LlmWaits \/ LlmQueryFails
      BY <3>4, RetryTypes DEF LlmWaits, LlmQueryFails
    <3>5. CASE LlmAborts
      BY <1>0, <3>5, LlmAtTypes DEF LlmAborts, LlmAsleep
    <3> QED BY <1>6, <3>1, <3>2, <3>3, <3>4, <3>5 DEF Briefing, LlmReads
  <2> QED BY <1>6, <2>1, <2>2 DEF Briefing, TypeOK, LlmTypes
<1>7. CASE UNCHANGED vars
  BY <1>7 DEF vars, TypeOK
<1> QED BY <1>1, <1>2, <1>3, <1>4, <1>5, <1>6, <1>7 DEF Next

-----------------------------------------------------------------------------
(* The poller.                                                             *)

LEMMA PollerFrame ==
  ASSUME PollerInv, UNCHANGED <<bucket, cex, flows, busy>>
  PROVE  PollerInv'
BY DEF PollerInv, StoredBelow, FlowGapOnlyIfBusy

LEMMA PollerTick ==
  ASSUME TypeOK, PollerInv, TimePasses
  PROVE  PollerInv'
<1>1. UNCHANGED <<cex, flows>> /\ cex \in CexTypes /\ bucket \in Nat
  BY StateTypes DEF TimePasses
<1>2. CASE bucket' = bucket
  BY <1>1, <1>2, PollerFrame DEF TimePasses
<1>3. CASE bucket' = bucket + 1
  <2>1. busy' = busy \union CexMisses
    BY <1>1, <1>3 DEF TimePasses
  <2>2. cex.wake \in Nat /\ cex.target \in Nat /\ cex.pc \in {"sleep", "poll"}
    BY <1>1 DEF CexTypes
  <2>3. cex.pc = "poll" => bucket + 1 \in busy'
    BY <2>1 DEF CexMisses
  <2>4. cex.pc = "sleep" /\ cex.wake <= bucket => bucket \in busy'
    BY <2>1 DEF CexMisses
  <2>5. cex.pc = "sleep" =>
          /\ cex.wake \in 1 .. bucket + 1
          /\ cex.wake = bucket + 1 =>
               \/ bucket \in busy
               \/ bucket >= 1 /\ flows[bucket - 1] # "unpolled"
    BY DEF PollerInv
  <2>6. cex.pc = "poll" => cex.target < bucket /\ (cex.target < bucket - 1 => bucket \in busy)
    BY DEF PollerInv
  <2>7. FlowGapOnlyIfBusy'
    <3>1. SUFFICES ASSUME NEW b \in FirstBucket .. bucket' - 2
                   PROVE  \/ flows[b] # "unpolled"
                          \/ b + 1 \in busy'
                          \/ cex.pc = "poll" /\ cex.target = b
      BY <1>1 DEF FlowGapOnlyIfBusy
    <3>2. b \in Nat /\ b <= bucket - 1
      BY <1>1, <1>3, Constants
    <3>3. CASE b <= bucket - 2
      <4>1. b \in FirstBucket .. bucket - 2
        BY <1>1, <3>2, <3>3, Constants
      <4> QED BY <2>1, <4>1 DEF PollerInv, FlowGapOnlyIfBusy
    <3>4. CASE b = bucket - 1
      <4>1. b + 1 = bucket
        BY <1>1, <3>4
      <4>2. CASE cex.pc = "poll"
        BY <1>1, <2>1, <2>2, <2>6, <3>4, <4>1, <4>2
      <4>3. CASE cex.pc = "sleep"
        BY <1>1, <2>1, <2>2, <2>4, <2>5, <3>4, <4>1, <4>3
      <4> QED BY <2>2, <4>2, <4>3
    <3> QED BY <1>1, <3>2, <3>3, <3>4
  <2>8. \A n : StoredBelow(n)' <=> StoredBelow(n)
    BY <1>1 DEF StoredBelow
  <2>9. cex.pc = "sleep" => StoredBelow(cex.wake - 1)
    BY DEF PollerInv
  <2>10. cex.pc = "poll" => StoredBelow(cex.target)
    BY DEF PollerInv
  <2>11. (cex.pc = "sleep" => cex.wake \in 1 .. bucket + 1 /\ StoredBelow(cex.wake - 1))'
    BY <1>1, <1>3, <2>2, <2>5, <2>9 DEF StoredBelow
  <2>12. (cex.pc = "sleep" => cex.wake # bucket + 1)'
    BY <1>1, <1>3, <2>2, <2>5
  <2>13. (cex.pc = "poll" => cex.target < bucket /\ StoredBelow(cex.target) /\ bucket \in busy)'
    BY <1>1, <1>3, <2>2, <2>3, <2>6, <2>10 DEF StoredBelow
  <2> QED BY <2>7, <2>11, <2>12, <2>13 DEF PollerInv
<1> QED BY <1>2, <1>3, TickTypes DEF TimePasses

LEMMA PollerRestart ==
  ASSUME TypeOK, PollerInv, Restart
  PROVE  PollerInv'
<1>1. /\ bucket \in Nat /\ bucket' = bucket /\ flows' = flows /\ cex' = CexAsleep
      /\ bucket \in busy' /\ busy \subseteq busy'
      /\ cex.pc = "poll" => cex.target + 1 \in busy'
      /\ cex.pc \in {"sleep", "poll"} /\ cex.wake \in Nat /\ cex.target \in Nat
  BY StateTypes DEF Restart, CexTypes
<1>2. \A b \in Buckets : flows[b] \in Stored => b < bucket
  <2>1. \A b \in Buckets : b \in Nat
    BY DEF Buckets
  <2> QED BY <1>1, <2>1 DEF PollerInv, StoredBelow
<1>3. FlowGapOnlyIfBusy'
  BY <1>1 DEF PollerInv, FlowGapOnlyIfBusy
<1>4. cex'.pc = "sleep" /\ cex'.wake = bucket + 1
  BY <1>1 DEF CexAsleep
<1> QED BY <1>1, <1>2, <1>3, <1>4 DEF PollerInv, StoredBelow

LEMMA PollerWake ==
  ASSUME TypeOK, PollerInv, CexWake
  PROVE  PollerInv'
<1>1. /\ bucket \in Nat /\ bucket' = bucket /\ flows' = flows /\ busy' = busy
      /\ cex.pc = "sleep" /\ cex.wake \in Nat /\ cex' = CexPolling
  BY StateTypes DEF CexWake, CexTypes
<1>2. cex.wake <= bucket
  BY <1>1 DEF CexWake, Reached
<1>3. cex'.pc = "poll" /\ cex'.target = bucket - 1
  BY <1>1 DEF CexPolling
<1>4. \A b \in Buckets : flows[b] \in Stored => b < bucket - 1
  <2>1. \A b \in Buckets : b \in Nat
    BY DEF Buckets
  <2> QED BY <1>1, <1>2, <2>1 DEF PollerInv, StoredBelow
<1>5. FlowGapOnlyIfBusy'
  BY <1>1, <1>3 DEF PollerInv, FlowGapOnlyIfBusy
<1> QED BY <1>1, <1>3, <1>4, <1>5 DEF PollerInv, StoredBelow

LEMMA PollerSleeps ==
  ASSUME TypeOK, PollerInv, UNCHANGED busy,
         NEW outcome \in {"nothing"} \union Stored, CexSleeps(outcome)
  PROVE  PollerInv'
<1>1. /\ bucket \in Nat /\ bucket' = bucket /\ busy' = busy
      /\ cex.pc = "poll" /\ cex.target \in Nat /\ cex' = CexAsleep
      /\ flows' = [flows EXCEPT ![cex.target] = outcome]
      /\ flows \in [Buckets -> {"unpolled", "nothing"} \union Stored]
      /\ bucket \in Buckets
  BY StateTypes DEF CexSleeps, CexTypes
<1>2. /\ cex.target < bucket /\ StoredBelow(cex.target)
      /\ cex.target < bucket - 1 => bucket \in busy
  BY <1>1 DEF PollerInv
<1>3. cex.target \in Buckets
  BY <1>1, <1>2, Constants DEF Buckets
<1>4. cex'.pc = "sleep" /\ cex'.wake = bucket + 1
  BY <1>1 DEF CexAsleep
<1>5. outcome # "unpolled" /\ flows'[cex.target] = outcome
      /\ \A b \in Buckets \ {cex.target} : flows'[b] = flows[b]
  BY <1>1, <1>3 DEF Stored
<1>6. \A b \in Buckets : flows'[b] \in Stored => b < bucket
  <2>1. \A b \in Buckets : b \in Nat
    BY DEF Buckets
  <2> QED BY <1>1, <1>2, <1>5, <2>1 DEF StoredBelow
<1>7. FlowGapOnlyIfBusy'
  <2>1. SUFFICES ASSUME NEW b \in FirstBucket .. bucket - 2
                 PROVE  flows'[b] # "unpolled" \/ b + 1 \in busy
    BY <1>1 DEF FlowGapOnlyIfBusy
  <2>2. b \in Buckets
    BY <1>1, Constants DEF Buckets
  <2> QED BY <1>1, <1>5, <2>2 DEF PollerInv, FlowGapOnlyIfBusy
<1>8. bucket \in busy \/ (bucket >= 1 /\ flows'[bucket - 1] # "unpolled")
  BY <1>1, <1>2, <1>5
<1> QED BY <1>1, <1>4, <1>6, <1>7, <1>8 DEF PollerInv, StoredBelow

LEMMA PollerStep ==
  ASSUME TypeOK, PollerInv, [Next]_vars
  PROVE  PollerInv'
<1>1. CASE TimePasses
  BY <1>1, PollerTick
<1>2. CASE Restart
  BY <1>2, PollerRestart
<1>3. CASE Poller
  <2>1. CASE CexWake
    BY <2>1, PollerWake
  <2>2. CASE CexStore
    <3>1. UNCHANGED busy
      BY <2>2 DEF CexStore, CexSleeps
    <3> QED BY <2>2, <3>1, PollerSleeps DEF CexStore, Stored
  <2>3. CASE CexNothing
    <3>1. UNCHANGED busy /\ cex.pc = "poll"
      BY <2>3 DEF CexNothing, CexSleeps
    <3>2. cex.target \in Buckets
      BY <3>1, StateTypes, Constants DEF PollerInv, CexTypes, Buckets
    <3>3. flows[cex.target] \in {"unpolled", "nothing"} \union Stored
      BY <3>2, StateTypes
    <3> QED BY <2>3, <3>1, <3>3, PollerSleeps DEF CexNothing
  <2> QED BY <1>3, <2>1, <2>2, <2>3 DEF Poller
<1>4. CASE Market \/ Engine \/ Briefing \/ UNCHANGED vars
  <2>1. UNCHANGED <<bucket, cex, flows, busy>>
    BY <1>4 DEF Market, MarketRow, Engine, Briefing, vars
  <2> QED BY <2>1, PollerFrame
<1> QED BY <1>1, <1>2, <1>3, <1>4 DEF Next

-----------------------------------------------------------------------------
(* The engine.                                                             *)

LEMMA EngineFrame ==
  ASSUME EngineInv, UNCHANGED <<clock, rows, flows, scores, eng>>
  PROVE  EngineInv'
BY DEF EngineInv, IsRun, SettledFlowIsSeen, Reached

LEMMA EngineTick ==
  ASSUME TypeOK, EngineInv, TimePasses
  PROVE  EngineInv'
<1>1. /\ UNCHANGED <<rows, flows, scores, eng>>
      /\ bucket \in Nat /\ phase \in Nat /\ eng.wake \in Nat
  BY StateTypes DEF TimePasses, EngineTypes
<1>2. \/ bucket' = bucket /\ phase' = phase + 1
      \/ bucket' = bucket + 1 /\ phase' = 0
  BY TickTypes DEF TimePasses
<1>3. \A e \in rows : e[1] \in Nat
  BY DEF TypeOK, Buckets
<1>4. Reached(eng.wake, EngineOffset) => Reached(eng.wake, EngineOffset)'
  BY <1>1, <1>2, Constants DEF Reached
<1>5. \A e \in rows' : e[1] < bucket'
  BY <1>1, <1>2, <1>3 DEF EngineInv
<1> QED BY <1>1, <1>4, <1>5 DEF EngineInv, IsRun, SettledFlowIsSeen

LEMMA EngineMarket ==
  ASSUME EngineInv, Market
  PROVE  EngineInv'
<1>1. PICK b \in Buckets, s \in Symbols : MarketRow(b, s)
  BY DEF Market
<1>2. /\ UNCHANGED <<clock, flows, scores, eng>> /\ rows' = rows \union {<<b, s>>}
      /\ b < bucket
  BY <1>1 DEF Market, MarketRow
<1> QED BY <1>2 DEF EngineInv, IsRun, SettledFlowIsSeen, Reached

LEMMA EngineRestart ==
  ASSUME EngineInv, Restart
  PROVE  EngineInv'
<1>1. UNCHANGED <<clock, rows, flows, scores>> /\ eng' = EngineStart
  BY DEF Restart
<1>2. eng'.pc = "fetch" /\ eng'.wake = 0
  BY <1>1 DEF EngineStart, EngineAt
<1> QED BY <1>1, <1>2 DEF EngineInv, IsRun, SettledFlowIsSeen

\* A flow row that is stored now is prompt only before the offset, when no cycle
\* that was put off to after its bucket runs yet.
LEMMA EnginePoller ==
  ASSUME TypeOK, EngineInv, PollerInv, Poller
  PROVE  EngineInv'
<1>1. UNCHANGED <<clock, rows, scores, eng>>
  BY DEF Poller, CexWake, CexStore, CexNothing, CexSleeps
<1>2. /\ bucket \in Nat /\ phase \in Nat /\ eng \in EngineTypes /\ cex \in CexTypes
      /\ flows \in [Buckets -> {"unpolled", "nothing"} \union Stored]
  BY StateTypes
<1>3. SettledFlowIsSeen'
  <2>1. SUFFICES ASSUME eng.pc = "infer", eng.wake > eng.scored, flows'[eng.scored] = "prompt"
                 PROVE  eng.flow
    BY <1>1 DEF SettledFlowIsSeen
  <2>2. eng.wake \in Nat /\ eng.scored \in Nat /\ cex.target \in Nat
    BY <1>2 DEF EngineTypes, CexTypes
  <2>3. Reached(eng.wake, EngineOffset)
    BY <2>1, <2>2 DEF EngineInv
  <2>4. eng.scored \in Buckets
    BY <2>1, ScoredIsBucket
  <2>5. flows[eng.scored] = "prompt"
    <3>1. CASE CexWake
      BY <2>1, <3>1 DEF CexWake
    <3>2. CASE CexStore
      <4>1. CASE eng.scored # cex.target
        BY <1>2, <2>1, <2>4, <3>2, <4>1 DEF CexStore, CexSleeps
      <4>2. CASE eng.scored = cex.target
        <5>1. flows' = [flows EXCEPT ![cex.target] =
                          IF bucket = cex.target + 1 /\ phase < EngineOffset
                            THEN "prompt" ELSE "late"]
          BY <3>2 DEF CexStore, CexSleeps
        <5>2. bucket = cex.target + 1 /\ phase < EngineOffset
          BY <1>2, <2>1, <2>4, <4>2, <5>1
        <5> QED BY <1>2, <2>1, <2>2, <2>3, <4>2, <5>2, Constants DEF Reached
      <4> QED BY <4>1, <4>2
    <3>3. CASE CexNothing
      BY <1>2, <2>1, <2>4, <3>3 DEF CexNothing, CexSleeps
    <3> QED BY <3>1, <3>2, <3>3 DEF Poller
  <2> QED BY <2>1, <2>5 DEF EngineInv, SettledFlowIsSeen
<1> QED BY <1>1, <1>3 DEF EngineInv, IsRun, Reached

LEMMA EngineMoves ==
  ASSUME TypeOK, EngineInv, Engine
  PROVE  EngineInv'
<1>1. UNCHANGED <<clock, rows, flows>>
  BY DEF Engine
<1>2. bucket \in Nat /\ phase \in Nat /\ eng \in EngineTypes
  BY StateTypes
<1>3. CASE (EngineWake \/ EngineFails \/ EngineStartsOver) /\ UNCHANGED scores
  <2>1. scores' = scores
    BY <1>3
  <2>2. eng'.pc \in {"fetch", "raised"} /\ eng'.wake = eng.wake
    BY <1>3 DEF EngineWake, EngineFails, EngineStartsOver, EngineAt
  <2>3. eng.wake > 0 => Reached(eng.wake, EngineOffset)
    BY <1>3 DEF EngineWake, EngineFails, EngineStartsOver, EngineInv
  <2> QED BY <1>1, <2>1, <2>2, <2>3 DEF EngineInv, IsRun, SettledFlowIsSeen, Reached
<1>4. CASE EngineNext /\ eng.pc # "sleep" /\ \A e \in scores' : IsRun(e[1], e[2])
  <2>1. /\ eng'.pc \in {"sleep", "fetch"}
        /\ eng'.pc = "fetch" => eng'.wake = eng.wake
    BY <1>4, EngineNextTypes
  <2> QED BY <1>1, <1>4, <2>1 DEF EngineInv, IsRun, SettledFlowIsSeen, Reached
<1>5. CASE EngineFetch /\ UNCHANGED scores
  <2>1. eng.pc = "fetch"
    BY <1>5 DEF EngineFetch
  <2>2. CASE EngineNext
    BY <1>4, <1>5, <2>1, <2>2 DEF EngineInv
  <2>3. CASE /\ eng' = [eng EXCEPT !.pc = "infer", !.scored = eng'.scored, !.flow = eng'.flow]
             /\ eng'.scored \in Buckets
             /\ eng'.flow \in BOOLEAN /\ eng'.flow = (flows[eng'.scored] \in Stored)
             /\ IsRun(eng'.scored, eng.sym)
    <3>1. eng'.pc = "infer" /\ eng'.sym = eng.sym /\ eng'.wake = eng.wake
      BY <1>2, <2>3 DEF EngineTypes
    <3>2. IsRun(eng'.scored, eng'.sym)
      BY <2>3, <3>1
    <3>3. SettledFlowIsSeen'
      BY <1>1, <2>3 DEF SettledFlowIsSeen, Stored
    <3> QED BY <1>1, <1>5, <2>1, <3>1, <3>2, <3>3 DEF EngineInv, IsRun, Reached
  <2> QED BY <1>5, <2>2, <2>3, EngineFetchTypes
<1>6. CASE EngineStore
  <2>1. EngineNext /\ eng.pc = "infer" /\ scores' = scores \union {<<eng.scored, eng.sym>>}
    BY <1>6 DEF EngineStore
  <2>2. \A e \in scores' : IsRun(e[1], e[2])
    BY <2>1 DEF EngineInv
  <2> QED BY <1>4, <2>1, <2>2
<1> QED BY <1>3, <1>5, <1>6 DEF Engine, EngineReads

LEMMA EngineInvStep ==
  ASSUME TypeOK, PollerInv, EngineInv, [Next]_vars
  PROVE  EngineInv'
<1>1. CASE Briefing \/ UNCHANGED vars
  <2>1. UNCHANGED <<clock, rows, flows, scores, eng>>
    BY <1>1 DEF Briefing, vars
  <2> QED BY <2>1, EngineFrame
<1> QED BY <1>1, EngineTick, EngineMarket, EngineRestart, EnginePoller, EngineMoves DEF Next

-----------------------------------------------------------------------------
(* The briefing.                                                           *)

LEMMA BriefsAreOld ==
  ASSUME TypeOK, EngineInv, LlmInv
  PROVE  \A e \in briefs : e[1] \in Nat /\ e[2] \in Symbols /\ e[1] < bucket
<1>1. SUFFICES ASSUME NEW e \in briefs
               PROVE  e[1] \in Nat /\ e[2] \in Symbols /\ e[1] < bucket
  OBVIOUS
<1>2. e \in scores /\ e \in Buckets \X Symbols
  BY DEF LlmInv, TypeOK
<1>3. e[1] \in Nat /\ e[2] \in Symbols
  BY <1>2 DEF Buckets
<1>4. IsRun(e[1], e[2]) /\ 0 \in 0 .. SeqLen - 1
  BY <1>2, Constants DEF EngineInv
<1>5. <<e[1] - 0, e[2]>> \in rows
  BY <1>4 DEF IsRun
<1>6. (<<e[1] - 0, e[2]>>)[1] < bucket
  BY <1>5 DEF EngineInv
<1> QED BY <1>3, <1>6

LEMMA LlmFrame ==
  ASSUME LlmInv, UNCHANGED <<bucket, scores, briefs, llm>>
  PROVE  LlmInv'
BY DEF LlmInv, AheadBelow

LEMMA LlmTick ==
  ASSUME TypeOK, EngineInv, LlmInv, TimePasses
  PROVE  LlmInv'
<1>1. /\ UNCHANGED <<scores, briefs, llm>> /\ bucket \in Nat /\ llm \in LlmTypes
      /\ bucket' = bucket \/ bucket' = bucket + 1
  BY StateTypes, TickTypes DEF TimePasses
<1>2. llm.expected \in Nat
  BY <1>1 DEF LlmTypes
<1>3. \A e \in briefs : e[1] \in Nat
  BY BriefsAreOld
<1>4. llm.pc # "sleep" => AheadBelow(bucket - 1)
  BY DEF LlmInv
<1>5. (llm.pc # "sleep" => AheadBelow(bucket - 1))'
  BY <1>1, <1>3, <1>4 DEF AheadBelow
<1>6. (llm.pc # "sleep" => bucket >= 1)'
  BY <1>1 DEF LlmInv
<1>7. (llm.pc = "fetch" => llm.expected <= bucket - 1)'
  BY <1>1, <1>2 DEF LlmInv
<1> QED BY <1>1, <1>5, <1>6, <1>7 DEF LlmInv, AheadBelow

\* The coroutine falls asleep until after the next boundary.
LEMMA LlmSleeps ==
  ASSUME TypeOK, bucket' = bucket, llm' = LlmAsleep, briefs' \subseteq scores',
         \A e \in briefs' : e[1] < bucket
  PROVE  LlmInv'
<1>1. llm'.pc = "sleep" /\ llm'.wake = bucket + 1 /\ bucket \in Nat
  BY StateTypes DEF LlmAsleep, LlmAt
<1>2. llm'.wake >= 1 /\ llm'.wake - 1 = bucket
  BY <1>1
<1> QED BY <1>1, <1>2 DEF LlmInv

\* It comes to a symbol.
LEMMA LlmTurns ==
  ASSUME TypeOK, bucket' = bucket, bucket >= 1, NEW s \in Symbols, llm' = LlmTurn(s),
         briefs' \subseteq scores',
         \A e \in briefs' : e[2] >= s => e[1] < bucket - 1
  PROVE  LlmInv'
<1>1. /\ llm'.pc = "fetch" /\ llm'.sym = s /\ llm'.expected = bucket - 1
      /\ bucket \in Nat
  BY StateTypes DEF LlmTurn, LlmAt
<1> QED BY <1>1 DEF LlmInv, AheadBelow

\* It leaves a symbol, which may have been briefed.
LEMMA LlmLeaves ==
  ASSUME TypeOK, EngineInv, LlmInv, UNCHANGED <<bucket, scores>>, llm.pc # "sleep", LlmNext,
         briefs' \subseteq scores,
         \A e \in briefs' : e \in briefs \/ (e[2] = llm.sym /\ e[1] < bucket)
  PROVE  LlmInv'
<1>1. bucket \in Nat /\ bucket >= 1 /\ llm.sym \in Symbols /\ llm.sym \in Nat
  BY StateTypes DEF LlmInv, LlmTypes, Symbols
<1>2. \A e \in briefs' : e[1] < bucket
  BY BriefsAreOld
<1>3. CASE llm.sym < NSymbols
  <2>1. llm.sym + 1 \in Symbols /\ llm' = LlmTurn(llm.sym + 1)
    BY <1>1, <1>3, Constants DEF LlmNext, Symbols
  <2>2. \A e \in briefs' : e[2] >= llm.sym + 1 => e[1] < bucket - 1
    <3>1. SUFFICES ASSUME NEW e \in briefs', e[2] >= llm.sym + 1 PROVE e[1] < bucket - 1
      OBVIOUS
    <3>2. e \in briefs
      BY <1>1, <3>1
    <3>3. e[2] \in Nat
      BY <3>2, BriefsAreOld DEF Symbols
    <3>4. e[2] >= llm.sym
      BY <1>1, <3>1, <3>3
    <3> QED BY <3>2, <3>4 DEF LlmInv, AheadBelow
  <2> HIDE DEF LlmInv
  <2> QED BY <1>1, <2>1, <2>2, LlmTurns
<1>4. CASE ~(llm.sym < NSymbols)
  BY <1>2, <1>4, LlmSleeps DEF LlmNext
<1> QED BY <1>3, <1>4

LEMMA LlmRetries ==
  ASSUME TypeOK, EngineInv, LlmInv, UNCHANGED <<bucket, scores, briefs>>,
         llm.pc = "fetch", Retry
  PROVE  LlmInv'
<1>1. llm \in LlmTypes
  BY StateTypes
<1>2. CASE llm' = [llm EXCEPT !.tries = @ + 1]
  BY <1>1, <1>2 DEF LlmInv, AheadBelow, LlmTypes
<1>3. CASE LlmNext
  BY <1>3, BriefsAreOld, LlmLeaves DEF LlmInv
<1> QED BY <1>2, <1>3, RetryTypes

LEMMA LlmMoves ==
  ASSUME TypeOK, EngineInv, LlmInv, Briefing
  PROVE  LlmInv'
<1>1. /\ UNCHANGED <<bucket, scores>> /\ bucket \in Nat /\ llm \in LlmTypes
      /\ 1 \in Symbols
  BY StateTypes, Constants DEF Briefing, Symbols
<1>2. briefs \subseteq scores /\ \A e \in briefs : e[1] \in Nat /\ e[1] < bucket
  BY BriefsAreOld DEF LlmInv
<1>3. CASE LlmWake /\ UNCHANGED briefs
  <2>1. llm.pc = "sleep" /\ llm' = LlmTurn(1) /\ llm.wake <= bucket /\ llm.wake \in Nat
    BY <1>1, <1>3 DEF LlmWake, Reached, LlmTypes
  <2>2. llm.wake >= 1 /\ \A e \in briefs : e[1] < llm.wake - 1
    BY <2>1 DEF LlmInv
  <2>3. \A e \in briefs' : e[1] < bucket - 1
    BY <1>1, <1>2, <1>3, <2>1, <2>2
  <2> QED BY <1>1, <1>2, <1>3, <2>1, <2>2, <2>3, LlmTurns
<1>4. CASE LlmGetsSequence /\ UNCHANGED briefs
  <2>1. /\ llm.pc = "fetch" /\ Enough /\ Last(Sequence) >= llm.expected
        /\ llm' = [llm EXCEPT !.pc = "infer", !.latest = Last(Sequence),
                             !.expected = 0, !.tries = 0]
    BY <1>4 DEF LlmGetsSequence
  <2>2. Last(Sequence) \in Nat /\ <<Last(Sequence), llm.sym>> \in scores
    BY <2>1, SequenceTypes DEF Buckets
  <2>3. llm'.pc = "infer" /\ llm'.sym = llm.sym /\ llm'.latest = Last(Sequence)
    BY <1>1, <2>1 DEF LlmTypes
  <2>4. llm.expected \in Nat /\ AheadBelow(llm.expected)
    BY <1>1, <2>1 DEF LlmInv, LlmTypes
  <2>5. \A e \in briefs : e[2] >= llm.sym => e[1] < Last(Sequence)
    BY <1>2, <2>1, <2>2, <2>4 DEF AheadBelow
  <2> QED BY <1>1, <1>2, <1>4, <2>1, <2>2, <2>3, <2>5 DEF LlmInv, AheadBelow
<1>5. CASE (LlmHasNoHistory \/ LlmStoreFails) /\ UNCHANGED briefs
  BY <1>1, <1>2, <1>5, LlmLeaves DEF LlmHasNoHistory, LlmStoreFails
<1>6. CASE (LlmWaits \/ LlmQueryFails) /\ UNCHANGED briefs
  BY <1>1, <1>6, LlmRetries DEF LlmWaits, LlmQueryFails
<1>7. CASE LlmAborts /\ UNCHANGED briefs
  BY <1>1, <1>2, <1>7, LlmSleeps DEF LlmAborts
<1>8. CASE LlmStore
  <2>1. llm.pc = "infer" /\ briefs' = briefs \union {<<llm.latest, llm.sym>>} /\ LlmNext
    BY <1>8 DEF LlmStore
  <2>2. <<llm.latest, llm.sym>> \in scores
    BY <2>1 DEF LlmInv
  <2>3. llm.latest < bucket
    <3>1. IsRun(llm.latest, llm.sym) /\ 0 \in 0 .. SeqLen - 1
      BY <2>2, Constants DEF EngineInv
    <3>2. <<llm.latest - 0, llm.sym>> \in rows
      BY <3>1 DEF IsRun
    <3>3. (<<llm.latest - 0, llm.sym>>)[1] < bucket /\ llm.latest \in Nat
      BY <1>1, <3>2 DEF EngineInv, LlmTypes
    <3> QED BY <3>3
  <2>4. \A e \in briefs' : e \in briefs \/ (e[2] = llm.sym /\ e[1] < bucket)
    BY <2>1, <2>3
  <2> QED BY <1>1, <1>2, <2>1, <2>2, <2>4, LlmLeaves
<1> QED BY <1>3, <1>4, <1>5, <1>6, <1>7, <1>8 DEF Briefing, LlmReads

LEMMA LlmInvStep ==
  ASSUME TypeOK, EngineInv, LlmInv, [Next]_vars
  PROVE  LlmInv'
<1>1. CASE Market \/ Poller \/ UNCHANGED vars
  <2>1. UNCHANGED <<bucket, scores, briefs, llm>>
    BY <1>1 DEF Market, MarketRow, Poller, CexWake, CexStore, CexNothing, CexSleeps, vars
  <2> QED BY <2>1, LlmFrame
<1>2. CASE Restart
  BY <1>2, BriefsAreOld, LlmSleeps DEF Restart, LlmInv
<1>3. CASE Engine
  <2>1. UNCHANGED <<bucket, briefs, llm>> /\ scores \subseteq scores'
    BY <1>3 DEF Engine, EngineStore
  <2> QED BY <2>1 DEF LlmInv, AheadBelow
<1> QED BY <1>1, <1>2, <1>3, LlmTick, LlmMoves DEF Next

-----------------------------------------------------------------------------
(* The theorems.                                                           *)

LEMMA InitInv == Init => Inv
<1> SUFFICES ASSUME Init PROVE Inv
  OBVIOUS
<1>1. TypeOK
  BY InitType
<1>2. /\ bucket = FirstBucket /\ bucket \in Nat /\ busy = {bucket}
      /\ \A b \in Buckets : flows[b] \notin Stored
      /\ \A e \in rows : e[1] < bucket - 1 /\ e[1] \in Nat
      /\ scores = {} /\ briefs = {}
  BY Constants DEF Init, ClockInit, Stored, Buckets
<1>3. /\ cex.pc = "sleep" /\ cex.wake = bucket + 1
      /\ eng.pc = "fetch" /\ eng.wake = 0
      /\ llm.pc = "sleep" /\ llm.wake = bucket + 1
  BY DEF Init, CexAsleep, EngineStart, EngineAt, LlmAsleep, LlmAt
<1>4. PollerInv
  BY <1>2, <1>3 DEF PollerInv, StoredBelow, FlowGapOnlyIfBusy
<1>5. EngineInv
  BY <1>2, <1>3 DEF EngineInv, SettledFlowIsSeen
<1>6. LlmInv
  BY <1>2, <1>3 DEF LlmInv, AheadBelow
<1> QED BY <1>1, <1>4, <1>5, <1>6 DEF Inv

LEMMA NextInv == Inv /\ [Next]_vars => Inv'
BY TypeStep, PollerStep, EngineInvStep, LlmInvStep DEF Inv

\* Every reachable state of clock, tables and coroutines is well typed.
THEOREM TypeCorrect == Spec => []TypeOK
<1>1. Inv => TypeOK
  BY DEF Inv
<1> QED BY <1>1, InitInv, NextInv, PTL DEF Spec

\* fetch_and_scale_latest_window: a score is of SeqLen rows in a row.
THEOREM ScoresAreOfRuns == Spec => []NoScoreOverGap
<1>1. Inv => NoScoreOverGap
  BY DEF Inv, EngineInv, IsRun, NoScoreOverGap
<1> QED BY <1>1, InitInv, NextInv, PTL DEF Spec

\* start_cex_flow_stream: no bucket that has its flow row is polled again.
THEOREM FlowRowsFinal == Spec => []FlowRowsAreFinal
<1>1. Inv => FlowRowsAreFinal
  <2> SUFFICES ASSUME Inv, cex.pc = "poll" PROVE flows[cex.target] \notin Stored
    BY DEF FlowRowsAreFinal
  <2>1. cex.target \in Nat /\ bucket \in Nat /\ bucket \in Buckets
    BY StateTypes DEF Inv, CexTypes
  <2>2. cex.target < bucket /\ StoredBelow(cex.target)
    BY DEF Inv, PollerInv
  <2>3. cex.target \in Buckets
    BY <2>1, <2>2, Constants DEF Buckets
  <2> QED BY <2>1, <2>2, <2>3 DEF StoredBelow
<1> QED BY <1>1, InitInv, NextInv, PTL DEF Spec

\* start_cex_flow_stream: a bucket is skipped only by a poller that was busy,
\* asleep or restarted when its turn came.
THEOREM FlowGapsExplained == Spec => []FlowGapOnlyIfBusy
<1>1. Inv => FlowGapOnlyIfBusy
  BY DEF Inv, PollerInv
<1> QED BY <1>1, InitInv, NextInv, PTL DEF Spec

\* start_anomaly_stream: the padding lets a flow row that was in time be seen.
THEOREM SettledFlowsSeen == Spec => []SettledFlowIsSeen
<1>1. Inv => SettledFlowIsSeen
  BY DEF Inv, EngineInv
<1> QED BY <1>1, InitInv, NextInv, PTL DEF Spec

\* fetch_12_candle_sequence: what is being briefed has no briefing yet.
THEOREM BriefedOnce == Spec => []NoSecondBrief
<1>1. Inv => NoSecondBrief
  <2> SUFFICES ASSUME Inv, llm.pc = "infer", <<llm.latest, llm.sym>> \in briefs PROVE FALSE
    BY DEF NoSecondBrief
  <2>1. AheadBelow(llm.latest)
    BY DEF Inv, LlmInv
  <2>2. llm.sym \in Nat /\ llm.latest \in Nat
    BY StateTypes DEF Inv, LlmTypes, Symbols
  <2> QED BY <2>1, <2>2 DEF AheadBelow
<1> QED BY <1>1, InitInv, NextInv, PTL DEF Spec
=============================================================================
