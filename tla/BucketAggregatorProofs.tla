------------------------- MODULE BucketAggregatorProofs -------------------------
(***************************************************************************)
(* Proofs about BucketAggregator for any symbols, events, clock, window    *)
(* and number of writer threads.                                           *)
(***************************************************************************)
EXTENDS BucketAggregator, Functions, TLAPS

-----------------------------------------------------------------------------
(* Batches in a sequence, whose elements are not typed beforehand.           *)

\* A sequence is one over its own range.
LEMMA SeqOverRange ==
  ASSUME NEW S, NEW s \in Seq(S)
  PROVE  s \in Seq(Range(s))
BY DEF Range

\* A batch is appended: the earlier ones stay where they were.
LEMMA AppendFacts ==
  ASSUME NEW s, s \in Seq(Range(s)), NEW w, NEW t, t = Append(s, w)
  PROVE  /\ t \in Seq(Range(t))
         /\ DOMAIN t = DOMAIN s \union {Len(s) + 1}
         /\ Len(s) + 1 \notin DOMAIN s
         /\ \A i \in DOMAIN s : t[i] = s[i]
         /\ t[Len(s) + 1] = w
<1> DEFINE S == Range(s) \union {w}
<1>1. s \in Seq(S)
  OBVIOUS
<1>2. t \in Seq(S) /\ Len(t) = Len(s) + 1
  BY <1>1
<1>3. t \in Seq(Range(t))
  BY <1>2, SeqOverRange
<1> QED
  BY <1>1, <1>2, <1>3

\* t is s with w in place of its i-th batch.
Replaced(s, t, i, w) == t = [s EXCEPT ![i] = w]

\* A batch is replaced: nothing else changes.
LEMMA ReplaceFacts ==
  ASSUME NEW s, s \in Seq(Range(s)), NEW i \in DOMAIN s, NEW w, NEW t,
         Replaced(s, t, i, w)
  PROVE  /\ t \in Seq(Range(t))
         /\ DOMAIN t = DOMAIN s
         /\ t[i] = w
         /\ \A j \in DOMAIN s : j # i => t[j] = s[j]
<1> DEFINE S == Range(s) \union {w}
<1>1. s \in Seq(S) /\ w \in S
  OBVIOUS
<1>2. /\ t \in Seq(S)
      /\ DOMAIN t = DOMAIN s
      /\ t[i] = w
      /\ \A j \in DOMAIN s : j # i => t[j] = s[j]
  BY <1>1 DEF Replaced
<1>3. t \in Seq(Range(t))
  BY <1>2, SeqOverRange
<1> QED
  BY <1>2, <1>3

-----------------------------------------------------------------------------
(* Keys and rows.                                                          *)

LEMMA KeyInKeys == \A e \in Events : Key(e) \in Keys
BY DEF Events, Key, Keys

\* What an aggregator holds: rows over keys that contain only counted events of
\* R that belong to the key.
Holds(b, R) ==
  /\ IsRows(b)
  /\ \A k \in DOMAIN b : b[k] \subseteq {e \in R : e.kind = "count" /\ Key(e) = k}

LEMMA AccumulateHolds ==
  ASSUME NEW b, NEW R, R \subseteq Events, Holds(b, R), NEW e \in Events
  PROVE  /\ Holds(Accumulate(b, e), R \union {e})
         /\ \A x \in Events : InRows(Accumulate(b, e), x) <=>
                 InRows(b, x) \/ (x = e /\ e.kind = "count")
<1> DEFINE a == Accumulate(b, e)
<1>1. DOMAIN a = DOMAIN b \union {Key(e)} /\ Key(e) \in Keys
  BY KeyInKeys DEF Accumulate
<1>2. ASSUME NEW k \in DOMAIN a
      PROVE  a[k] \subseteq {x \in R \union {e} : x.kind = "count" /\ Key(x) = k}
  BY <1>1, <1>2 DEF Holds, Accumulate
<1>3. Holds(a, R \union {e})
  <2>1. \A k \in DOMAIN a : a[k] \in Row
    BY <1>2 DEF Row
  <2>2. a = [k \in DOMAIN a |-> a[k]]
    BY DEF Accumulate
  <2>3. IsRows(a)
    BY <1>1, <2>1, <2>2 DEF IsRows, Holds
  <2> QED
    BY <1>2, <2>3 DEF Holds
<1>4. ASSUME NEW x \in Events
      PROVE  InRows(a, x) <=> InRows(b, x) \/ (x = e /\ e.kind = "count")
  BY <1>1 DEF InRows, Accumulate
<1> QED
  BY <1>3, <1>4

LEMMA PopFacts ==
  ASSUME NEW b, NEW R, R \subseteq Events, Holds(b, R), NEW K, K \subseteq DOMAIN b
  PROVE  /\ Holds(Pop(b, K), R)
         /\ Holds(RowsToWrite(b, K), R)
         /\ \A k \in DOMAIN RowsToWrite(b, K) : RowsToWrite(b, K)[k] # {}
         /\ \A x \in Events : ~(InRows(Pop(b, K), x) /\ InRows(RowsToWrite(b, K), x))
         /\ \A x \in Events : InRows(b, x) <=>
                InRows(Pop(b, K), x) \/ InRows(RowsToWrite(b, K), x)
<1> DEFINE p == Pop(b, K)
           r == RowsToWrite(b, K)
<1>1. /\ DOMAIN p = DOMAIN b \ K
      /\ \A k \in DOMAIN p : p[k] = b[k]
      /\ p = [k \in DOMAIN p |-> p[k]]
  BY DEF Pop, Restrict
<1>2. /\ DOMAIN r = {x \in K : b[x] # {}}
      /\ \A k \in DOMAIN r : r[k] = b[k]
      /\ r = [k \in DOMAIN r |-> r[k]]
  BY DEF RowsToWrite, ShouldFlush
<1>3. Holds(p, R)
  BY <1>1 DEF Holds, IsRows
<1>4. Holds(r, R)
  BY <1>2 DEF Holds, IsRows
<1> HIDE DEF p, r
<1>5. \A x \in Events : ~(InRows(p, x) /\ InRows(r, x))
  BY <1>1, <1>2 DEF InRows
<1>6. \A x \in Events : InRows(b, x) <=> InRows(p, x) \/ InRows(r, x)
  BY <1>1, <1>2 DEF InRows
<1> QED
  BY <1>2, <1>3, <1>4, <1>5, <1>6 DEF p, r
-----------------------------------------------------------------------------
(* The inductive invariant.                                                *)

\* Every row of the table is the row of a committed batch.
TableFromWrites ==
  \A k \in DOMAIN table : \E i \in DOMAIN writes :
    /\ writes[i].state = "committed"
    /\ k \in DOMAIN writes[i].rows
    /\ table[k] = writes[i].rows[k]

\* flush_all writes once, and never through the executor's queue; the event loop
\* is blocked while it does, so nothing is added.
SyncInv ==
  /\ \A i \in DOMAIN writes : writes[i].sync =>
       /\ phase \in {"closing", "closed", "exited"}
       /\ writes[i].state # "queued"
       /\ writes[i].state = "running" => phase = "closing"
  /\ \A i, j \in DOMAIN writes : writes[i].sync /\ writes[j].sync => i = j
  /\ phase = "closing" => DOMAIN buckets = {}

\* From flush_all on, the processor is there only if the drain was aborted, and
\* only then can a bucket be open.
DrainInv ==
  phase \in {"closing", "closed", "exited"} /\ ~aborted =>
    processor = "gone" /\ DOMAIN buckets = {}

\* An open bucket was opened by some event.
OpenedByEvent == \A k \in DOMAIN buckets : \E f \in received : Key(f) = k

\* Where the events are.
Places == OwnBucketOnly /\ NoDoubleCount /\ NothingDropped

Inv ==
  /\ TypeOK
  /\ Places
  /\ TableFromWrites
  /\ SyncInv
  /\ DrainInv
  /\ OpenedByEvent
  /\ OneOpenBucketPerSymbol

LEMMA InitInv == Init => Inv
<1> SUFFICES ASSUME Init PROVE Inv
  OBVIOUS
<1>1. DOMAIN NoRows = {} /\ NoRows \in [{} -> Row]
  BY DEF NoRows
<1>2. writes = <<>> /\ DOMAIN writes = {} /\ \A S : writes \in Seq(S)
  BY DEF Init
<1>3. TypeOK
  BY <1>1, <1>2, ConstantsAssumption DEF Init, TypeOK, IsRows, Phase
<1>4. Places
  BY <1>1, <1>2 DEF Init, Places, OwnBucketOnly, NoDoubleCount, NothingDropped, Countable
<1>5. TableFromWrites /\ SyncInv /\ DrainInv /\ OpenedByEvent /\ OneOpenBucketPerSymbol
  BY <1>1, <1>2 DEF Init, TableFromWrites, SyncInv, DrainInv, OpenedByEvent,
       OneOpenBucketPerSymbol
<1> QED
  BY <1>3, <1>4, <1>5 DEF Inv

-----------------------------------------------------------------------------
(* Flushing: the part Add, PeriodicFlush and CloseSink share.  b is what   *)
(* the buckets hold when the flush begins, R what has been received.       *)

LEMMA FlushStep ==
  ASSUME TypeOK, Places,
         NEW R, R \subseteq Events, received \subseteq R, received' = R,
         NEW b, Holds(b, R),
         \A x \in Events : InRows(b, x) => Open(x) \/ x \notin received,
         \A x \in R : x.kind = "count" /\ (x \in received => Open(x)) => InRows(b, x),
         NEW K, K \subseteq DOMAIN b,
         NEW sync \in BOOLEAN,
         buckets' = Pop(b, K),
         WriteRows(RowsToWrite(b, K), sync)
  PROVE  /\ IsRows(buckets')
         /\ writes' \in Seq(Range(writes'))
         /\ \A i \in DOMAIN writes' : IsWrite(writes'[i])
         /\ Places'
         /\ DOMAIN writes \subseteq DOMAIN writes'
         /\ \A i \in DOMAIN writes : writes'[i] = writes[i]
         /\ \A i, j \in DOMAIN writes' \ DOMAIN writes : i = j
         /\ \A i \in DOMAIN writes' \ DOMAIN writes :
              /\ writes'[i].sync = sync
              /\ writes'[i].state = IF sync THEN "running" ELSE "queued"
              /\ DOMAIN RowsToWrite(b, K) # {}
<1> DEFINE p == Pop(b, K)
           r == RowsToWrite(b, K)
           n == Len(writes) + 1
<1>1. /\ Holds(p, R) /\ Holds(r, R)
      /\ \A k \in DOMAIN r : r[k] # {}
      /\ \A x \in Events : ~(InRows(p, x) /\ InRows(r, x))
      /\ \A x \in Events : InRows(b, x) <=> InRows(p, x) \/ InRows(r, x)
  BY PopFacts
<1>2. WriteRows(r, sync) /\ buckets' = p
  OBVIOUS
<1> HIDE DEF p, r
<1>3. /\ writes' \in Seq(Range(writes'))
      /\ DOMAIN writes \subseteq DOMAIN writes'
      /\ \A i \in DOMAIN writes : writes'[i] = writes[i]
      /\ \A i \in DOMAIN writes' \ DOMAIN writes :
           /\ i = n
           /\ DOMAIN r # {}
           /\ writes'[i] = [rows |-> r, state |-> IF sync THEN "running" ELSE "queued",
                            sync |-> sync]
      /\ DOMAIN r # {} => n \in DOMAIN writes' /\ writes'[n].rows = r
  <2>1. CASE DOMAIN r = {}
    BY <1>2, <2>1 DEF WriteRows, TypeOK
  <2>2. CASE DOMAIN r # {}
    <3> DEFINE w == [rows |-> r, state |-> IF sync THEN "running" ELSE "queued",
                     sync |-> sync]
    <3>1. writes' = Append(writes, w)
      BY <1>2, <2>2 DEF WriteRows
    <3>2. w.rows = r
      OBVIOUS
    <3> HIDE DEF w
    <3>3. writes \in Seq(Range(writes))
      BY DEF TypeOK
    <3>4. /\ writes' \in Seq(Range(writes'))
          /\ DOMAIN writes' = DOMAIN writes \union {n}
          /\ n \notin DOMAIN writes
          /\ \A i \in DOMAIN writes : writes'[i] = writes[i]
          /\ writes'[n] = w
      BY <3>1, <3>3, AppendFacts DEF Range
    <3>5. \A i \in DOMAIN writes' \ DOMAIN writes : i = n /\ writes'[i] = w
      BY <3>4
    <3>6. DOMAIN writes \subseteq DOMAIN writes' /\ n \in DOMAIN writes'
      BY <3>4
    <3> QED
      BY <2>2, <3>2, <3>4, <3>5, <3>6 DEF w
  <2> QED
    BY <2>1, <2>2
<1>4. \A i \in DOMAIN writes' : IsWrite(writes'[i])
  <2>1. ASSUME NEW i \in DOMAIN writes' \ DOMAIN writes PROVE IsWrite(writes'[i])
    BY <1>1, <1>3, <2>1 DEF IsWrite, Holds
  <2> QED
    BY <1>3, <2>1 DEF TypeOK
<1>5. OwnBucketOnly'
  <2>1. \A k : EventsOf(k)' = {e \in R : e.kind = "count" /\ Key(e) = k}
    BY DEF EventsOf, Countable
  <2>2. \A k \in DOMAIN p : p[k] \subseteq EventsOf(k)'
    BY <1>1, <2>1 DEF Holds
  <2>3. \A k \in DOMAIN r : r[k] \subseteq EventsOf(k)'
    BY <1>1, <2>1 DEF Holds
  <2>4. \A k : EventsOf(k) \subseteq EventsOf(k)'
    BY <2>1 DEF EventsOf, Countable
  <2>5. \A i \in DOMAIN writes' : \A k \in DOMAIN writes'[i].rows :
          writes'[i].rows[k] \subseteq EventsOf(k)'
    BY <1>3, <2>3, <2>4 DEF Places, OwnBucketOnly
  <2> QED
    BY <1>2, <2>2, <2>5 DEF OwnBucketOnly
<1>6. \A x \in Events, i \in DOMAIN writes : InWrite(i, x) => x \in received /\ ~InRows(b, x)
  <2> SUFFICES ASSUME NEW x \in Events, NEW i \in DOMAIN writes, InWrite(i, x)
               PROVE  x \in received /\ ~InRows(b, x)
    OBVIOUS
  <2>1. x \in received
    BY DEF InWrite, InRows, Places, OwnBucketOnly, EventsOf, Countable
  <2>2. ~Open(x)
    BY DEF Places, NoDoubleCount
  <2> QED
    BY <2>1, <2>2
<1>7. \A x \in Events, i \in DOMAIN writes' :
        InWrite(i, x)' <=> (IF i \in DOMAIN writes THEN InWrite(i, x) ELSE InRows(r, x))
  BY <1>3 DEF InWrite
<1>8. \A x : Open(x)' <=> InRows(p, x)
  BY <1>2 DEF Open, InRows
<1>9. NoDoubleCount'
  BY <1>1, <1>3, <1>6, <1>7, <1>8 DEF Places, NoDoubleCount
<1>10. NothingDropped'
  <2> SUFFICES ASSUME NEW x \in R, x.kind = "count"
               PROVE  Open(x)' \/ \E i \in DOMAIN writes' : InWrite(i, x)'
    BY DEF NothingDropped, Countable
  <2>1. CASE InRows(b, x)
    <3>1. CASE InRows(p, x)
      BY <1>8, <3>1
    <3>2. CASE InRows(r, x)
      <4>1. DOMAIN r # {}
        BY <3>2 DEF InRows
      <4> QED
        BY <1>3, <3>2, <4>1 DEF InWrite
    <3> QED
      BY <1>1, <2>1, <3>1, <3>2
  <2>2. CASE ~InRows(b, x)
    <3>1. x \in received /\ ~Open(x)
      BY <2>2
    <3>2. PICK i \in DOMAIN writes : InWrite(i, x)
      BY <3>1 DEF Places, NothingDropped, Countable
    <3>3. i \in DOMAIN writes' /\ InWrite(i, x)'
      BY <1>3, <3>2 DEF InWrite
    <3> QED
      BY <3>3
  <2> QED
    BY <2>1, <2>2
<1>11. IsRows(buckets')
  BY <1>1, <1>2 DEF Holds
<1> QED
  BY <1>3, <1>4, <1>5, <1>9, <1>10, <1>11 DEF Places, r
StateSet(s, t, i, st) == t = [s EXCEPT ![i].state = st]

\* The record a batch becomes when its state changes.
LEMMA StateChange ==
  ASSUME NEW s, s \in Seq(Range(s)), NEW i \in DOMAIN s, IsWrite(s[i]), NEW st, NEW t,
         StateSet(s, t, i, st)
  PROVE  /\ t \in Seq(Range(t))
         /\ DOMAIN t = DOMAIN s
         /\ t[i] = [rows |-> s[i].rows, state |-> st, sync |-> s[i].sync]
         /\ \A j \in DOMAIN s : j # i => t[j] = s[j]
<1>1. [s[i] EXCEPT !.state = st] = [rows |-> s[i].rows, state |-> st, sync |-> s[i].sync]
  BY DEF IsWrite
<1> DEFINE w == [s[i] EXCEPT !.state = st]
<1>2. Replaced(s, t, i, w)
  BY DEF StateSet, Replaced
<1> HIDE DEF w
<1>3. /\ t \in Seq(Range(t))
      /\ DOMAIN t = DOMAIN s
      /\ t[i] = w
      /\ \A j \in DOMAIN s : j # i => t[j] = s[j]
  BY <1>2, ReplaceFacts
<1> QED
  BY <1>1, <1>3 DEF w

\* A batch changes state and nothing else does.
LEMMA WriteStep ==
  ASSUME TypeOK, Places, NEW i \in DOMAIN writes,
         NEW st \in {"running", "committed", "failed"},
         writes' \in Seq(Range(writes')),
         DOMAIN writes' = DOMAIN writes,
         writes'[i] = [rows |-> writes[i].rows, state |-> st, sync |-> writes[i].sync],
         \A j \in DOMAIN writes : j # i => writes'[j] = writes[j],
         UNCHANGED <<buckets, received>>
  PROVE  /\ \A j \in DOMAIN writes' : IsWrite(writes'[j])
         /\ Places'
         /\ \A j \in DOMAIN writes : /\ writes'[j].rows = writes[j].rows
                                     /\ writes'[j].sync = writes[j].sync
                                     /\ j # i => writes'[j].state = writes[j].state
         /\ writes'[i].state = st
<1>1. IsWrite(writes[i])
  BY DEF TypeOK
<1>2. writes'[i].rows = writes[i].rows /\ writes'[i].sync = writes[i].sync /\ writes'[i].state = st
  OBVIOUS
<1>3. IsWrite(writes'[i])
  BY <1>1, <1>2 DEF IsWrite
<1>7. \A j \in DOMAIN writes' : IsWrite(writes'[j])
  BY <1>3 DEF TypeOK
<1>8. \A j \in DOMAIN writes : /\ writes'[j].rows = writes[j].rows
                               /\ writes'[j].sync = writes[j].sync
                               /\ j # i => writes'[j].state = writes[j].state
  BY <1>2
<1>9. \A j \in DOMAIN writes : \A x : InWrite(j, x)' <=> InWrite(j, x)
  BY <1>8 DEF InWrite, InRows
<1>10. \A x : Open(x)' <=> Open(x)
  BY DEF Open, InRows
<1>11. Countable' = Countable /\ \A k : EventsOf(k)' = EventsOf(k)
  BY DEF Countable, EventsOf
<1>12. OwnBucketOnly'
  BY <1>8, <1>11 DEF Places, OwnBucketOnly
<1>13. NoDoubleCount'
  BY <1>9, <1>10 DEF Places, NoDoubleCount
<1>14. NothingDropped'
  BY <1>9, <1>10, <1>11 DEF Places, NothingDropped
<1> QED
  BY <1>2, <1>7, <1>8, <1>12, <1>13, <1>14 DEF Places

-----------------------------------------------------------------------------
(* The start of the window never goes back as time goes on.                *)

LEMMA BucketStartMonotone ==
  ASSUME NEW t \in Nat, NEW u \in Nat, t <= u
  PROVE  BucketStart(t) <= BucketStart(u) /\ BucketStart(t) \in Int /\ BucketStart(u) \in Int
<1>1. Window \in Nat /\ Window > 0
  BY ConstantsAssumption
<1>2. \A x \in Nat : /\ x \div Window \in Nat
                     /\ x % Window \in 0 .. Window - 1
                     /\ x = Window * (x \div Window) + (x % Window)
  BY <1>1
<1> DEFINE q(x) == x \div Window
<1>3. \A x \in Nat : q(x) \in Nat /\ BucketStart(x) = Window * q(x)
  BY <1>1, <1>2 DEF BucketStart
<1>4. q(t) <= q(u)
  <2> SUFFICES ASSUME q(t) >= q(u) + 1 PROVE FALSE
    BY <1>3
  <2>1. Window * q(t) >= Window * (q(u) + 1)
    BY <1>1, <1>3
  <2>2. Window * (q(u) + 1) = Window * q(u) + Window
    BY <1>1, <1>3
  <2>3. u < Window * q(u) + Window /\ t >= Window * q(t)
    BY <1>1, <1>2
  <2> QED
    BY <1>1, <1>3, <2>1, <2>2, <2>3
<1> QED
  BY <1>1, <1>3, <1>4
-----------------------------------------------------------------------------
(* Every action preserves the invariant.                                   *)

LEMMA HoldsNow == TypeOK /\ Places => Holds(buckets, received)
BY DEF TypeOK, Places, OwnBucketOnly, EventsOf, Countable, Holds

LEMMA AddInv == ASSUME Inv, NEW e \in Events, Add(e) PROVE Inv'
<1> DEFINE b == Accumulate(buckets, e)
           R == received \union {e}
           K == StaleKeys(b, e.time)
<1>1. /\ received' = R /\ R \subseteq Events /\ received \subseteq R /\ e \notin received
      /\ processor = "running" /\ phase \notin {"closing", "exited"}
      /\ UNCHANGED <<table, now, phase, processor, aborted>>
  BY DEF Add, Processing, Arrives, Inv, TypeOK, pipeline
<1>2. /\ Holds(b, R)
      /\ \A x \in Events : InRows(b, x) <=> Open(x) \/ (x = e /\ e.kind = "count")
  BY AccumulateHolds, HoldsNow DEF Inv, TypeOK, Open
<1>3. K \subseteq DOMAIN b
  BY DEF StaleKeys
<1>4. buckets' = Pop(b, K) /\ WriteRows(RowsToWrite(b, K), FALSE)
  BY DEF Add, MaybeFlush
<1>5. DOMAIN b = DOMAIN buckets \union {Key(e)}
  BY DEF Accumulate
<1>6. DOMAIN buckets' = {k \in DOMAIN b : ~(k[2] < BucketStart(e.time))}
  BY <1>4 DEF Pop, Restrict, StaleKeys
<1> HIDE DEF b, K
<1>7. /\ IsRows(buckets')
      /\ writes' \in Seq(Range(writes'))
      /\ \A i \in DOMAIN writes' : IsWrite(writes'[i])
      /\ Places'
      /\ DOMAIN writes \subseteq DOMAIN writes'
      /\ \A i \in DOMAIN writes : writes'[i] = writes[i]
      /\ \A i \in DOMAIN writes' \ DOMAIN writes : writes'[i].sync = FALSE
  BY <1>1, <1>2, <1>3, <1>4, FlushStep DEF Inv
<1>8. TypeOK'
  BY <1>1, <1>7 DEF Inv, TypeOK
<1>9. TableFromWrites'
  BY <1>1, <1>7 DEF Inv, TableFromWrites
<1>10. SyncInv' /\ DrainInv'
  BY <1>1, <1>7 DEF Inv, SyncInv, DrainInv
<1>11. OpenedByEvent'
  BY <1>1, <1>5, <1>6 DEF Inv, OpenedByEvent
<1>12. OneOpenBucketPerSymbol'
  <2>1. ASSUME NEW k \in DOMAIN buckets', k[1] = e.symbol PROVE k = Key(e)
    <3>1. CASE k # Key(e)
      <4>1. PICK f \in received : Key(f) = k
        BY <1>5, <1>6, <3>1 DEF Inv, OpenedByEvent
      <4>2. f.symbol = e.symbol /\ k[2] = BucketStart(f.time)
        BY <2>1, <4>1 DEF Key
      <4>3. f.time <= e.time /\ f.time \in Nat /\ e.time \in Nat
        BY <4>2, ConstantsAssumption DEF Add, Arrives, Inv, TypeOK, Events
      <4>4. /\ BucketStart(f.time) <= BucketStart(e.time)
            /\ BucketStart(f.time) \in Int /\ BucketStart(e.time) \in Int
        BY <4>3, BucketStartMonotone
      <4>5. BucketStart(f.time) = BucketStart(e.time)
        BY <1>6, <4>2, <4>4
      <4> QED
        BY <3>1, <4>1, <4>2, <4>5 DEF Key
    <3> QED
      BY <3>1
  <2>2. ASSUME NEW k \in DOMAIN buckets', NEW l \in DOMAIN buckets', k[1] = l[1],
               k[1] # e.symbol
        PROVE  k = l
    <3>1. k # Key(e) /\ l # Key(e)
      BY <2>2 DEF Key
    <3> QED
      BY <1>1, <1>5, <1>6, <2>2, <3>1 DEF Inv, OneOpenBucketPerSymbol
  <2> QED
    BY <2>1, <2>2 DEF OneOpenBucketPerSymbol
<1> QED
  BY <1>7, <1>8, <1>9, <1>10, <1>11, <1>12 DEF Inv

LEMMA AddRaisesInv == ASSUME Inv, NEW e \in Events, AddRaises(e) PROVE Inv'
<1> DEFINE b == Accumulate(buckets, e)
           R == received \union {e}
<1>1. /\ received' = R /\ R \subseteq Events /\ e \notin received /\ e.kind # "count"
      /\ processor = "running" /\ phase \notin {"closing", "exited"}
      /\ processor' = "gone"
      /\ UNCHANGED <<writes, table, now, phase, aborted>> /\ buckets' = b
  BY DEF AddRaises, Processing, Arrives, Inv, TypeOK
<1>2. /\ Holds(b, R)
      /\ \A x \in Events : InRows(b, x) <=> Open(x)
  BY <1>1, AccumulateHolds, HoldsNow DEF Inv, TypeOK, Open
<1>3. DOMAIN b = DOMAIN buckets \union {Key(e)}
  BY DEF Accumulate
<1> HIDE DEF b
<1>4. Countable' = Countable
  BY <1>1 DEF Countable
<1>5. \A k : EventsOf(k)' = EventsOf(k)
  BY <1>4 DEF EventsOf
<1>6. \A x \in Events : Open(x)' <=> Open(x)
  BY <1>1, <1>2 DEF Open, InRows
<1>7. \A x, i : InWrite(i, x)' <=> InWrite(i, x)
  BY <1>1 DEF InWrite, InRows
<1>8. OwnBucketOnly'
  <2>1. \A k \in DOMAIN b : b[k] \subseteq EventsOf(k)'
    BY <1>1, <1>2 DEF Holds, EventsOf, Countable
  <2>2. \A i \in DOMAIN writes : \A k \in DOMAIN writes[i].rows :
          writes[i].rows[k] \subseteq EventsOf(k)'
    BY <1>5 DEF Inv, Places, OwnBucketOnly
  <2> QED
    BY <1>1, <2>1, <2>2 DEF OwnBucketOnly
<1>9. NoDoubleCount'
  BY <1>1, <1>6, <1>7 DEF Inv, Places, NoDoubleCount
<1>10. NothingDropped'
  <2>1. Countable \subseteq Events
    BY DEF Countable, Inv, TypeOK
  <2> QED
    BY <1>1, <1>4, <1>6, <1>7, <2>1 DEF Inv, Places, NothingDropped
<1>11. TypeOK'
  BY <1>1, <1>2 DEF Inv, TypeOK, Holds, Phase
<1>12. TableFromWrites' /\ SyncInv' /\ DrainInv' /\ OneOpenBucketPerSymbol'
  BY <1>1 DEF Inv, TableFromWrites, SyncInv, DrainInv, OneOpenBucketPerSymbol
<1>13. OpenedByEvent'
  BY <1>1, <1>3 DEF Inv, OpenedByEvent
<1> QED
  BY <1>8, <1>9, <1>10, <1>11, <1>12, <1>13 DEF Inv, Places

LEMMA FlushNowInv ==
  ASSUME Inv, NEW K, K \subseteq DOMAIN buckets, NEW sync \in BOOLEAN,
         buckets' = Pop(buckets, K),
         WriteRows(RowsToWrite(buckets, K), sync),
         UNCHANGED <<table, now, received>>
  PROVE  /\ IsRows(buckets')
         /\ writes' \in Seq(Range(writes'))
         /\ \A i \in DOMAIN writes' : IsWrite(writes'[i])
         /\ Places'
         /\ DOMAIN writes \subseteq DOMAIN writes'
         /\ \A i \in DOMAIN writes : writes'[i] = writes[i]
         /\ \A i, j \in DOMAIN writes' \ DOMAIN writes : i = j
         /\ \A i \in DOMAIN writes' \ DOMAIN writes :
              /\ writes'[i].sync = sync
              /\ writes'[i].state = IF sync THEN "running" ELSE "queued"
              /\ DOMAIN RowsToWrite(buckets, K) # {}
         /\ TableFromWrites' /\ OpenedByEvent'
<1>1. received \subseteq Events /\ received' = received /\ Holds(buckets, received)
  BY HoldsNow DEF Inv, TypeOK
<1>2. \A x : InRows(buckets, x) <=> Open(x)
  BY DEF Open
<1>3. TypeOK /\ Places
  BY DEF Inv
<1>4. /\ IsRows(buckets')
      /\ writes' \in Seq(Range(writes'))
      /\ \A i \in DOMAIN writes' : IsWrite(writes'[i])
      /\ Places'
      /\ DOMAIN writes \subseteq DOMAIN writes'
      /\ \A i \in DOMAIN writes : writes'[i] = writes[i]
      /\ \A i, j \in DOMAIN writes' \ DOMAIN writes : i = j
      /\ \A i \in DOMAIN writes' \ DOMAIN writes :
           /\ writes'[i].sync = sync
           /\ writes'[i].state = IF sync THEN "running" ELSE "queued"
           /\ DOMAIN RowsToWrite(buckets, K) # {}
  BY <1>1, <1>2, <1>3, FlushStep
<1>5. TableFromWrites'
  BY <1>4 DEF Inv, TableFromWrites
<1>6. DOMAIN buckets' \subseteq DOMAIN buckets
  BY DEF Pop, Restrict
<1>7. OpenedByEvent'
  BY <1>1, <1>6 DEF Inv, OpenedByEvent
<1> QED
  BY <1>4, <1>5, <1>7

LEMMA PeriodicFlushInv == Inv /\ PeriodicFlush => Inv'
<1> SUFFICES ASSUME Inv, PeriodicFlush PROVE Inv'
  OBVIOUS
<1> DEFINE K == StaleKeys(buckets, now)
<1>1. /\ K \subseteq DOMAIN buckets
      /\ buckets' = Pop(buckets, K)
      /\ WriteRows(RowsToWrite(buckets, K), FALSE)
      /\ phase = "running"
      /\ UNCHANGED <<table, now, phase, processor, aborted, received>>
  BY DEF PeriodicFlush, MaybeFlush, StaleKeys, pipeline
<1> HIDE DEF K
<1>2. /\ IsRows(buckets')
      /\ writes' \in Seq(Range(writes'))
      /\ \A i \in DOMAIN writes' : IsWrite(writes'[i])
      /\ Places'
      /\ \A i \in DOMAIN writes : writes'[i] = writes[i]
      /\ \A i \in DOMAIN writes' \ DOMAIN writes : writes'[i].sync = FALSE
      /\ TableFromWrites' /\ OpenedByEvent'
  BY <1>1, FlushNowInv
<1>3. DOMAIN buckets' \subseteq DOMAIN buckets
  BY <1>1 DEF Pop, Restrict
<1>4. TypeOK'
  BY <1>1, <1>2 DEF Inv, TypeOK
<1>5. SyncInv' /\ DrainInv' /\ OneOpenBucketPerSymbol'
  BY <1>1, <1>2, <1>3 DEF Inv, SyncInv, DrainInv, OneOpenBucketPerSymbol
<1> QED
  BY <1>2, <1>4, <1>5 DEF Inv
LEMMA CloseSinkInv == Inv /\ CloseSink => Inv'
<1> SUFFICES ASSUME Inv, CloseSink PROVE Inv'
  OBVIOUS
<1> DEFINE K == DOMAIN buckets
           r == RowsToWrite(buckets, K)
<1>1. /\ phase = "stopping" /\ (processor = "gone" \/ aborted)
      /\ phase' = IF DOMAIN r = {} THEN "closed" ELSE "closing"
      /\ buckets' = NoRows
      /\ WriteRows(r, TRUE)
      /\ UNCHANGED <<table, now, processor, aborted, received>>
  BY DEF CloseSink
<1>2. buckets' = Pop(buckets, K) /\ DOMAIN buckets' = {}
  BY <1>1 DEF Pop, Restrict, NoRows
<1>3. /\ IsRows(buckets')
      /\ writes' \in Seq(Range(writes'))
      /\ \A i \in DOMAIN writes' : IsWrite(writes'[i])
      /\ Places'
      /\ \A i \in DOMAIN writes : writes'[i] = writes[i]
      /\ \A i, j \in DOMAIN writes' \ DOMAIN writes : i = j
      /\ \A i \in DOMAIN writes' \ DOMAIN writes :
           /\ writes'[i].sync = TRUE
           /\ writes'[i].state = "running"
           /\ DOMAIN r # {}
      /\ TableFromWrites' /\ OpenedByEvent'
  BY <1>1, <1>2, FlushNowInv
<1> HIDE DEF r
<1>4. TypeOK'
  BY <1>1, <1>3 DEF Inv, TypeOK, Phase
<1>5. \A i \in DOMAIN writes : ~writes[i].sync
  BY <1>1 DEF Inv, SyncInv
<1>6. SyncInv'
  <2>1. phase' \in {"closing", "closed"}
    BY <1>1
  <2>2. \A i \in DOMAIN writes' : writes'[i].sync =>
          writes'[i].state = "running" /\ phase' = "closing"
    BY <1>1, <1>3, <1>5
  <2>3. \A i, j \in DOMAIN writes' : writes'[i].sync /\ writes'[j].sync => i = j
    BY <1>3, <1>5
  <2> QED
    BY <1>2, <2>1, <2>2, <2>3 DEF SyncInv
<1>7. DrainInv'
  BY <1>1, <1>2 DEF Inv, TypeOK, DrainInv
<1>8. OneOpenBucketPerSymbol'
  BY <1>2 DEF OneOpenBucketPerSymbol
<1> QED
  BY <1>3, <1>4, <1>6, <1>7, <1>8 DEF Inv

LEMMA TickInv == Inv /\ (\E t \in Clock : Tick(t)) => Inv'
BY DEF Inv, Tick, pipeline, TypeOK, Phase, Places, OwnBucketOnly, NoDoubleCount,
   NothingDropped, Countable, EventsOf, Open, InWrite, InRows, TableFromWrites, SyncInv,
   DrainInv, OpenedByEvent, OneOpenBucketPerSymbol

LEMMA StopInv == Inv /\ Stop => Inv'
BY DEF Inv, Stop, TypeOK, Phase, Places, OwnBucketOnly, NoDoubleCount,
   NothingDropped, Countable, EventsOf, Open, InWrite, InRows, TableFromWrites, SyncInv,
   DrainInv, OpenedByEvent, OneOpenBucketPerSymbol

LEMMA DrainedInv == Inv /\ Drained => Inv'
BY DEF Inv, Drained, TypeOK, Phase, Places, OwnBucketOnly, NoDoubleCount,
   NothingDropped, Countable, EventsOf, Open, InWrite, InRows, TableFromWrites, SyncInv,
   DrainInv, OpenedByEvent, OneOpenBucketPerSymbol

LEMMA DrainAbortedInv == Inv /\ DrainAborted => Inv'
BY DEF Inv, DrainAborted, TypeOK, Phase, Places, OwnBucketOnly, NoDoubleCount,
   NothingDropped, Countable, EventsOf, Open, InWrite, InRows, TableFromWrites, SyncInv,
   DrainInv, OpenedByEvent, OneOpenBucketPerSymbol

LEMMA ExitInv == Inv /\ Exit => Inv'
BY DEF Inv, Exit, TypeOK, Phase, Places, OwnBucketOnly, NoDoubleCount,
   NothingDropped, Countable, EventsOf, Open, InWrite, InRows, TableFromWrites, SyncInv,
   DrainInv, OpenedByEvent, OneOpenBucketPerSymbol

LEMMA StutterInv == Inv /\ UNCHANGED vars => Inv'
BY DEF Inv, vars, TypeOK, Phase, Places, OwnBucketOnly, NoDoubleCount,
   NothingDropped, Countable, EventsOf, Open, InWrite, InRows, TableFromWrites, SyncInv,
   DrainInv, OpenedByEvent, OneOpenBucketPerSymbol

\* What StartWrite, CommitWrite and FailWrite share.
LEMMA BatchStep ==
  ASSUME Inv, NEW i \in DOMAIN writes,
         NEW st \in {"running", "committed", "failed"},
         SetState(i, st),
         writes[i].state # "committed",
         UNCHANGED <<buckets, now, received>>
  PROVE  /\ writes' \in Seq(Range(writes'))
         /\ DOMAIN writes' = DOMAIN writes
         /\ \A j \in DOMAIN writes' : IsWrite(writes'[j])
         /\ Places'
         /\ \A j \in DOMAIN writes : /\ writes'[j].rows = writes[j].rows
                                     /\ writes'[j].sync = writes[j].sync
                                     /\ j # i => writes'[j].state = writes[j].state
         /\ writes'[i].state = st
         /\ OpenedByEvent'
         /\ \A k \in DOMAIN table : \E j \in DOMAIN writes' :
              /\ writes'[j].state = "committed"
              /\ k \in DOMAIN writes'[j].rows
              /\ table[k] = writes'[j].rows[k]
<1>1. writes \in Seq(Range(writes)) /\ IsWrite(writes[i]) /\ TypeOK /\ Places
  BY DEF Inv, TypeOK
<1>2. /\ writes' \in Seq(Range(writes'))
      /\ DOMAIN writes' = DOMAIN writes
      /\ writes'[i] = [rows |-> writes[i].rows, state |-> st, sync |-> writes[i].sync]
      /\ \A j \in DOMAIN writes : j # i => writes'[j] = writes[j]
  <2>1. StateSet(writes, writes', i, st)
    BY DEF SetState, StateSet
  <2> QED
    BY <1>1, <2>1, StateChange
<1>3. /\ \A j \in DOMAIN writes' : IsWrite(writes'[j])
      /\ Places'
      /\ \A j \in DOMAIN writes : /\ writes'[j].rows = writes[j].rows
                                  /\ writes'[j].sync = writes[j].sync
                                  /\ j # i => writes'[j].state = writes[j].state
      /\ writes'[i].state = st
  BY <1>1, <1>2, WriteStep
<1>4. OpenedByEvent'
  BY DEF Inv, OpenedByEvent
<1>5. \A k \in DOMAIN table : \E j \in DOMAIN writes' :
        /\ writes'[j].state = "committed"
        /\ k \in DOMAIN writes'[j].rows
        /\ table[k] = writes'[j].rows[k]
  <2> SUFFICES ASSUME NEW k \in DOMAIN table
               PROVE  \E j \in DOMAIN writes' :
                        /\ writes'[j].state = "committed"
                        /\ k \in DOMAIN writes'[j].rows
                        /\ table[k] = writes'[j].rows[k]
    OBVIOUS
  <2>1. PICK j \in DOMAIN writes : /\ writes[j].state = "committed"
                                   /\ k \in DOMAIN writes[j].rows
                                   /\ table[k] = writes[j].rows[k]
    BY DEF Inv, TableFromWrites
  <2>2. j # i
    BY <2>1
  <2> QED
    BY <1>2, <2>1, <2>2
<1> QED
  BY <1>2, <1>3, <1>4, <1>5

LEMMA StartWriteInv == ASSUME Inv, NEW i \in DOMAIN writes, StartWrite(i) PROVE Inv'
<1>1. /\ SetState(i, "running")
      /\ writes[i].state = "queued"
      /\ UNCHANGED <<buckets, table, now, phase, processor, aborted, received>>
  BY DEF StartWrite, pipeline
<1>2. ~writes[i].sync
  BY <1>1 DEF Inv, SyncInv
<1>3. /\ writes' \in Seq(Range(writes'))
      /\ DOMAIN writes' = DOMAIN writes
      /\ \A j \in DOMAIN writes' : IsWrite(writes'[j])
      /\ Places' /\ OpenedByEvent'
      /\ \A j \in DOMAIN writes : /\ writes'[j].sync = writes[j].sync
                                  /\ j # i => writes'[j].state = writes[j].state
      /\ TableFromWrites'
  BY <1>1, BatchStep DEF TableFromWrites
<1>4. TypeOK'
  BY <1>1, <1>3 DEF Inv, TypeOK
<1>5. SyncInv' /\ DrainInv' /\ OneOpenBucketPerSymbol'
  BY <1>1, <1>2, <1>3 DEF Inv, SyncInv, DrainInv, OneOpenBucketPerSymbol
<1> QED
  BY <1>3, <1>4, <1>5 DEF Inv

\* What CommitWrite and FailWrite share.
LEMMA FinishInv ==
  ASSUME Inv, NEW i \in DOMAIN writes, NEW st \in {"committed", "failed"},
         writes[i].state = "running",
         SetState(i, st),
         Return(i), UNCHANGED <<buckets, now, processor, aborted, received>>,
         IsRows(table'), TableFromWrites'
  PROVE  Inv'
<1>1. /\ writes' \in Seq(Range(writes'))
      /\ DOMAIN writes' = DOMAIN writes
      /\ \A j \in DOMAIN writes' : IsWrite(writes'[j])
      /\ Places' /\ OpenedByEvent'
      /\ \A j \in DOMAIN writes : /\ writes'[j].sync = writes[j].sync
                                  /\ j # i => writes'[j].state = writes[j].state
      /\ writes'[i].state = st
  BY BatchStep
<1>2. phase' = IF writes[i].sync THEN "closed" ELSE phase
  BY DEF Return
<1>3. TypeOK'
  BY <1>1, <1>2 DEF Inv, TypeOK, Phase
<1>4. OneOpenBucketPerSymbol'
  BY DEF Inv, OneOpenBucketPerSymbol
<1>5. SyncInv' /\ DrainInv'
  <2>1. CASE writes[i].sync
    <3>1. phase = "closing" /\ phase' = "closed"
      BY <1>2, <2>1 DEF Inv, SyncInv
    <3>2. \A j \in DOMAIN writes : writes[j].sync => j = i
      BY <2>1 DEF Inv, SyncInv
    <3> QED
      BY <1>1, <3>1, <3>2 DEF Inv, SyncInv, DrainInv
  <2>2. CASE ~writes[i].sync
    BY <1>1, <1>2, <2>2 DEF Inv, SyncInv, DrainInv
  <2> QED
    BY <2>1, <2>2
<1> QED
  BY <1>1, <1>3, <1>4, <1>5 DEF Inv

LEMMA CommitWriteInv == ASSUME Inv, NEW i \in DOMAIN writes, CommitWrite(i) PROVE Inv'
<1>1. /\ SetState(i, "committed")
      /\ writes[i].state = "running"
      /\ table' = Upsert(table, writes[i].rows)
      /\ Return(i) /\ UNCHANGED <<buckets, now, processor, aborted, received>>
  BY DEF CommitWrite
<1>2. IsRows(writes[i].rows) /\ IsRows(table)
  BY DEF Inv, TypeOK, IsWrite
<1>3. /\ DOMAIN table' = DOMAIN table \union DOMAIN writes[i].rows
      /\ \A k \in DOMAIN table' :
           table'[k] = IF k \in DOMAIN writes[i].rows THEN writes[i].rows[k] ELSE table[k]
      /\ table' = [k \in DOMAIN table' |-> table'[k]]
  BY <1>1 DEF Upsert
<1>4. IsRows(table')
  <2>1. \A k \in DOMAIN table' : table'[k] \in Row
    BY <1>2, <1>3 DEF IsRows
  <2> QED
    BY <1>2, <1>3, <2>1 DEF IsRows
<1>5. /\ DOMAIN writes' = DOMAIN writes
      /\ \A j \in DOMAIN writes : writes'[j].rows = writes[j].rows
      /\ writes'[i].state = "committed"
      /\ \A k \in DOMAIN table : \E j \in DOMAIN writes' :
           /\ writes'[j].state = "committed"
           /\ k \in DOMAIN writes'[j].rows
           /\ table[k] = writes'[j].rows[k]
  BY <1>1, BatchStep
<1>6. TableFromWrites'
  <2> SUFFICES ASSUME NEW k \in DOMAIN table'
               PROVE  \E j \in DOMAIN writes' :
                        /\ writes'[j].state = "committed"
                        /\ k \in DOMAIN writes'[j].rows
                        /\ table'[k] = writes'[j].rows[k]
    BY DEF TableFromWrites
  <2>1. CASE k \in DOMAIN writes[i].rows
    BY <1>3, <1>5, <2>1
  <2>2. CASE k \notin DOMAIN writes[i].rows
    BY <1>3, <1>5, <2>2
  <2> QED
    BY <2>1, <2>2
<1> QED
  BY <1>1, <1>4, <1>6, FinishInv

LEMMA FailWriteInv == ASSUME Inv, NEW i \in DOMAIN writes, FailWrite(i) PROVE Inv'
<1>1. /\ SetState(i, "failed")
      /\ writes[i].state = "running"
      /\ Return(i) /\ UNCHANGED <<buckets, table, now, processor, aborted, received>>
  BY DEF FailWrite
<1>2. TableFromWrites'
  BY <1>1, BatchStep DEF TableFromWrites
<1>3. IsRows(table')
  BY <1>1 DEF Inv, TypeOK
<1> QED
  BY <1>1, <1>2, <1>3, FinishInv

LEMMA NextInv == Inv /\ [Next]_vars => Inv'
<1> SUFFICES ASSUME Inv, [Next]_vars PROVE Inv'
  OBVIOUS
<1>1. ASSUME NEW e \in Events, Add(e) PROVE Inv'
  BY <1>1, AddInv
<1>2. ASSUME NEW e \in Events, AddRaises(e) PROVE Inv'
  BY <1>2, AddRaisesInv
<1>3. CASE \E t \in Clock : Tick(t)
  BY <1>3, TickInv
<1>4. CASE PeriodicFlush
  BY <1>4, PeriodicFlushInv
<1>5. CASE Stop \/ Drained \/ DrainAborted
  BY <1>5, StopInv, DrainedInv, DrainAbortedInv
<1>6. CASE CloseSink \/ Exit
  BY <1>6, CloseSinkInv, ExitInv
<1>7. ASSUME NEW i \in DOMAIN writes, StartWrite(i) PROVE Inv'
  BY <1>7, StartWriteInv
<1>8. ASSUME NEW i \in DOMAIN writes, CommitWrite(i) PROVE Inv'
  BY <1>8, CommitWriteInv
<1>9. ASSUME NEW i \in DOMAIN writes, FailWrite(i) PROVE Inv'
  BY <1>9, FailWriteInv
<1>10. CASE UNCHANGED vars
  BY <1>10, StutterInv
<1> QED
  BY <1>1, <1>2, <1>3, <1>4, <1>5, <1>6, <1>7, <1>8, <1>9, <1>10 DEF Next

\* The invariant holds in every reachable state.
LEMMA InvHolds == Spec => []Inv
<1>1. Init => Inv
  BY InitInv
<1>2. Inv /\ [Next]_vars => Inv'
  BY NextInv
<1> QED
  BY <1>1, <1>2, PTL DEF Spec
-----------------------------------------------------------------------------
(* The properties, for every value of the constants.                       *)

\* State and history stay well typed, and no batch or row handed to the
\* database is empty (_write, _should_flush).
THEOREM TypeCorrect == Spec => []TypeOK
BY InvHolds, PTL DEF Inv

\* No event is in two rows or both in a row and in memory, however the event
\* path, the timer, flush_all and the writer threads interleave.
THEOREM EventsCountedOnce == Spec => []NoDoubleCount
BY InvHolds, PTL DEF Inv, Places

\* Every event sits under its own symbol and bucket, in memory and in rows.
THEOREM EventsInOwnBucket == Spec => []OwnBucketOnly
BY InvHolds, PTL DEF Inv, Places

\* Every event accumulated is still open or was handed to the database.
THEOREM EventsNotDropped == Spec => []NothingDropped
BY InvHolds, PTL DEF Inv, Places

\* add keeps at most one bucket open per symbol while the processor runs.
THEOREM MemoryIsBounded == Spec => []OneOpenBucketPerSymbol
BY InvHolds, PTL DEF Inv

\* What flush_all leaves behind was added by a processor whose drain was aborted;
\* its own batches have been executed when it returns.
THEOREM CloseFlushesUnlessAborted == Spec => []OnlyAnAbortedDrainLeavesOpen
<1>1. Inv => OnlyAnAbortedDrainLeavesOpen
  BY DEF Inv, TypeOK, IsWrite, SyncInv, DrainInv, OnlyAnAbortedDrainLeavesOpen
<1> QED
  BY <1>1, InvHolds, PTL

\* The row of a bucket flushed once stands for every event of the bucket: only
\* an event later than the flush makes a row incomplete.
THEOREM OnTimeRowsComplete == Spec => []OnTimeRowIsComplete
<1>1. Inv => OnTimeRowIsComplete
  <2> SUFFICES ASSUME Inv, NEW k \in DOMAIN table, k \notin DOMAIN buckets,
                      \A i, j \in DOMAIN writes :
                        k \in DOMAIN writes[i].rows /\ k \in DOMAIN writes[j].rows => i = j
               PROVE  table[k] = EventsOf(k)
    BY DEF OnTimeRowIsComplete
  <2>1. PICK i \in DOMAIN writes : /\ k \in DOMAIN writes[i].rows
                                   /\ table[k] = writes[i].rows[k]
    BY DEF Inv, TableFromWrites
  <2>2. table[k] \subseteq EventsOf(k)
    BY <2>1 DEF Inv, Places, OwnBucketOnly
  <2>3. ASSUME NEW e \in EventsOf(k) PROVE e \in table[k]
    <3>1. Key(e) = k /\ ~Open(e)
      BY DEF EventsOf, Open, InRows
    <3>2. PICK j \in DOMAIN writes : InWrite(j, e)
      BY <3>1 DEF EventsOf, Inv, Places, NothingDropped
    <3>3. k \in DOMAIN writes[j].rows /\ e \in writes[j].rows[k]
      BY <3>1, <3>2 DEF InWrite, InRows
    <3> QED
      BY <2>1, <3>3
  <2> QED
    BY <2>2, <2>3
<1> QED
  BY <1>1, InvHolds, PTL

-----------------------------------------------------------------------------
(* The aggregator implements the ledger.                                   *)

LEMMA WriteRowsAppends ==
  ASSUME TypeOK, NEW rows, NEW sync \in BOOLEAN, WriteRows(rows, sync)
  PROVE  /\ DOMAIN writes \subseteq DOMAIN writes'
         /\ \A i \in DOMAIN writes : writes'[i] = writes[i]
         /\ \A i \in DOMAIN writes' \ DOMAIN writes :
              writes'[i].state \notin {"committed", "failed"}
<1>1. CASE DOMAIN rows = {}
  BY <1>1 DEF WriteRows
<1>2. CASE DOMAIN rows # {}
  <2> DEFINE w == [rows |-> rows, state |-> IF sync THEN "running" ELSE "queued",
                   sync |-> sync]
  <2>1. writes' = Append(writes, w)
    BY <1>2 DEF WriteRows
  <2>2. w.state \notin {"committed", "failed"}
    OBVIOUS
  <2> HIDE DEF w
  <2>3. /\ DOMAIN writes' = DOMAIN writes \union {Len(writes) + 1}
        /\ \A i \in DOMAIN writes : writes'[i] = writes[i]
        /\ writes'[Len(writes) + 1] = w
    BY <2>1, AppendFacts DEF TypeOK
  <2>4. \A i \in DOMAIN writes' \ DOMAIN writes : writes'[i] = w
    BY <2>3
  <2> QED
    BY <2>2, <2>3, <2>4
<1> QED
  BY <1>1, <1>2

\* A flush settles nothing.
LEMMA FlushSettlesNothing ==
  ASSUME TypeOK, NEW rows, NEW sync \in BOOLEAN, WriteRows(rows, sync)
  PROVE  \A x : Settled(x)' <=> Settled(x)
<1>1. /\ DOMAIN writes \subseteq DOMAIN writes'
      /\ \A i \in DOMAIN writes : writes'[i] = writes[i]
      /\ \A i \in DOMAIN writes' \ DOMAIN writes :
           writes'[i].state \notin {"committed", "failed"}
  BY WriteRowsAppends
<1> QED
  BY <1>1 DEF Settled, InWrite, InRows

\* Finishing batch i settles its events, which were pending until then.
LEMMA FinishSettles ==
  ASSUME Inv, NEW i \in DOMAIN writes, NEW st \in {"committed", "failed"},
         writes[i].state = "running", SetState(i, st),
         UNCHANGED <<buckets, now, received>>
  PROVE  LET S == {x \in Countable : InWrite(i, x)}
             P == {x \in Countable : ~Settled(x)}
         IN  /\ S \in SUBSET P
             /\ S # {}
             /\ {x \in Countable : ~Settled(x)}' = P \ S
             /\ Countable' = Countable
             /\ Ledger!RowsOf(S) = writes[i].rows
<1> DEFINE S == {x \in Countable : InWrite(i, x)}
           P == {x \in Countable : ~Settled(x)}
<1>1. /\ DOMAIN writes' = DOMAIN writes
      /\ \A j \in DOMAIN writes : /\ writes'[j].rows = writes[j].rows
                                  /\ j # i => writes'[j].state = writes[j].state
      /\ writes'[i].state = st
  BY BatchStep
<1>2. Countable' = Countable /\ Countable \subseteq Events
  BY DEF Countable, Inv, TypeOK
<1>3. \A x, j : j \in DOMAIN writes => (InWrite(j, x)' <=> InWrite(j, x))
  BY <1>1 DEF InWrite, InRows
<1>4. \A x : Settled(x)' <=> Settled(x) \/ InWrite(i, x)
  BY <1>1, <1>3 DEF Settled
<1>5. \A x \in Countable : InWrite(i, x) => ~Settled(x)
  BY <1>2 DEF Settled, Inv, Places, NoDoubleCount
<1>6. S \in SUBSET P
  BY <1>5
<1>7. {x \in Countable : ~Settled(x)}' = P \ S
  BY <1>2, <1>4
<1>8. IsWrite(writes[i]) /\ \A k \in DOMAIN writes[i].rows : writes[i].rows[k] \subseteq EventsOf(k)
  BY DEF Inv, TypeOK, Places, OwnBucketOnly
<1>9. \A k \in DOMAIN writes[i].rows :
        /\ writes[i].rows[k] # {}
        /\ writes[i].rows[k] = {x \in S : Key(x) = k}
  BY <1>8 DEF IsWrite, EventsOf, InWrite, InRows
<1>10. S # {}
  BY <1>8, <1>9 DEF IsWrite
<1>11. {Key(x) : x \in S} = DOMAIN writes[i].rows
  <2>1. {Key(x) : x \in S} \subseteq DOMAIN writes[i].rows
    BY DEF InWrite, InRows
  <2>2. ASSUME NEW k \in DOMAIN writes[i].rows PROVE k \in {Key(x) : x \in S}
    BY <1>9
  <2> QED
    BY <2>1, <2>2
<1> HIDE DEF S
<1>12. Ledger!RowsOf(S) = [k \in DOMAIN writes[i].rows |-> {x \in S : Key(x) = k}]
  BY <1>11 DEF Ledger!RowsOf
<1>13. writes[i].rows = [k \in DOMAIN writes[i].rows |-> writes[i].rows[k]]
  BY <1>8 DEF IsWrite, IsRows
<1>14. Ledger!RowsOf(S) = writes[i].rows
  BY <1>9, <1>12, <1>13
<1> QED
  BY <1>2, <1>6, <1>7, <1>10, <1>14 DEF S
LEMMA InitRefines == Init => Ledger!Init
BY DEF Init, Ledger!Init, Countable, NoRows

LEMMA FlushRefines ==
  ASSUME Inv, NEW rows, NEW sync \in BOOLEAN, WriteRows(rows, sync),
         UNCHANGED <<table, received>>
  PROVE  UNCHANGED Ledger!vars
<1>1. \A x : Settled(x)' <=> Settled(x)
  BY FlushSettlesNothing DEF Inv
<1>2. Countable' = Countable
  BY DEF Countable
<1> QED
  BY <1>1, <1>2 DEF Ledger!vars

LEMMA AddRefines ==
  ASSUME Inv, NEW e \in Events, Add(e)
  PROVE  [Ledger!Next]_(Ledger!vars)
<1>1. /\ received' = received \union {e} /\ e \notin received
      /\ UNCHANGED table
  BY DEF Add, Arrives
<1>2. PICK rows : WriteRows(rows, FALSE)
  BY DEF Add, MaybeFlush
<1>3. \A x : Settled(x)' <=> Settled(x)
  BY <1>2, FlushSettlesNothing DEF Inv
<1>4. CASE e.kind = "count"
  <2>1. Countable' = Countable \union {e} /\ e \notin Countable
    BY <1>1, <1>4 DEF Countable
  <2>2. ~Settled(e)
    <3> SUFFICES ASSUME NEW i \in DOMAIN writes, InWrite(i, e) PROVE FALSE
      BY DEF Settled
    <3>1. e \in received
      BY DEF InWrite, InRows, Inv, Places, OwnBucketOnly, EventsOf, Countable
    <3> QED
      BY <1>1, <3>1
  <2>3. {x \in Countable : ~Settled(x)}' = {x \in Countable : ~Settled(x)} \union {e}
    BY <1>3, <2>1, <2>2
  <2>4. Ledger!Count(e)
    BY <1>1, <2>1, <2>3 DEF Ledger!Count
  <2> QED
    BY <1>4, <2>4 DEF Ledger!Next
<1>5. CASE e.kind # "count"
  <2>1. Countable' = Countable
    BY <1>1, <1>5 DEF Countable
  <2> QED
    BY <1>1, <1>3, <2>1 DEF Ledger!vars
<1> QED
  BY <1>4, <1>5

LEMMA AddRaisesRefines ==
  ASSUME Inv, NEW e \in Events, AddRaises(e)
  PROVE  UNCHANGED Ledger!vars
BY DEF AddRaises, Arrives, Ledger!vars, Countable, Settled, InWrite, InRows

LEMMA CommitRefines ==
  ASSUME Inv, NEW i \in DOMAIN writes, CommitWrite(i)
  PROVE  Ledger!Next
<1> DEFINE S == {x \in Countable : InWrite(i, x)}
           P == {x \in Countable : ~Settled(x)}
<1>1. /\ SetState(i, "committed") /\ writes[i].state = "running"
      /\ table' = Upsert(table, writes[i].rows)
      /\ UNCHANGED <<buckets, now, received>>
  BY DEF CommitWrite
<1>2. /\ S \in SUBSET P
      /\ S # {}
      /\ {x \in Countable : ~Settled(x)}' = P \ S
      /\ Countable' = Countable
      /\ Ledger!RowsOf(S) = writes[i].rows
  BY <1>1, FinishSettles
<1> HIDE DEF S
<1>3. Ledger!Commit(S)
  BY <1>1, <1>2 DEF Ledger!Commit, Upsert
<1> QED
  BY <1>2, <1>3 DEF Ledger!Next

LEMMA FailRefines ==
  ASSUME Inv, NEW i \in DOMAIN writes, FailWrite(i)
  PROVE  Ledger!Next
<1> DEFINE S == {x \in Countable : InWrite(i, x)}
           P == {x \in Countable : ~Settled(x)}
<1>1. /\ SetState(i, "failed") /\ writes[i].state = "running"
      /\ UNCHANGED <<buckets, table, now, received>>
  BY DEF FailWrite
<1>2. /\ S \in SUBSET P
      /\ S # {}
      /\ {x \in Countable : ~Settled(x)}' = P \ S
      /\ Countable' = Countable
  BY <1>1, FinishSettles
<1> HIDE DEF S
<1>3. Ledger!Lose(S)
  BY <1>1, <1>2 DEF Ledger!Lose
<1> QED
  BY <1>2, <1>3 DEF Ledger!Next

LEMMA StartRefines ==
  ASSUME Inv, NEW i \in DOMAIN writes, StartWrite(i)
  PROVE  UNCHANGED Ledger!vars
<1>1. SetState(i, "running") /\ writes[i].state = "queued"
      /\ UNCHANGED <<buckets, table, now, received>>
  BY DEF StartWrite
<1>2. /\ DOMAIN writes' = DOMAIN writes
      /\ \A j \in DOMAIN writes : /\ writes'[j].rows = writes[j].rows
                                  /\ j # i => writes'[j].state = writes[j].state
      /\ writes'[i].state = "running"
  BY <1>1, BatchStep
<1>3. \A x : Settled(x)' <=> Settled(x)
  BY <1>1, <1>2 DEF Settled, InWrite, InRows
<1>4. Countable' = Countable
  BY <1>1 DEF Countable
<1> QED
  BY <1>1, <1>3, <1>4 DEF Ledger!vars

LEMMA StepRefines == Inv /\ [Next]_vars => [Ledger!Next]_(Ledger!vars)
<1> SUFFICES ASSUME Inv, [Next]_vars PROVE [Ledger!Next]_(Ledger!vars)
  OBVIOUS
<1>1. ASSUME NEW e \in Events, Add(e) PROVE [Ledger!Next]_(Ledger!vars)
  BY <1>1, AddRefines
<1>2. ASSUME NEW e \in Events, AddRaises(e) PROVE UNCHANGED Ledger!vars
  BY <1>2, AddRaisesRefines
<1>3. CASE \E t \in Clock : Tick(t)
  BY <1>3 DEF Tick, Ledger!vars, Countable, Settled, InWrite, InRows
<1>4. CASE PeriodicFlush
  <2>1. PICK rows : WriteRows(rows, FALSE)
    BY <1>4 DEF PeriodicFlush, MaybeFlush
  <2>2. UNCHANGED <<table, received>>
    BY <1>4 DEF PeriodicFlush
  <2> QED
    BY <2>1, <2>2, FlushRefines
<1>5. CASE Stop \/ Drained \/ DrainAborted \/ Exit
  BY <1>5 DEF Stop, Drained, DrainAborted, Exit, Ledger!vars, Countable, Settled, InWrite, InRows
<1>6. CASE CloseSink
  <2>1. PICK rows : WriteRows(rows, TRUE)
    BY <1>6 DEF CloseSink
  <2>2. UNCHANGED <<table, received>>
    BY <1>6 DEF CloseSink
  <2> QED
    BY <2>1, <2>2, FlushRefines
<1>7. ASSUME NEW i \in DOMAIN writes, StartWrite(i) PROVE UNCHANGED Ledger!vars
  BY <1>7, StartRefines
<1>8. ASSUME NEW i \in DOMAIN writes, CommitWrite(i) PROVE Ledger!Next
  BY <1>8, CommitRefines
<1>9. ASSUME NEW i \in DOMAIN writes, FailWrite(i) PROVE Ledger!Next
  BY <1>9, FailRefines
<1>10. CASE UNCHANGED vars
  BY <1>10 DEF vars, Ledger!vars, Countable, Settled, InWrite, InRows
<1> QED
  BY <1>1, <1>2, <1>3, <1>4, <1>5, <1>6, <1>7, <1>8, <1>9, <1>10 DEF Next

\* The aggregator implements the ledger: every behaviour of the buckets, the
\* timer and the threads is one in which each event is settled at most once, by
\* a batch that replaces whole rows.
THEOREM AggregatorImplementsLedger == Spec => ImplementsLedger
<1>1. Inv /\ [Next]_vars => [Ledger!Next]_(Ledger!vars)
  BY StepRefines
<1>2. Init => Ledger!Init
  BY InitRefines
<1>3. Spec => Ledger!Spec
  BY <1>1, <1>2, InvHolds, PTL DEF Spec, Ledger!Spec
<1> QED
  BY <1>3 DEF ImplementsLedger
=============================================================================
