----------------------- MODULE SentimentAggregatorProofs -----------------------
(***************************************************************************)
(* SentimentAggregator for any symbols, tweets, boot and clock.            *)
(***************************************************************************)
EXTENDS SentimentAggregator, Functions, TLAPS

-----------------------------------------------------------------------------
(* Batches in a sequence, whose elements are not typed beforehand.           *)

\* A sequence is one over its own range.
LEMMA SeqOverRange ==
  ASSUME NEW S, NEW s \in Seq(S)
  PROVE  s \in Seq(Range(s))
BY DEF Range

\* A batch is appended: the earlier ones stay where they were.
LEMMA AppendFacts ==
  ASSUME NEW s, s \in Seq(Range(s)), NEW w, NEW t, t = Append(s, w)
  PROVE  /\ t \in Seq(Range(t))
         /\ DOMAIN t = DOMAIN s \union {Len(s) + 1}
         /\ Len(s) + 1 \notin DOMAIN s
         /\ \A i \in DOMAIN s : t[i] = s[i]
         /\ t[Len(s) + 1] = w
<1> DEFINE S == Range(s) \union {w}
<1>1. s \in Seq(S)
  OBVIOUS
<1>2. t \in Seq(S) /\ Len(t) = Len(s) + 1
  BY <1>1
<1>3. t \in Seq(Range(t))
  BY <1>2, SeqOverRange
<1> QED
  BY <1>1, <1>2, <1>3

\* t is s with w in place of its i-th batch.
Replaced(s, t, i, w) == t = [s EXCEPT ![i] = w]

\* A batch is replaced: nothing else changes.
LEMMA ReplaceFacts ==
  ASSUME NEW s, s \in Seq(Range(s)), NEW i \in DOMAIN s, NEW w, NEW t,
         Replaced(s, t, i, w)
  PROVE  /\ t \in Seq(Range(t))
         /\ DOMAIN t = DOMAIN s
         /\ t[i] = w
         /\ \A j \in DOMAIN s : j # i => t[j] = s[j]
<1> DEFINE S == Range(s) \union {w}
<1>1. s \in Seq(S) /\ w \in S
  OBVIOUS
<1>2. /\ t \in Seq(S)
      /\ DOMAIN t = DOMAIN s
      /\ t[i] = w
      /\ \A j \in DOMAIN s : j # i => t[j] = s[j]
  BY <1>1 DEF Replaced
<1>3. t \in Seq(Range(t))
  BY <1>2, SeqOverRange
<1> QED
  BY <1>2, <1>3

-----------------------------------------------------------------------------
(* The invariant.                                                           *)

\* Rows of tweets of R, each under its own key.
Rows(r, R) ==
  /\ DOMAIN r \subseteq Keys
  /\ r \in [DOMAIN r -> SUBSET R]
  /\ \A k \in DOMAIN r : \A w \in r[k] : Key(w) = k

\* What the buckets hold: no empty accumulator.
Holds(b, R) == Rows(b, R) /\ \A k \in DOMAIN b : b[k] # {}

\* The watermark is the boot's bucket until the first flush, then a bucket that
\* is over.
WatermarkLags ==
  /\ Boot <= now
  /\ Boot <= lastFlushed
  /\ lastFlushed = Boot \/ lastFlushed < now

\* While the stream is up nothing was submitted beyond the watermark; hence
\* what Completed submits is submitted for the first time.
RowsBehindWatermark ==
  \A i \in DOMAIN writes : \A k \in DOMAIN writes[i].rows :
    /\ FirstValid <= k[2]
    /\ phase = "running" => k[2] <= lastFlushed

RowsAreOwn == \A i \in DOMAIN writes : Rows(writes[i].rows, received)

Inv ==
  /\ TypeOK
  /\ Holds(buckets, received)
  /\ RowsAreOwn
  /\ NoTweetTwice
  /\ NothingDropped
  /\ WatermarkLags
  /\ RowsBehindWatermark
  /\ GapFree
  /\ FallbackComesFirst

-----------------------------------------------------------------------------
(* Operators.                                                              *)

LEMMA Numbers == Boot \in Nat /\ FirstValid \in Nat /\ Clock \subseteq Nat
  BY ConstantsAssumption DEF FirstValid

LEMMA BelowNext == \A c, t, l \in Nat : c < t /\ t <= l + 1 => c <= l
  OBVIOUS

LEMMA AccumulateHolds ==
  ASSUME NEW b, NEW R, Holds(b, R), NEW w \in Tweets
  PROVE  /\ Holds(Accumulate(b, w), R \union {w})
         /\ \A x : InRows(Accumulate(b, w), x) <=> InRows(b, x) \/ x = w
<1> DEFINE a == Accumulate(b, w)
<1>1. DOMAIN a = DOMAIN b \union {Key(w)} /\ Key(w) \in Keys
  BY DEF Accumulate, Tweets, Key, Keys
<1>2. \A k \in DOMAIN a : a[k] \subseteq R \union {w} /\ a[k] # {}
  BY <1>1 DEF Holds, Rows, Accumulate
<1>3. \A k \in DOMAIN a : \A x \in a[k] : Key(x) = k
  BY <1>1 DEF Holds, Rows, Accumulate
<1>4. a = [k \in DOMAIN a |-> a[k]]
  BY DEF Accumulate
<1>5. \A x : InRows(a, x) <=> InRows(b, x) \/ x = w
  BY <1>1 DEF InRows, Accumulate
<1> QED
  BY <1>1, <1>2, <1>3, <1>4, <1>5 DEF Holds, Rows

LEMMA PopHolds ==
  ASSUME NEW b, NEW R, Holds(b, R), NEW t
  PROVE  /\ Holds(Pop(b, t), R)
         /\ \A x : InRows(Pop(b, t), x) <=> InRows(b, x) /\ Key(x)[2] >= t
<1> DEFINE p == Pop(b, t)
<1>1. DOMAIN p = {k \in DOMAIN b : k[2] >= t} /\ \A k \in DOMAIN p : p[k] = b[k]
  BY DEF Pop, Restrict
<1>2. p = [k \in DOMAIN p |-> p[k]]
  BY DEF Pop, Restrict
<1>3. Holds(p, R)
  BY <1>1, <1>2 DEF Holds, Rows
<1>4. \A x : InRows(p, x) <=> InRows(b, x) /\ Key(x)[2] >= t
  BY <1>1 DEF InRows
<1> QED
  BY <1>3, <1>4

LEMMA RowsOfHolds ==
  ASSUME NEW b, NEW R, Holds(b, R), NEW K, K \subseteq Keys
  PROVE  LET r == RowsOf(b, K) IN
         /\ DOMAIN r = K
         /\ Rows(r, R)
         /\ \A k \in K : r[k] = {} => k \notin DOMAIN b
         /\ \A x : InRows(r, x) <=> InRows(b, x) /\ Key(x) \in K
<1> DEFINE r == RowsOf(b, K)
<1>1. DOMAIN r = K /\ \A k \in K : r[k] = IF k \in DOMAIN b THEN b[k] ELSE {}
  BY DEF RowsOf
<1>2. r = [k \in DOMAIN r |-> r[k]]
  BY DEF RowsOf
<1>3. Rows(r, R)
  BY <1>1, <1>2 DEF Holds, Rows
<1>4. \A x : InRows(r, x) <=> InRows(b, x) /\ Key(x) \in K
  BY <1>1 DEF InRows
<1> QED
  BY <1>1, <1>3, <1>4 DEF Holds

\* The keys a flush takes over time t.
LEMMA FlushedKeys ==
  ASSUME NEW b, NEW R, Holds(b, R), NEW t \in Nat, lastFlushed \in Nat,
         Boot <= lastFlushed
  PROVE  LET K == Completed(t) \union Late(b, t) IN
         /\ K \subseteq Keys
         /\ \A k \in K : FirstValid <= k[2] /\ k[2] < t
         /\ \A k \in K : k \in DOMAIN b \/ lastFlushed < k[2]
         /\ \A k \in DOMAIN b : FirstValid <= k[2] /\ k[2] < t => k \in K
<1> DEFINE K == Completed(t) \union Late(b, t)
<1>1. \A k \in Keys : k[2] \in Nat
  BY DEF Keys
<1>2. \A k \in Completed(t) :
        /\ k \in Keys
        /\ FirstValid <= k[2]
        /\ lastFlushed < k[2]
        /\ k[2] < t
  BY <1>1, Numbers DEF Completed, Keys, FirstValid
<1>3. \A k \in Late(b, t) : k \in DOMAIN b /\ FirstValid <= k[2] /\ k[2] < t
  BY DEF Late
<1>4. \A k \in DOMAIN b : FirstValid <= k[2] /\ k[2] < t => k \in K
  BY DEF Late
<1>5. DOMAIN b \subseteq Keys
  BY DEF Holds, Rows
<1> QED
  BY <1>2, <1>3, <1>4, <1>5

\* What is appended by _write.
LEMMA WriteFacts ==
  ASSUME writes \in Seq(Range(writes)), NEW rows, NEW st, WriteRows(rows, st)
  PROVE  /\ writes' \in Seq(Range(writes'))
         /\ DOMAIN writes \subseteq DOMAIN writes'
         /\ \A i \in DOMAIN writes : writes'[i] = writes[i]
         /\ \A i \in DOMAIN writes' \ DOMAIN writes :
              /\ writes'[i] = [rows |-> rows, state |-> st]
              /\ DOMAIN rows # {}
              /\ i = Len(writes) + 1
         /\ DOMAIN rows # {} => \E i \in DOMAIN writes' : writes'[i].rows = rows
<1>1. CASE DOMAIN rows = {}
  BY <1>1 DEF WriteRows
<1>2. CASE DOMAIN rows # {}
  <2> DEFINE w == [rows |-> rows, state |-> st]
             n == Len(writes) + 1
  <2>1. writes' = Append(writes, w)
    BY <1>2 DEF WriteRows
  <2>2. w.rows = rows
    OBVIOUS
  <2> HIDE DEF w
  <2>3. /\ writes' \in Seq(Range(writes'))
        /\ DOMAIN writes' = DOMAIN writes \union {n}
        /\ n \notin DOMAIN writes
        /\ \A i \in DOMAIN writes : writes'[i] = writes[i]
        /\ writes'[n] = w
    BY <2>1, AppendFacts DEF Range
  <2>4. \A i \in DOMAIN writes' \ DOMAIN writes : i = n /\ writes'[i] = w
    BY <2>3
  <2>5. n \in DOMAIN writes' /\ writes'[n].rows = rows
    BY <2>2, <2>3
  <2> QED
    BY <1>2, <2>3, <2>4, <2>5 DEF w
<1> QED
  BY <1>1, <1>2
-----------------------------------------------------------------------------
(* The part Add, PeriodicFlush and FlushAll share: b is what the buckets   *)
(* hold when the flush begins, r what is submitted, p what is left.        *)

LEMMA SubmitStep ==
  ASSUME Inv,
         NEW R, R \subseteq Tweets, received \subseteq R, received' = R,
         NEW b,
         \A x \in R : InRows(b, x) => InRows(buckets, x) \/ x \notin received,
         \A x \in R : (x \in received => InRows(buckets, x)) => InRows(b, x),
         NEW p, Holds(p, R), buckets' = p,
         NEW r, Rows(r, R), WriteRows(r, "running"),
         \A x \in R : InRows(p, x) \/ InRows(r, x) => InRows(b, x),
         \A x \in R : ~(InRows(p, x) /\ InRows(r, x)),
         \A x \in R : InRows(b, x) /\ FirstValid <= x.bucket =>
                        InRows(p, x) \/ InRows(r, x)
  PROVE  /\ writes' \in Seq(Range(writes'))
         /\ \A i \in DOMAIN writes' : IsWrite(writes[i])'
         /\ RowsAreOwn'
         /\ NoTweetTwice'
         /\ NothingDropped'
<1>1. /\ writes' \in Seq(Range(writes'))
      /\ DOMAIN writes \subseteq DOMAIN writes'
      /\ \A i \in DOMAIN writes : writes'[i] = writes[i]
      /\ \A i \in DOMAIN writes' \ DOMAIN writes :
           /\ writes'[i] = [rows |-> r, state |-> "running"]
           /\ DOMAIN r # {}
           /\ i = Len(writes) + 1
      /\ DOMAIN r # {} => \E i \in DOMAIN writes' : writes'[i].rows = r
  BY WriteFacts DEF Inv, TypeOK
<1>2. \A i \in DOMAIN writes' \ DOMAIN writes : writes'[i].rows = r
  BY <1>1
<1>3. \A q : Rows(q, received) => Rows(q, R)
  BY DEF Rows
<1>4. \A i \in DOMAIN writes' : Rows(writes'[i].rows, R)
  BY <1>1, <1>2, <1>3 DEF Inv, RowsAreOwn
<1>5. \A i \in DOMAIN writes' : IsWrite(writes[i])'
  <2>1. ASSUME NEW i \in DOMAIN writes' PROVE IsRows(writes[i].rows)'
    BY <1>4 DEF IsRows, Rows
  <2>2. ASSUME NEW i \in DOMAIN writes PROVE IsWrite(writes[i])'
    BY <1>1, <2>1 DEF IsWrite, Inv, TypeOK
  <2>3. ASSUME NEW i \in DOMAIN writes' \ DOMAIN writes PROVE IsWrite(writes[i])'
    BY <1>1, <2>1 DEF IsWrite
  <2> QED
    BY <2>2, <2>3
<1>6. \A x \in R, i \in DOMAIN writes :
        InRows(writes[i].rows, x) => x \in received /\ ~InRows(b, x)
  BY DEF Inv, RowsAreOwn, Rows, InRows, NoTweetTwice
<1>7. NoTweetTwice'
  <2> SUFFICES ASSUME NEW x \in R
               PROVE  /\ \A i \in DOMAIN writes' :
                           InRows(writes'[i].rows, x) => ~InRows(p, x)
                      /\ \A i, j \in DOMAIN writes' :
                           InRows(writes'[i].rows, x) /\ InRows(writes'[j].rows, x) => i = j
    BY Zenon DEF NoTweetTwice, InRows
  <2>1. \A i \in DOMAIN writes' : InRows(writes'[i].rows, x) => ~InRows(p, x)
    BY <1>1, <1>2, <1>6
  <2>2. \A i \in DOMAIN writes, j \in DOMAIN writes' \ DOMAIN writes :
          ~(InRows(writes'[i].rows, x) /\ InRows(writes'[j].rows, x))
    BY <1>1, <1>2, <1>6
  <2>3. \A i, j \in DOMAIN writes :
          InRows(writes'[i].rows, x) /\ InRows(writes'[j].rows, x) => i = j
    BY <1>1, <1>6 DEF Inv, NoTweetTwice
  <2> QED
    BY <1>1, <2>1, <2>2, <2>3
<1>8. NothingDropped'
  <2> SUFFICES ASSUME NEW x \in R, FirstValid <= x.bucket
               PROVE  InRows(p, x) \/ \E i \in DOMAIN writes' : InRows(writes'[i].rows, x)
    BY DEF NothingDropped, InRows
  <2>1. CASE InRows(b, x)
    <3>1. CASE InRows(r, x)
      BY <1>1, <3>1 DEF InRows
    <3> QED
      BY <2>1, <3>1
  <2>2. CASE ~InRows(b, x)
    BY <1>1, <2>2 DEF Inv, NothingDropped
  <2> QED
    BY <2>1, <2>2
<1> QED
  BY <1>1, <1>4, <1>5, <1>7, <1>8 DEF RowsAreOwn

-----------------------------------------------------------------------------
(* The actions.                                                            *)

LEMMA InvInit == Init => Inv
<1> SUFFICES ASSUME Init PROVE Inv
  OBVIOUS
<1>1. DOMAIN NoRows = {} /\ \A S : NoRows \in [{} -> S]
  BY DEF NoRows
<1>2. writes = <<>> /\ DOMAIN writes = {} /\ \A S : writes \in Seq(S)
  BY DEF Init
<1>3. TypeOK
  BY <1>1, <1>2, ConstantsAssumption DEF Init, TypeOK, IsRows
<1>4. Holds(buckets, received)
  BY <1>1 DEF Init, Holds, Rows
<1>5. RowsAreOwn /\ NoTweetTwice /\ NothingDropped /\ RowsBehindWatermark /\ FallbackComesFirst
  BY <1>2 DEF Init, RowsAreOwn, NoTweetTwice, NothingDropped, RowsBehindWatermark,
       FallbackComesFirst
<1>6. WatermarkLags
  BY Numbers DEF Init, WatermarkLags
<1>7. GapFree
  BY Numbers DEF Init, GapFree, FirstValid
<1> QED
  BY <1>3, <1>4, <1>5, <1>6, <1>7 DEF Inv

\* A flush over time t, of the clock or of a tweet.
LEMMA FlushStep ==
  ASSUME Inv, phase = "running",
         NEW R, R \subseteq Tweets, received \subseteq R, received' = R,
         NEW b, Holds(b, R),
         \A x \in R : InRows(b, x) => InRows(buckets, x) \/ x \notin received,
         \A x \in R : (x \in received => InRows(buckets, x)) => InRows(b, x),
         NEW t \in Nat, t <= now,
         MaybeFlush(b, t),
         UNCHANGED <<table, now, phase>>
  PROVE  Inv'
<1> DEFINE K == Completed(t) \union Late(b, t)
           r == RowsOf(b, K)
           p == Pop(b, t)
<1>1. /\ lastFlushed \in Nat /\ now \in Nat /\ Boot \in Nat /\ FirstValid = Boot + 1
      /\ Boot <= lastFlushed /\ Boot <= now
      /\ lastFlushed = Boot \/ lastFlushed < now
  BY Numbers DEF Inv, TypeOK, WatermarkLags, FirstValid
<1>2. /\ K \subseteq Keys
      /\ \A k \in K : FirstValid <= k[2] /\ k[2] < t
      /\ \A k \in K : k \in DOMAIN b \/ lastFlushed < k[2]
      /\ \A k \in DOMAIN b : FirstValid <= k[2] /\ k[2] < t => k \in K
  BY <1>1, FlushedKeys
<1>3. Symbols \X {c \in lastFlushed + 1 .. t : c < t} \subseteq K
  BY DEF Completed
<1>4. WriteRows(r, "running") /\ buckets' = p /\ Advance(t)
  BY DEF MaybeFlush
<1> HIDE DEF K
<1>5. /\ Holds(p, R)
      /\ \A x : InRows(p, x) <=> InRows(b, x) /\ Key(x)[2] >= t
  BY PopHolds
<1>6. /\ DOMAIN r = K
      /\ Rows(r, R)
      /\ \A k \in K : r[k] = {} => k \notin DOMAIN b
      /\ \A x : InRows(r, x) <=> InRows(b, x) /\ Key(x) \in K
  BY <1>2, RowsOfHolds
<1> HIDE DEF r, p
<1>7. \A x \in R : Key(x)[2] = x.bucket /\ x.bucket \in Nat
  BY DEF Tweets, Key
<1>8. \A x \in R : ~(InRows(p, x) /\ InRows(r, x))
  BY <1>2, <1>5, <1>6, <1>7
<1>9. \A x \in R : InRows(b, x) /\ FirstValid <= x.bucket => InRows(p, x) \/ InRows(r, x)
  <2> SUFFICES ASSUME NEW x \in R, InRows(b, x), FirstValid <= x.bucket
               PROVE  InRows(p, x) \/ InRows(r, x)
    OBVIOUS
  <2>1. CASE x.bucket >= t
    BY <1>5, <1>7, <2>1
  <2>2. CASE x.bucket < t
    BY <1>2, <1>6, <1>7, <2>2 DEF InRows
  <2> QED
    BY <1>7, <2>1, <2>2
<1>10. /\ writes' \in Seq(Range(writes'))
       /\ \A i \in DOMAIN writes' : IsWrite(writes[i])'
       /\ RowsAreOwn'
       /\ NoTweetTwice'
       /\ NothingDropped'
  BY <1>4, <1>5, <1>6, <1>8, <1>9, SubmitStep
<1>11. /\ DOMAIN writes \subseteq DOMAIN writes'
       /\ \A i \in DOMAIN writes : writes'[i] = writes[i]
       /\ \A i \in DOMAIN writes' \ DOMAIN writes :
            /\ writes'[i] = [rows |-> r, state |-> "running"]
            /\ DOMAIN r # {}
            /\ i = Len(writes) + 1
       /\ DOMAIN r # {} => \E i \in DOMAIN writes' : writes'[i].rows = r
  BY <1>4, WriteFacts DEF Inv, TypeOK
<1>12. \A i \in DOMAIN writes' \ DOMAIN writes : writes'[i].rows = r
  BY <1>11
<1>13. /\ lastFlushed' \in Nat
       /\ lastFlushed' >= lastFlushed
       /\ t <= lastFlushed' + 1
       /\ lastFlushed' = lastFlushed \/ lastFlushed' = t - 1
  BY <1>1, <1>4 DEF Advance
<1>14. TypeOK'
  <2>1. IsRows(table)'
    BY DEF Inv, TypeOK, IsRows
  <2>2. IsRows(buckets)'
    BY <1>4, <1>5 DEF IsRows, Holds, Rows
  <2> QED
    BY <1>10, <1>13, <2>1, <2>2 DEF Inv, TypeOK
<1>15. WatermarkLags'
  BY <1>1, <1>13 DEF WatermarkLags
<1>16. RowsBehindWatermark'
  <2>1. ASSUME NEW i \in DOMAIN writes, NEW k \in DOMAIN writes[i].rows
        PROVE  FirstValid <= k[2] /\ k[2] <= lastFlushed'
    <3>1. k[2] \in Nat
      BY DEF Inv, RowsAreOwn, Rows, Keys
    <3> QED
      BY <1>1, <1>13, <3>1 DEF Inv, RowsBehindWatermark
  <2>2. ASSUME NEW k \in DOMAIN r PROVE FirstValid <= k[2] /\ k[2] <= lastFlushed'
    <3>1. k[2] \in Nat
      BY <1>6 DEF Rows, Keys
    <3>2. FirstValid <= k[2] /\ k[2] < t
      BY <1>2, <1>6
    <3> QED
      BY <1>13, <3>1, <3>2, BelowNext
  <2> QED
    BY <1>11, <1>12, <2>1, <2>2 DEF RowsBehindWatermark
<1>17. GapFree'
  <2> SUFFICES ASSUME NEW s \in Symbols, NEW c \in FirstValid .. lastFlushed'
               PROVE  \E i \in DOMAIN writes' : <<s, c>> \in DOMAIN writes'[i].rows
    BY DEF GapFree, InWrite
  <2>1. CASE c <= lastFlushed
    <3>1. c \in FirstValid .. lastFlushed
      BY <1>1, <2>1
    <3>2. PICK i \in DOMAIN writes : <<s, c>> \in DOMAIN writes[i].rows
      BY <3>1 DEF Inv, GapFree, InWrite
    <3> QED
      BY <1>11, <3>2
  <2>2. CASE lastFlushed < c
    <3>1. c \in {d \in lastFlushed + 1 .. t : d < t}
      BY <1>1, <1>13, <2>2
    <3>2. <<s, c>> \in K
      BY <1>3, <3>1
    <3> QED
      BY <1>6, <1>11, <3>2
  <2> QED
    BY <1>1, <2>1, <2>2
<1>18. FallbackComesFirst'
  <2> SUFFICES ASSUME NEW i \in DOMAIN writes', NEW j \in DOMAIN writes', i < j,
                      NEW k \in DOMAIN writes'[i].rows \intersect DOMAIN writes'[j].rows
               PROVE  writes'[j].rows[k] # {}
    BY DEF FallbackComesFirst
  <2>1. DOMAIN writes = 1 .. Len(writes) /\ Len(writes) \in Nat
    BY DEF Inv, TypeOK
  <2>2. i \in DOMAIN writes
    BY <1>11, <2>1
  <2>3. CASE j \in DOMAIN writes
    BY <1>11, <2>2, <2>3 DEF Inv, FallbackComesFirst
  <2>4. CASE j \notin DOMAIN writes
    <3>1. k \in DOMAIN writes[i].rows /\ k \in K /\ writes'[j].rows = r
      BY <1>6, <1>11, <1>12, <2>2, <2>4
    <3>2. k[2] \in Nat /\ k[2] <= lastFlushed
      BY <1>2, <2>2, <3>1 DEF Inv, RowsBehindWatermark, Keys
    <3>3. k \in DOMAIN b
      BY <1>1, <1>2, <3>1, <3>2
    <3> QED
      BY <1>6, <3>1, <3>3
  <2> QED
    BY <2>3, <2>4
<1> QED
  BY <1>4, <1>5, <1>10, <1>14, <1>15, <1>16, <1>17, <1>18 DEF Inv
LEMMA AddStep ==
  ASSUME Inv, NEW w \in Tweets, Add(w)
  PROVE  Inv'
<1> DEFINE R == received \union {w}
           b == Accumulate(buckets, w)
<1>1. /\ R \subseteq Tweets /\ received \subseteq R /\ received' = R
      /\ w \notin received
      /\ phase = "running" /\ w.bucket \in Nat /\ w.bucket <= now
      /\ MaybeFlush(b, w.bucket)
      /\ UNCHANGED <<table, now, phase>>
  BY DEF Add, Arrives, Inv, TypeOK, Tweets
<1>2. /\ Holds(b, R)
      /\ \A x : InRows(b, x) <=> InRows(buckets, x) \/ x = w
  BY AccumulateHolds DEF Inv
<1> HIDE DEF b
<1>3. \A x \in R : InRows(b, x) => InRows(buckets, x) \/ x \notin received
  BY <1>1, <1>2
<1>4. \A x \in R : (x \in received => InRows(buckets, x)) => InRows(b, x)
  BY <1>1, <1>2
<1> HIDE DEF R
<1> QED
  BY <1>1, <1>2, <1>3, <1>4, FlushStep

LEMMA PeriodicFlushStep ==
  ASSUME Inv, PeriodicFlush
  PROVE  Inv'
<1>1. /\ received \subseteq Tweets /\ received' = received
      /\ phase = "running" /\ now \in Nat /\ now <= now
      /\ MaybeFlush(buckets, now)
      /\ UNCHANGED <<table, now, phase>>
      /\ Holds(buckets, received)
  BY Numbers DEF PeriodicFlush, Inv, TypeOK
<1>2. \A x \in received : InRows(buckets, x) => InRows(buckets, x) \/ x \notin received
  OBVIOUS
<1>3. \A x \in received : (x \in received => InRows(buckets, x)) => InRows(buckets, x)
  OBVIOUS
<1> QED
  BY <1>1, <1>2, <1>3, FlushStep

\* flush_all: the keys of the full buckets, at whatever time.
LEMMA FlushAllStep ==
  ASSUME Inv, FlushAll
  PROVE  Inv'
<1> DEFINE K == {k \in DOMAIN buckets : FirstValid <= k[2]}
           r == RowsOf(buckets, K)
<1>1. /\ WriteRows(r, "running") /\ buckets' = NoRows
      /\ received' = received /\ received \subseteq Tweets
      /\ phase' = "returned"
      /\ UNCHANGED <<lastFlushed, table, now>>
      /\ Holds(buckets, received)
  BY DEF FlushAll, Inv, TypeOK
<1>2. K \subseteq Keys
  BY <1>1 DEF Holds, Rows
<1>3. /\ DOMAIN r = K
      /\ Rows(r, received)
      /\ \A k \in K : r[k] # {}
      /\ \A x : InRows(r, x) <=> InRows(buckets, x) /\ Key(x) \in K
  BY <1>1, <1>2, RowsOfHolds
<1>4. \A x \in received : InRows(buckets, x) /\ FirstValid <= x.bucket => InRows(r, x)
  <2>1. \A x \in received : Key(x)[2] = x.bucket
    BY <1>1 DEF Tweets, Key
  <2> QED
    BY <1>3, <2>1 DEF InRows
<1> HIDE DEF r, K
<1>5. /\ Holds(NoRows, received)
      /\ \A x : ~InRows(NoRows, x)
      /\ DOMAIN NoRows = {}
  BY DEF NoRows, Holds, Rows, InRows
<1>6. /\ writes' \in Seq(Range(writes'))
      /\ \A i \in DOMAIN writes' : IsWrite(writes[i])'
      /\ RowsAreOwn'
      /\ NoTweetTwice'
      /\ NothingDropped'
  <2>1. \A x \in received : InRows(buckets, x) => InRows(buckets, x) \/ x \notin received
    OBVIOUS
  <2>2. \A x \in received : (x \in received => InRows(buckets, x)) => InRows(buckets, x)
    OBVIOUS
  <2>3. \A x \in received : InRows(NoRows, x) \/ InRows(r, x) => InRows(buckets, x)
    BY <1>3, <1>5
  <2> QED
    BY <1>1, <1>3, <1>4, <1>5, <2>1, <2>2, <2>3, SubmitStep
<1>7. /\ DOMAIN writes \subseteq DOMAIN writes'
      /\ \A i \in DOMAIN writes : writes'[i] = writes[i]
      /\ \A i \in DOMAIN writes' \ DOMAIN writes :
           writes'[i].rows = r /\ i = Len(writes) + 1
  BY <1>1, WriteFacts DEF Inv, TypeOK
<1>8. TypeOK'
  <2>1. IsRows(buckets)' /\ IsRows(table)'
    BY <1>1, <1>5 DEF Inv, TypeOK, IsRows, NoRows
  <2> QED
    BY <1>1, <1>6, <2>1 DEF Inv, TypeOK, Ending
<1>9. WatermarkLags'
  BY <1>1 DEF Inv, WatermarkLags
<1>10. RowsBehindWatermark'
  <2>1. \A k \in DOMAIN r : FirstValid <= k[2]
    BY <1>3 DEF K
  <2> QED
    BY <1>1, <1>7, <2>1 DEF Inv, RowsBehindWatermark
<1>11. GapFree'
  BY <1>1, <1>7 DEF Inv, GapFree, InWrite
<1>12. FallbackComesFirst'
  <2> SUFFICES ASSUME NEW i \in DOMAIN writes', NEW j \in DOMAIN writes', i < j,
                      NEW k \in DOMAIN writes'[i].rows \intersect DOMAIN writes'[j].rows
               PROVE  writes'[j].rows[k] # {}
    BY DEF FallbackComesFirst
  <2>1. DOMAIN writes = 1 .. Len(writes) /\ Len(writes) \in Nat
    BY DEF Inv, TypeOK
  <2>2. i \in DOMAIN writes
    BY <1>7, <2>1
  <2>3. CASE j \in DOMAIN writes
    BY <1>7, <2>2, <2>3 DEF Inv, FallbackComesFirst
  <2>4. CASE j \notin DOMAIN writes
    BY <1>3, <1>7, <2>4
  <2> QED
    BY <2>3, <2>4
<1> QED
  BY <1>1, <1>5, <1>6, <1>8, <1>9, <1>10, <1>11, <1>12 DEF Inv

\* A writer thread ends: the rows of the batches are what they were.
LEMMA WriteEnds ==
  ASSUME Inv, NEW i \in DOMAIN writes, NEW st \in {"committed", "failed"},
         SetState(i, st), UNCHANGED <<buckets, lastFlushed, now, phase, received>>,
         IsRows(table)'
  PROVE  Inv'
<1>1. writes \in Seq(Range(writes)) /\ IsWrite(writes[i])
  BY DEF Inv, TypeOK
<1> DEFINE w == [writes[i] EXCEPT !.state = st]
<1>2. w = [rows |-> writes[i].rows, state |-> st]
  BY <1>1 DEF IsWrite
<1>3. Replaced(writes, writes', i, w)
  BY DEF SetState, Replaced
<1> HIDE DEF w
<1>4. /\ writes' \in Seq(Range(writes'))
      /\ DOMAIN writes' = DOMAIN writes
      /\ writes'[i] = w
      /\ \A j \in DOMAIN writes : j # i => writes'[j] = writes[j]
  BY <1>1, <1>3, ReplaceFacts
<1>5. \A j \in DOMAIN writes : writes'[j].rows = writes[j].rows
  BY <1>2, <1>4
<1>6. \A j \in DOMAIN writes' : IsWrite(writes[j])'
  BY <1>1, <1>2, <1>4 DEF Inv, TypeOK, IsWrite, IsRows
<1>7. TypeOK'
  BY <1>4, <1>6 DEF Inv, TypeOK, IsRows
<1>8. RowsAreOwn' /\ NoTweetTwice' /\ NothingDropped' /\ RowsBehindWatermark'
  BY <1>4, <1>5 DEF Inv, RowsAreOwn, NoTweetTwice, NothingDropped, RowsBehindWatermark
<1>9. GapFree' /\ FallbackComesFirst'
  BY <1>4, <1>5 DEF Inv, GapFree, FallbackComesFirst, InWrite
<1> QED
  BY <1>7, <1>8, <1>9 DEF Inv, WatermarkLags
LEMMA InvStep == Inv /\ [Next]_vars => Inv'
<1> SUFFICES ASSUME Inv, [Next]_vars PROVE Inv'
  OBVIOUS
<1>1. ASSUME NEW w \in [id : Ids, symbol : Symbols, bucket : Clock], Add(w)
      PROVE  Inv'
  <2>1. w \in Tweets
    BY Numbers DEF Tweets
  <2> QED
    BY <1>1, <2>1, AddStep
<1>2. CASE PeriodicFlush
  BY <1>2, PeriodicFlushStep
<1>3. ASSUME NEW t \in Clock, Tick(t)
      PROVE  Inv'
  <2>1. /\ now \in Nat /\ t \in Nat /\ Boot \in Nat /\ now < t /\ now' = t
        /\ UNCHANGED <<buckets, lastFlushed, writes, table, phase, received>>
    BY <1>3, Numbers DEF Tick, Inv, TypeOK
  <2>2. WatermarkLags'
    BY <2>1 DEF Inv, TypeOK, WatermarkLags
  <2>3. TypeOK'
    BY <2>1 DEF Inv, TypeOK, IsRows, IsWrite
  <2> QED
    BY <2>1, <2>2, <2>3 DEF Inv, RowsAreOwn, NoTweetTwice, NothingDropped,
       RowsBehindWatermark, GapFree, FallbackComesFirst, InWrite, InRows
<1>4. CASE FlushAll
  BY <1>4, FlushAllStep
<1>5. CASE Cancelled
  <2>1. /\ phase' = "cancelled"
        /\ UNCHANGED <<buckets, lastFlushed, writes, table, now, received>>
    BY <1>5 DEF Cancelled
  <2>2. TypeOK'
    BY <2>1 DEF Inv, TypeOK, IsRows, IsWrite, Ending
  <2> QED
    BY <2>1, <2>2 DEF Inv, RowsAreOwn, NoTweetTwice, NothingDropped,
       WatermarkLags, RowsBehindWatermark, GapFree, FallbackComesFirst, InWrite, InRows
<1>6. ASSUME NEW i \in DOMAIN writes, CommitWrite(i)
      PROVE  Inv'
  <2>1. IsRows(writes[i].rows) /\ IsRows(table)
    BY DEF Inv, TypeOK, IsWrite
  <2>2. table' = Upsert(table, writes[i].rows) /\ received' = received
    BY <1>6 DEF CommitWrite
  <2>3. IsRows(table)'
    BY <2>1, <2>2 DEF IsRows, Upsert
  <2> QED
    BY <1>6, <2>3, WriteEnds DEF CommitWrite
<1>7. ASSUME NEW i \in DOMAIN writes, FailWrite(i)
      PROVE  Inv'
  <2>1. IsRows(table)'
    BY <1>7 DEF FailWrite, Inv, TypeOK, IsRows
  <2> QED
    BY <1>7, <2>1, WriteEnds DEF FailWrite
<1>8. CASE UNCHANGED vars
  <2>1. TypeOK'
    BY <1>8 DEF vars, Inv, TypeOK, IsRows, IsWrite
  <2> QED
    BY <1>8, <2>1 DEF vars, Inv, RowsAreOwn, NoTweetTwice, NothingDropped,
       WatermarkLags, RowsBehindWatermark, GapFree, FallbackComesFirst, InWrite, InRows
<1> QED
  BY <1>1, <1>2, <1>3, <1>4, <1>5, <1>6, <1>7, <1>8 DEF Next

LEMMA InvAlways == Spec => []Inv
<1> QED
  BY InvInit, InvStep, PTL DEF Spec

-----------------------------------------------------------------------------
(* What the aggregator promises.                                           *)

\* The state of the aggregator, its batches and the table are of their types.
THEOREM TypeCorrect == Spec => []TypeOK
<1>1. Inv => TypeOK
  BY DEF Inv
<1> QED
  BY <1>1, InvAlways, PTL

\* The sentiment series has no gaps up to the watermark.
THEOREM SeriesHasNoGaps == Spec => []GapFree
<1>1. Inv => GapFree
  BY DEF Inv
<1> QED
  BY <1>1, InvAlways, PTL

\* No row stands for the boot's bucket, an earlier one, or one still running.
THEOREM OnlyFullBuckets == Spec => []RowsAreOfFullBuckets
<1>1. Inv => RowsAreOfFullBuckets
  <2> SUFFICES ASSUME Inv, NEW i \in DOMAIN writes, NEW k \in DOMAIN writes[i].rows
               PROVE  FirstValid <= k[2] /\ (phase = "running" => k[2] < now)
    BY DEF RowsAreOfFullBuckets
  <2>1. k[2] \in Nat /\ lastFlushed \in Nat /\ now \in Nat /\ Boot \in Nat
    BY Numbers DEF Inv, RowsAreOwn, Rows, Keys, TypeOK
  <2>2. FirstValid <= k[2] /\ (phase = "running" => k[2] <= lastFlushed)
    BY DEF Inv, RowsBehindWatermark
  <2> QED
    BY <2>1, <2>2 DEF Inv, WatermarkLags, FirstValid
<1> QED
  BY <1>1, InvAlways, PTL

\* A fallback row is never submitted after another row of its key.
THEOREM FallbacksComeFirst == Spec => []FallbackComesFirst
<1>1. Inv => FallbackComesFirst
  BY DEF Inv
<1> QED
  BY <1>1, InvAlways, PTL

\* No tweet is submitted twice.
THEOREM TweetsCountedOnce == Spec => []NoTweetTwice
<1>1. Inv => NoTweetTwice
  BY DEF Inv
<1> QED
  BY <1>1, InvAlways, PTL

\* No tweet of a full bucket disappears between add and the writer threads.
THEOREM TweetsNotDropped == Spec => []NothingDropped
<1>1. Inv => NothingDropped
  BY DEF Inv
<1> QED
  BY <1>1, InvAlways, PTL

\* A bucket submitted only once is submitted with all its tweets.
THEOREM OnTimeRowsComplete == Spec => []OnTimeRowIsComplete
<1>1. Inv => OnTimeRowIsComplete
  <2> SUFFICES ASSUME Inv, NEW i \in DOMAIN writes, NEW k \in DOMAIN writes[i].rows,
                      k \notin DOMAIN buckets,
                      \A j \in DOMAIN writes : InWrite(j, k) => i = j
               PROVE  writes[i].rows[k] = TweetsOf(k)
    BY DEF OnTimeRowIsComplete
  <2>1. writes[i].rows[k] \subseteq TweetsOf(k)
    BY DEF Inv, RowsAreOwn, Rows, TweetsOf
  <2>2. ASSUME NEW w \in TweetsOf(k) PROVE w \in writes[i].rows[k]
    <3>1. w \in received /\ Key(w) = k /\ w.bucket = k[2]
      BY DEF TweetsOf, Key
    <3>2. FirstValid <= w.bucket
      BY <3>1 DEF Inv, RowsBehindWatermark
    <3>3. PICK j \in DOMAIN writes : InRows(writes[j].rows, w)
      BY <3>1, <3>2 DEF Inv, NothingDropped, InRows
    <3> QED
      BY <3>1, <3>3 DEF InRows, InWrite
  <2> QED
    BY <2>1, <2>2
<1> QED
  BY <1>1, InvAlways, PTL

\* The watermark never goes back.
THEOREM WatermarkMonotone == Spec => WatermarkAdvances
<1>1. Inv /\ [Next]_vars => [lastFlushed' >= lastFlushed]_vars
  <2> SUFFICES ASSUME Inv, Next PROVE lastFlushed' >= lastFlushed
    OBVIOUS
  <2>1. lastFlushed \in Nat
    BY DEF Inv, TypeOK
  <2>2. ASSUME NEW b, NEW t \in Nat, MaybeFlush(b, t) PROVE lastFlushed' >= lastFlushed
    BY <2>1, <2>2 DEF MaybeFlush, Advance
  <2>3. \A w \in [id : Ids, symbol : Symbols, bucket : Clock] :
          Add(w) => lastFlushed' >= lastFlushed
    BY <2>2, Numbers DEF Add
  <2>4. PeriodicFlush => lastFlushed' >= lastFlushed
    BY <2>2, Numbers DEF PeriodicFlush, Inv, TypeOK
  <2>5. lastFlushed' = lastFlushed => lastFlushed' >= lastFlushed
    BY <2>1
  <2> QED
    BY <2>3, <2>4, <2>5 DEF Next, Tick, FlushAll, Cancelled, CommitWrite, FailWrite
<1> QED
  BY <1>1, InvAlways, PTL DEF Spec, WatermarkAdvances
=============================================================================
