----------------------- MODULE NewsAndAlgorithmsProofs -----------------------
(***************************************************************************)
(* Proofs about the polling of news and about the pure functions between   *)
(* the tables.                                                             *)
(*                                                                         *)
(* The functions are folds, and a fold of the community modules is a       *)
(* function on sets of positions that is chosen by its equation.  The first*)
(* part proves that there is such a function, which says what a fold is    *)
(* after every prefix; the induction over prefixes is that over a set of   *)
(* naturals, from the well-foundedness of their order.                     *)
(***************************************************************************)
EXTENDS NewsPolling, Algorithms, FiniteSetTheorems, WellFoundedInduction, TLAPS

-----------------------------------------------------------------------------
(* The polling of news.                                                     *)

\* Whoever waits to be stored, or is stored, was remembered; and an article that
\* comes again was forgotten in between.
TakenMeansSeen ==
  /\ fresh \union counted \subseteq seen \union forgotten
  /\ fresh \intersect counted \subseteq forgotten

\* Before the first cycle nothing is remembered but what the feeds carried.
PrefillIsBacklog == phase = "prefill" => seen \subseteq backlog /\ page = {}

\* The inductive invariant: what is checked, and what the steps need.
Inv ==
  /\ TypeOK
  /\ TwiceOnlyIfForgotten
  /\ SeenMeansHandled
  /\ MemoryIsBounded
  /\ TakenMeansSeen
  /\ PrefillIsBacklog

LEMMA SizeOfTitles ==
  ASSUME NEW S \in SUBSET Titles
  PROVE  Cardinality(S) \in Nat
BY ConstantsAssumption, FS_Subset, FS_CardinalityType

LEMMA InitInv == Init => Inv
<1> SUFFICES ASSUME Init PROVE Inv
  OBVIOUS
<1>1. Cardinality({}) <= Limit
  BY FS_EmptySet, ConstantsAssumption
<1> QED
  BY <1>1 DEF Init, Inv, TypeOK, TwiceOnlyIfForgotten, SeenMeansHandled, MemoryIsBounded,
              TakenMeansSeen, PrefillIsBacklog

\* Neither the feeds nor the start of a loop touch what the poller remembers.
LEMMA QuietSteps ==
  ASSUME Inv, UNCHANGED <<seen, fresh, counted, backlog, lost, again, forgotten>>,
         TypeOK', phase' = "prefill" => phase = "prefill" /\ page' \subseteq page
  PROVE  Inv'
BY DEF Inv, TwiceOnlyIfForgotten, SeenMeansHandled, MemoryIsBounded, TakenMeansSeen,
       PrefillIsBacklog

\* What the first answer of a feed adds to the memory was there before the first cycle.
LEMMA PrefillStep ==
  ASSUME Inv, NEW f \in Feeds, Prefill(f)
  PROVE  Inv'
<1>1. PICK titles \in SUBSET Titles :
        /\ seen' = seen \union titles
        /\ backlog' = backlog \union titles
  BY DEF Inv, TypeOK, Prefill
<1>2. TypeOK'
  BY <1>1 DEF Inv, TypeOK, Prefill
<1>3. MemoryIsBounded' /\ PrefillIsBacklog'
  BY <1>1 DEF Inv, MemoryIsBounded, PrefillIsBacklog, Prefill
<1> QED
  BY <1>1, <1>2, <1>3
     DEF Inv, Prefill, TwiceOnlyIfForgotten, SeenMeansHandled, TakenMeansSeen

\* Whether the memory is cleared or not, the new title is handled and, when it
\* comes again, forgotten.
LEMMA TakeStep ==
  ASSUME Inv, NEW t \in Titles, Take(t)
  PROVE  Inv'
<1>1. CASE t \in seen
  <2>1. TypeOK'
    BY <1>1 DEF Inv, TypeOK, Take
  <2> QED
    BY <1>1, <2>1, QuietSteps DEF Take
<1>2. CASE t \notin seen
  <2> DEFINE more == seen \union {t}
  <2>1. /\ fresh' = fresh \union {t}
        /\ again' = IF t \in fresh THEN again \union {t} ELSE again
        /\ UNCHANGED <<live, phase, todo, counted, backlog, lost>>
        /\ page' = page \ {t}
    BY <1>2 DEF Take
  <2>2. \/ Cardinality(more) > Limit /\ seen' = {} /\ forgotten' = forgotten \union more
        \/ ~(Cardinality(more) > Limit) /\ seen' = more /\ forgotten' = forgotten
    BY <1>2 DEF Take, Remember
  <2>3. TypeOK'
    BY <2>1, <2>2 DEF Inv, TypeOK
  <2>4. MemoryIsBounded'
    <3>1. Cardinality(more) \in Nat /\ Limit \in Nat
      BY SizeOfTitles, ConstantsAssumption DEF Inv, TypeOK
    <3> QED
      BY <2>2, <3>1 DEF MemoryIsBounded
  <2>5. PrefillIsBacklog'
    BY <2>1 DEF Inv, TypeOK, PrefillIsBacklog, Take
  <2>6. TwiceOnlyIfForgotten'
    BY <1>2, <2>1, <2>2 DEF Inv, TwiceOnlyIfForgotten, TakenMeansSeen
  <2>7. SeenMeansHandled' /\ TakenMeansSeen'
    BY <1>2, <2>1, <2>2 DEF Inv, SeenMeansHandled, TakenMeansSeen
  <2> QED
    BY <2>3, <2>4, <2>5, <2>6, <2>7 DEF Inv
<1> QED
  BY <1>1, <1>2

LEMMA ScoreStep ==
  ASSUME Inv, Score
  PROVE  Inv'
<1>1. PICK left \in SUBSET fresh : fresh' = fresh \ left /\ lost' = lost \union left
  BY DEF Score
<1>2. TypeOK'
  BY <1>1 DEF Inv, TypeOK, Score
<1> QED
  BY <1>1, <1>2 DEF Inv, Score, TwiceOnlyIfForgotten, SeenMeansHandled, MemoryIsBounded,
                    TakenMeansSeen, PrefillIsBacklog

LEMMA StoreStep ==
  ASSUME Inv, Store \/ StoreFails
  PROVE  Inv'
<1>1. TypeOK'
  BY DEF Inv, TypeOK, Store, StoreFails
<1> QED
  BY <1>1 DEF Inv, Store, StoreFails, TwiceOnlyIfForgotten, SeenMeansHandled,
              MemoryIsBounded, TakenMeansSeen, PrefillIsBacklog

LEMMA NextInv ==
  ASSUME Inv, [Next]_vars
  PROVE  Inv'
<1>1. ASSUME NEW f \in Feeds, NEW t \in Titles, Publish(f, t) \/ Expire(f, t)
      PROVE  Inv'
  <2>1. TypeOK'
    BY <1>1 DEF Inv, TypeOK, Publish, Expire, history
  <2> QED
    BY <1>1, <2>1, QuietSteps DEF Publish, Expire, history
<1>2. ASSUME StartCycle \/ EndFetch
      PROVE  Inv'
  <2>1. TypeOK'
    BY <1>2 DEF Inv, TypeOK, StartCycle, EndFetch, history
  <2> QED
    BY <1>2, <2>1, QuietSteps DEF StartCycle, EndFetch, history
<1>3. ASSUME NEW f \in Feeds, Fetch(f) \/ FetchFails(f)
      PROVE  Inv'
  <2>1. TypeOK'
    BY <1>3 DEF Inv, TypeOK, Fetch, FetchFails, history
  <2> QED
    BY <1>3, <2>1, QuietSteps DEF Fetch, FetchFails, history
<1>4. CASE UNCHANGED vars
  <2>1. TypeOK'
    BY <1>4 DEF Inv, TypeOK, vars, history
  <2> QED
    BY <1>4, <2>1, QuietSteps DEF vars, history
<1> QED
  BY <1>1, <1>2, <1>3, <1>4, PrefillStep, TakeStep, ScoreStep, StoreStep
     DEF Next, World, Poller

LEMMA InvHolds == Spec => []Inv
<1>1. Init => Inv
  BY InitInv
<1>2. Inv /\ [Next]_vars => Inv'
  BY NextInv
<1> QED
  BY <1>1, <1>2, PTL DEF Spec

\* The state of the poller is well typed, whatever its feeds carry.
THEOREM NewsTypeCorrect == Spec => []TypeOK
<1>1. Inv => TypeOK
  BY DEF Inv
<1> QED
  BY <1>1, InvHolds, PTL

\* An article is counted twice only after the memory that held its title was
\* cleared by _fetch_new_articles, for any number of feeds, titles and failures.
THEOREM NoArticleTwice == Spec => []TwiceOnlyIfForgotten
<1>1. Inv => TwiceOnlyIfForgotten
  BY DEF Inv
<1> QED
  BY <1>1, InvHolds, PTL

\* No title is remembered in _last_seen_titles without being handled: it was there
\* before the first cycle, or its article is stored, on its way or lost by a failure.
THEOREM NoTitleSkipped == Spec => []SeenMeansHandled
<1>1. Inv => SeenMeansHandled
  BY DEF Inv
<1> QED
  BY <1>1, InvHolds, PTL

\* The memory of titles stays within its limit, but for what the feeds carried
\* before the first cycle.
THEOREM NewsMemoryIsBounded == Spec => []MemoryIsBounded
<1>1. Inv => MemoryIsBounded
  BY DEF Inv
<1> QED
  BY <1>1, InvHolds, PTL

-----------------------------------------------------------------------------
(* Induction, and folds by their prefixes.                                  *)

\* Induction over the naturals, for a property that is a set.
LEMMA NatInductive ==
  ASSUME NEW S \in SUBSET Nat, 0 \in S, \A n \in S : n + 1 \in S
  PROVE  S = Nat
<1> DEFINE R == {p \in Nat \X Nat : p[1] < p[2]}
           T == Nat \ S
<1>1. SUFFICES ASSUME T # {} PROVE FALSE
  OBVIOUS
<1>2. IsWellFoundedOn(R, Nat)
  BY NatLessThanWellFounded DEF OpToRel
<1>3. PICK m \in T : \A n \in T : <<n, m>> \notin R
  <2> HIDE DEF R
  <2> QED BY <1>1, <1>2, WFMin
<1>4. m # 0 /\ m - 1 \in Nat
  OBVIOUS
<1>5. m - 1 \in S
  <2>1. SUFFICES ASSUME m - 1 \in T PROVE FALSE
    BY <1>4
  <2>2. <<m - 1, m>> \in R
    BY <1>4
  <2> HIDE DEF R, T
  <2> QED BY <1>3, <2>1, <2>2
<1> QED BY <1>4, <1>5

LEMMA GreatestOf ==
  ASSUME NEW n \in Nat, NEW s \in SUBSET (1 .. n + 1), n + 1 \in s
  PROVE  Max(s) = n + 1
<1>1. \A y \in s : n + 1 >= y /\ y \in Int
  OBVIOUS
<1>2. Max(s) \in s /\ \A y \in s : Max(s) >= y
  BY <1>1 DEF Max
<1> DEFINE m == Max(s)
<1> HIDE DEF m
<1>3. m \in Int /\ n + 1 >= m /\ m >= n + 1
  BY <1>1, <1>2 DEF m
<1> QED BY <1>3 DEF m

\* One function over the subsets of 1 .. n folds step, the greatest index last.
IsFold(f, n, base, step) ==
  \A s \in SUBSET (1 .. n) :
    f[s] = IF s = {} THEN base ELSE step[Max(s)][f[s \ {Max(s)}]]

\* There is a function with the equation of a fold, by induction over the indices.
LEMMA FoldExists ==
  ASSUME NEW n \in Nat, NEW V, NEW base \in V, NEW step \in [1 .. n -> [V -> V]]
  PROVE  \E f \in [SUBSET (1 .. n) -> V] : IsFold(f, n, base, step)
<1> DEFINE P(k) == \E f \in [SUBSET (1 .. k) -> V] : IsFold(f, k, base, step)
           S == {k \in Nat : k <= n => P(k)}
<1>1. 0 \in S
  <2> DEFINE f == [s \in SUBSET (1 .. 0) |-> base]
  <2>1. f \in [SUBSET (1 .. 0) -> V] /\ IsFold(f, 0, base, step)
    BY DEF IsFold
  <2> QED BY <2>1
<1>2. ASSUME NEW k \in S PROVE k + 1 \in S
  <2> HIDE DEF P
  <2>1. SUFFICES ASSUME k + 1 <= n PROVE P(k + 1)
    OBVIOUS
  <2>2. k \in Nat /\ k <= n /\ k + 1 \in 1 .. n /\ P(k)
    BY <2>1
  <2>3. PICK f \in [SUBSET (1 .. k) -> V] : IsFold(f, k, base, step)
    BY <2>2 DEF P
  <2> DEFINE g == [s \in SUBSET (1 .. k + 1) |->
                     IF k + 1 \in s THEN step[k + 1][f[s \ {k + 1}]] ELSE f[s]]
  <2> HIDE DEF S
  <2>4. ASSUME NEW s \in SUBSET (1 .. k + 1)
        PROVE  /\ k + 1 \notin s => s \in SUBSET (1 .. k)
               /\ s \ {k + 1} \in SUBSET (1 .. k)
    BY <2>2
  <2>5. g \in [SUBSET (1 .. k + 1) -> V]
    <3>1. ASSUME NEW s \in SUBSET (1 .. k + 1), k + 1 \in s
          PROVE  step[k + 1][f[s \ {k + 1}]] \in V
      BY <2>2, <2>3, <2>4
    <3>2. ASSUME NEW s \in SUBSET (1 .. k + 1), k + 1 \notin s
          PROVE  f[s] \in V
      BY <2>3, <2>4, <3>2
    <3> QED BY <3>1, <3>2
  <2>6. ASSUME NEW s \in SUBSET (1 .. k + 1)
        PROVE  g[s] = IF s = {} THEN base ELSE step[Max(s)][g[s \ {Max(s)}]]
    <3>1. CASE k + 1 \in s
      <4>1. Max(s) = k + 1
        BY <2>2, <3>1, GreatestOf
      <4>2. g[s \ {k + 1}] = f[s \ {k + 1}]
        BY <2>4
      <4> QED BY <3>1, <4>1, <4>2
    <3>2. CASE k + 1 \notin s
      <4>1. s \in SUBSET (1 .. k) /\ s \ {Max(s)} \in SUBSET (1 .. k)
        BY <2>4, <3>2
      <4>2. k + 1 \notin s \ {Max(s)} /\ s \ {Max(s)} \in SUBSET (1 .. k + 1)
        BY <3>2
      <4>3. g[s] = f[s] /\ g[s \ {Max(s)}] = f[s \ {Max(s)}]
        BY <3>2, <4>1, <4>2
      <4>4. f[s] = IF s = {} THEN base ELSE step[Max(s)][f[s \ {Max(s)}]]
        BY <2>3, <4>1 DEF IsFold
      <4> QED BY <4>3, <4>4
    <3> QED BY <3>1, <3>2
  <2> HIDE DEF g
  <2> QED BY <2>5, <2>6 DEF IsFold, P
<1>3. n \in S
  <2> HIDE DEF S, P
  <2>1. S \in SUBSET Nat BY DEF S
  <2> QED BY <1>1, <1>2, <2>1, NatInductive
<1>4. P(n)
  <2> HIDE DEF P
  <2> QED BY <1>3
<1> QED BY <1>4

\* Induction up to n.
LEMMA UpTo ==
  ASSUME NEW n \in Nat, NEW S, 0 \in S, \A k \in 0 .. n - 1 : k \in S => k + 1 \in S
  PROVE  \A k \in 0 .. n : k \in S
<1> DEFINE T == {k \in Nat : k <= n => k \in S}
<1>1. 0 \in T
  OBVIOUS
<1>2. ASSUME NEW k \in T PROVE k + 1 \in T
  <2>1. SUFFICES ASSUME k + 1 <= n PROVE k + 1 \in S
    OBVIOUS
  <2>2. k \in 0 .. n - 1 /\ k \in S
    BY <2>1
  <2> QED BY <2>2
<1>3. T = Nat
  <2>1. T \in SUBSET Nat OBVIOUS
  <2> HIDE DEF T
  <2> QED BY <1>1, <1>2, <2>1, NatInductive
<1>4. ASSUME NEW k \in 0 .. n PROVE k \in S
  <2>1. k \in Nat /\ k <= n OBVIOUS
  <2>2. k \in T BY <1>3, <2>1
  <2> QED BY <2>1, <2>2
<1> QED BY <1>4

\* The greatest index of a set of indices is one of them.
LEMMA MaxIsIn ==
  ASSUME NEW n \in Nat, NEW s \in SUBSET (1 .. n), s # {}
  PROVE  Max(s) \in s
<1> DEFINE P(k) == \A t \in SUBSET (1 .. k) : t # {} => \E x \in t : \A y \in t : x >= y
           S == {k \in 0 .. n : P(k)}
<1>1. P(0)
  <2>1. \A t \in SUBSET (1 .. 0) : t = {}
    OBVIOUS
  <2> QED BY <2>1
<1>2. ASSUME NEW k \in 0 .. n - 1, P(k) PROVE P(k + 1)
  <2>1. SUFFICES ASSUME NEW t \in SUBSET (1 .. k + 1), t # {}
                 PROVE  \E x \in t : \A y \in t : x >= y
    OBVIOUS
  <2>2. CASE k + 1 \in t
    BY <2>2
  <2>3. CASE k + 1 \notin t
    <3>1. t \in SUBSET (1 .. k)
      BY <2>3
    <3> QED BY <1>2, <2>1, <3>1
  <2> QED BY <2>2, <2>3
<1>3. P(n)
  <2> HIDE DEF P
  <2>1. 0 \in S /\ \A k \in 0 .. n - 1 : k \in S => k + 1 \in S
    BY <1>1, <1>2
  <2>2. \A k \in 0 .. n : k \in S
    <3> HIDE DEF S
    <3> QED BY <2>1, UpTo
  <2> QED BY <2>2
<1>4. PICK x \in s : \A y \in s : x >= y
  BY <1>3
<1> QED BY <1>4 DEF Max

\* Adding the next index applies the step once.
LEMMA FoldNext ==
  ASSUME NEW n \in Nat, NEW f, NEW base, NEW step, IsFold(f, n, base, step)
  PROVE  /\ f[{}] = base
         /\ \A k \in 0 .. n - 1 : f[1 .. k + 1] = step[k + 1][f[1 .. k]]
<1>1. f[{}] = base
  BY DEF IsFold
<1>2. ASSUME NEW k \in 0 .. n - 1 PROVE f[1 .. k + 1] = step[k + 1][f[1 .. k]]
  <2>1. 1 .. k + 1 \in SUBSET (1 .. n) /\ k + 1 \in 1 .. k + 1
    OBVIOUS
  <2>2. Max(1 .. k + 1) = k + 1
    BY <2>1, GreatestOf
  <2>3. (1 .. k + 1) \ {k + 1} = 1 .. k
    OBVIOUS
  <2> QED BY <2>1, <2>2, <2>3 DEF IsFold
<1> QED BY <1>1, <1>2

\* The equation of a fold, with what the choice of a step needs.
IsTypedFold(f, n, V, base, step) ==
  /\ f[{}] = base
  /\ \A s \in SUBSET (1 .. n) :
       s # {} => /\ Max(s) \in 1 .. n
                 /\ s \ {Max(s)} \in SUBSET (1 .. n)
                 /\ f[s \ {Max(s)}] \in V
                 /\ f[s] = step[Max(s)][f[s \ {Max(s)}]]

\* A fold from left to right, prefix by prefix.
LEMMA FoldByPrefixes ==
  ASSUME NEW n \in Nat, NEW V, NEW base \in V, NEW step \in [1 .. n -> [V -> V]]
  PROVE  \E f \in [SUBSET (1 .. n) -> V] :
           IsTypedFold(f, n, V, base, step)
<1>1. PICK f \in [SUBSET (1 .. n) -> V] : IsFold(f, n, base, step)
  BY FoldExists
<1>2. f[{}] = base
  BY <1>1 DEF IsFold
<1>3. ASSUME NEW s \in SUBSET (1 .. n), s # {}
      PROVE  /\ Max(s) \in 1 .. n
             /\ s \ {Max(s)} \in SUBSET (1 .. n)
             /\ f[s \ {Max(s)}] \in V
             /\ f[s] = step[Max(s)][f[s \ {Max(s)}]]
  <2>1. Max(s) \in s BY <1>3, MaxIsIn
  <2> QED BY <1>1, <1>3, <2>1 DEF IsFold
<1> QED BY <1>2, <1>3 DEF IsTypedFold

\* What is so for a prefix.
LEMMA PrefixOfInterval ==
  ASSUME NEW n \in Nat, NEW k \in 0 .. n - 1
  PROVE  /\ 1 .. k + 1 \in SUBSET (1 .. n) /\ 1 .. k + 1 # {}
         /\ Max(1 .. k + 1) = k + 1
         /\ (1 .. k + 1) \ {k + 1} = 1 .. k
<1>1. 1 .. k + 1 \in SUBSET (1 .. n) /\ k + 1 \in 1 .. k + 1 /\ k \in Nat
  OBVIOUS
<1>2. Max(1 .. k + 1) = k + 1
  BY <1>1, GreatestOf
<1>3. (1 .. k + 1) \ {k + 1} = 1 .. k
  OBVIOUS
<1> QED BY <1>1, <1>2, <1>3

\* What each step keeps in V stays there for all prefixes.
LEMMA PrefixTypes ==
  ASSUME NEW n \in Nat, NEW V, NEW g, g[1 .. 0] \in V,
         \A k \in 0 .. n - 1 : g[1 .. k] \in V => g[1 .. k + 1] \in V
  PROVE  \A k \in 0 .. n : g[1 .. k] \in V
<1> DEFINE S == {k \in 0 .. n : g[1 .. k] \in V}
<1>1. 0 \in S /\ \A k \in 0 .. n - 1 : k \in S => k + 1 \in S
  OBVIOUS
<1>2. \A k \in 0 .. n : k \in S
  <2> HIDE DEF S
  <2> QED BY <1>1, UpTo
<1> QED BY <1>2

\* F goes through the prefixes of what is folded.
Through(F, n, V, base) == F \in [0 .. n -> V] /\ F[0] = base

\* The rows of news while they are added up.
NewsRows == [sum : Int, over : Int, count : Int, positive : Int, negative : Int, neutral : Int]

\* The candles while trades are added.
Candles == {EmptyCandle} \union
           [count : Nat \ {0}, open : Int, first : Int, high : Int, low : Int, close : Int,
            net : Int]

\* A row of a training table.
Row == [bucket : Int, label : Int]

LEMMA CutsAreSequences ==
  ASSUME NEW size \in Nat \ {0}, NEW block \in Seq(Row)
  PROVE  /\ Cut(block, size) \in Seq(Seq(Row))
         /\ CutLabels(block, size) \in Seq(Int)
<1> DEFINE m == IF Len(block) >= size THEN Len(block) - size + 1 ELSE 0
<1>1. m \in Nat /\ 1 .. Len(block) - size + 1 = 1 .. m
  OBVIOUS
<1>2. ASSUME NEW i \in 1 .. m
      PROVE  SubSeq(block, i, i + size - 1) \in Seq(Row) /\ block[i + size - 1].label \in Int
  <2>1. i \in Int /\ i + size - 1 \in 1 .. Len(block)
    OBVIOUS
  <2>2. block[i + size - 1] \in Row
    BY <2>1
  <2>3. i + size - 1 \in Int /\ \A x \in i .. i + size - 1 : block[x] \in Row
    BY <2>1
  <2>4. SubSeq(block, i, i + size - 1) \in Seq(Row)
    BY <2>1, <2>3
  <2> QED BY <2>2, <2>4 DEF Row
<1> HIDE DEF m
<1>3. /\ [i \in 1 .. m |-> SubSeq(block, i, i + size - 1)] \in Seq(Seq(Row))
      /\ [i \in 1 .. m |-> block[i + size - 1].label] \in Seq(Int)
  <2>1. \A S, f : f \in [1 .. m -> S] => f \in Seq(S)
    BY <1>1
  <2>2. /\ [i \in 1 .. m |-> SubSeq(block, i, i + size - 1)] \in [1 .. m -> Seq(Row)]
        /\ [i \in 1 .. m |-> block[i + size - 1].label] \in [1 .. m -> Int]
    BY <1>2
  <2> QED BY <2>1, <2>2, Zenon
<1>4. /\ Cut(block, size) = [i \in 1 .. m |-> SubSeq(block, i, i + size - 1)]
      /\ CutLabels(block, size) = [i \in 1 .. m |-> block[i + size - 1].label]
  BY <1>1, Zenon DEF Cut, CutLabels
<1> QED BY <1>3, <1>4

\* The weighted sentiment of tweets, one tweet after the other.
LEMMA TweetsAreFolded ==
  ASSUME NEW s \in Seq(Tweet)
  PROVE  \E F : /\ Through(F, Len(s), [weighted : Int, total : Int], NoTweets)
                /\ \A k \in 0 .. Len(s) - 1 : F[k + 1] = AddTweet(F[k], s[k + 1])
                /\ F[Len(s)] = calculate_weighted_sentiment(s)
<1> DEFINE n == Len(s)
           V == [weighted : Int, total : Int]
           P(g) == g = [t \in SUBSET (1 .. n) |->
                         IF t = {} THEN NoTweets
                         ELSE AddTweet(g[t \ {Max(t)}], s[Max(t)])]
           step == [i \in 1 .. n |-> [v \in V |-> AddTweet(v, s[i])]]
           g == CHOOSE g : P(g)
<1>1. n \in Nat /\ DOMAIN s = 1 .. n /\ NoTweets \in V
  BY DEF NoTweets
<1>2. ASSUME NEW v \in V, NEW i \in 1 .. n PROVE AddTweet(v, s[i]) \in V
  <2>1. s[i] \in Tweet OBVIOUS
  <2>2. s[i].score \in Int /\ SafeWeight(s[i].weight) \in Int
    BY <2>1, WeightAssumption DEF SafeWeight, Tweet
  <2>3. s[i].score * SafeWeight(s[i].weight) \in Int
    BY <2>2
  <2> QED BY <2>2, <2>3 DEF AddTweet
<1> HIDE DEF V
<1>3. step \in [1 .. n -> [V -> V]]
  BY <1>2
<1>4. \E f : P(f)
  <2>1. PICK f \in [SUBSET (1 .. n) -> V] : IsTypedFold(f, n, V, NoTweets, step)
    <3> HIDE DEF step, n
    <3> QED BY <1>1, <1>3, FoldByPrefixes
  <2>2. ASSUME NEW t \in SUBSET (1 .. n)
        PROVE  f[t] = IF t = {} THEN NoTweets
                      ELSE AddTweet(f[t \ {Max(t)}], s[Max(t)])
    <3>1. CASE t = {}
      BY <2>1, <3>1 DEF IsTypedFold
    <3>2. CASE t # {}
      <4>1. /\ Max(t) \in 1 .. n /\ f[t \ {Max(t)}] \in V
            /\ f[t] = step[Max(t)][f[t \ {Max(t)}]]
        <5> HIDE DEF step, n
        <5> QED BY <2>1, <3>2 DEF IsTypedFold
      <4> HIDE DEF n
      <4> QED BY <3>2, <4>1
    <3> QED BY <3>1, <3>2
  <2> HIDE DEF n, step
  <2> QED BY <1>1, <2>2
<1>5. P(g)
  <2> HIDE DEF P
  <2> QED BY <1>4
<1>6. g[1 .. n] = calculate_weighted_sentiment(s)
  BY <1>1, Zenon DEF calculate_weighted_sentiment, FoldLeft, MapThenFoldSet
<1> HIDE DEF n, g
<1>7. g[1 .. 0] = NoTweets
  BY <1>1, <1>5
<1>8. ASSUME NEW k \in 0 .. n - 1 PROVE g[1 .. k + 1] = AddTweet(g[1 .. k], s[k + 1])
  <2>1. /\ 1 .. k + 1 \in SUBSET (1 .. n) /\ 1 .. k + 1 # {}
        /\ Max(1 .. k + 1) = k + 1
        /\ (1 .. k + 1) \ {k + 1} = 1 .. k
    BY <1>1, PrefixOfInterval
  <2> QED BY <1>1, <1>5, <2>1
<1>9. \A k \in 0 .. n : g[1 .. k] \in V
  <2>1. ASSUME NEW k \in 0 .. n - 1, g[1 .. k] \in V PROVE g[1 .. k + 1] \in V
    <3>1. k + 1 \in 1 .. n
      BY <1>1
    <3>2. AddTweet(g[1 .. k], s[(k + 1)]) \in V
      BY <1>2, <2>1, <3>1
    <3> QED BY <1>8, <3>2
  <2> QED BY <1>1, <1>7, <2>1, PrefixTypes
<1> DEFINE F == [k \in 0 .. n |-> g[1 .. k]]
<1>10. /\ Through(F, n, V, NoTweets)
       /\ \A k \in 0 .. n - 1 : F[k + 1] = AddTweet(F[k], s[k + 1])
       /\ F[n] = calculate_weighted_sentiment(s)
  <2>1. F \in [0 .. n -> V] /\ \A k \in 0 .. n : F[k] = g[1 .. k]
    BY <1>9
  <2> HIDE DEF F
  <2>2. 0 \in 0 .. n /\ n \in 0 .. n /\ \A k \in 0 .. n - 1 : k \in 0 .. n /\ k + 1 \in 0 .. n
    BY <1>1
  <2> QED BY <1>6, <1>7, <1>8, <2>1, <2>2 DEF Through
<1> QED
  BY <1>10 DEF n, V

\* A sum, one number after the other.
LEMMA SumIsFolded ==
  ASSUME NEW s \in Seq(Int)
  PROVE  \E F : /\ Through(F, Len(s), Int, 0)
                /\ \A k \in 0 .. Len(s) - 1 : F[k + 1] = F[k] + s[k + 1]
                /\ F[Len(s)] = SumOf(s)
<1> DEFINE n == Len(s)
           V == Int
           P(g) == g = [t \in SUBSET (1 .. n) |->
                         IF t = {} THEN 0
                         ELSE g[t \ {Max(t)}] + s[Max(t)]]
           step == [i \in 1 .. n |-> [v \in V |-> v + s[i]]]
           g == CHOOSE g : P(g)
<1>1. n \in Nat /\ DOMAIN s = 1 .. n /\ 0 \in V
  OBVIOUS
<1>2. ASSUME NEW v \in V, NEW i \in 1 .. n PROVE v + s[i] \in V
  OBVIOUS
<1> HIDE DEF V
<1>3. step \in [1 .. n -> [V -> V]]
  BY <1>2
<1>4. \E f : P(f)
  <2>1. PICK f \in [SUBSET (1 .. n) -> V] : IsTypedFold(f, n, V, 0, step)
    <3> HIDE DEF step, n
    <3> QED BY <1>1, <1>3, FoldByPrefixes
  <2>2. ASSUME NEW t \in SUBSET (1 .. n)
        PROVE  f[t] = IF t = {} THEN 0
                      ELSE f[t \ {Max(t)}] + s[Max(t)]
    <3>1. CASE t = {}
      BY <2>1, <3>1 DEF IsTypedFold
    <3>2. CASE t # {}
      <4>1. /\ Max(t) \in 1 .. n /\ f[t \ {Max(t)}] \in V
            /\ f[t] = step[Max(t)][f[t \ {Max(t)}]]
        <5> HIDE DEF step, n
        <5> QED BY <2>1, <3>2 DEF IsTypedFold
      <4> HIDE DEF n
      <4> QED BY <3>2, <4>1
    <3> QED BY <3>1, <3>2
  <2> HIDE DEF n, step
  <2> QED BY <1>1, <2>2
<1>5. P(g)
  <2> HIDE DEF P
  <2> QED BY <1>4
<1>6. g[1 .. n] = SumOf(s)
  BY <1>1, Zenon DEF SumOf, FoldLeft, MapThenFoldSet
<1> HIDE DEF n, g
<1>7. g[1 .. 0] = 0
  BY <1>1, <1>5
<1>8. ASSUME NEW k \in 0 .. n - 1 PROVE g[1 .. k + 1] = g[1 .. k] + s[k + 1]
  <2>1. /\ 1 .. k + 1 \in SUBSET (1 .. n) /\ 1 .. k + 1 # {}
        /\ Max(1 .. k + 1) = k + 1
        /\ (1 .. k + 1) \ {k + 1} = 1 .. k
    BY <1>1, PrefixOfInterval
  <2> QED BY <1>1, <1>5, <2>1
<1>9. \A k \in 0 .. n : g[1 .. k] \in V
  <2>1. ASSUME NEW k \in 0 .. n - 1, g[1 .. k] \in V PROVE g[1 .. k + 1] \in V
    <3>1. k + 1 \in 1 .. n
      BY <1>1
    <3>2. g[1 .. k] + s[(k + 1)] \in V
      BY <1>2, <2>1, <3>1
    <3> QED BY <1>8, <3>2
  <2> QED BY <1>1, <1>7, <2>1, PrefixTypes
<1> DEFINE F == [k \in 0 .. n |-> g[1 .. k]]
<1>10. /\ Through(F, n, V, 0)
       /\ \A k \in 0 .. n - 1 : F[k + 1] = F[k] + s[k + 1]
       /\ F[n] = SumOf(s)
  <2>1. F \in [0 .. n -> V] /\ \A k \in 0 .. n : F[k] = g[1 .. k]
    BY <1>9
  <2> HIDE DEF F
  <2>2. 0 \in 0 .. n /\ n \in 0 .. n /\ \A k \in 0 .. n - 1 : k \in 0 .. n /\ k + 1 \in 0 .. n
    BY <1>1
  <2> QED BY <1>6, <1>7, <1>8, <2>1, <2>2 DEF Through
<1> QED
  BY <1>10 DEF n, V

\* A news row, one article after the other.
LEMMA NewsIsFolded ==
  ASSUME NEW s \in Seq(Int)
  PROVE  \E F : /\ Through(F, Len(s), NewsRows, EmptyNews)
                /\ \A k \in 0 .. Len(s) - 1 : F[k + 1] = Upsert(F[k], s[k + 1])
                /\ F[Len(s)] = NewsRow(s)
<1> DEFINE n == Len(s)
           V == NewsRows
           P(g) == g = [t \in SUBSET (1 .. n) |->
                         IF t = {} THEN EmptyNews
                         ELSE Upsert(g[t \ {Max(t)}], s[Max(t)])]
           step == [i \in 1 .. n |-> [v \in V |-> Upsert(v, s[i])]]
           g == CHOOSE g : P(g)
<1>1. n \in Nat /\ DOMAIN s = 1 .. n /\ EmptyNews \in V
  BY DEF EmptyNews, NewsRows
<1>2. ASSUME NEW v \in V, NEW i \in 1 .. n PROVE Upsert(v, s[i]) \in V
  <2>1. s[i] \in Int OBVIOUS
  <2>2. /\ v.sum \in Int /\ v.over \in Int /\ v.count \in Int
        /\ v.positive \in Int /\ v.negative \in Int /\ v.neutral \in Int
    BY DEF NewsRows
  <2>3. \A a, b \in Int : a * b \in Int /\ a + b \in Int
    OBVIOUS
  <2>4. /\ v.sum * v.count + s[i] * v.over \in Int
        /\ v.over * (v.count + 1) \in Int
    <3>1. v.sum * v.count \in Int /\ s[i] * v.over \in Int /\ v.count + 1 \in Int
      BY <2>1, <2>2, <2>3
    <3> QED BY <2>2, <2>3, <3>1
  <2>5. /\ v.positive + (IF s[i] > 2 THEN 1 ELSE 0) \in Int
        /\ v.negative + (IF s[i] < -2 THEN 1 ELSE 0) \in Int
        /\ v.neutral + (IF -2 <= s[i] /\ s[i] <= 2 THEN 1 ELSE 0) \in Int
        /\ v.count + 1 \in Int
    <3>1. /\ (IF s[i] > 2 THEN 1 ELSE 0) \in Int
          /\ (IF s[i] < -2 THEN 1 ELSE 0) \in Int
          /\ (IF -2 <= s[i] /\ s[i] <= 2 THEN 1 ELSE 0) \in Int
      OBVIOUS
    <3> QED BY <2>2, <2>3, <3>1
  <2> QED BY <2>4, <2>5 DEF NewsRows, Upsert
<1> HIDE DEF V
<1>3. step \in [1 .. n -> [V -> V]]
  BY <1>2
<1>4. \E f : P(f)
  <2>1. PICK f \in [SUBSET (1 .. n) -> V] : IsTypedFold(f, n, V, EmptyNews, step)
    <3> HIDE DEF step, n
    <3> QED BY <1>1, <1>3, FoldByPrefixes
  <2>2. ASSUME NEW t \in SUBSET (1 .. n)
        PROVE  f[t] = IF t = {} THEN EmptyNews
                      ELSE Upsert(f[t \ {Max(t)}], s[Max(t)])
    <3>1. CASE t = {}
      BY <2>1, <3>1 DEF IsTypedFold
    <3>2. CASE t # {}
      <4>1. /\ Max(t) \in 1 .. n /\ f[t \ {Max(t)}] \in V
            /\ f[t] = step[Max(t)][f[t \ {Max(t)}]]
        <5> HIDE DEF step, n
        <5> QED BY <2>1, <3>2 DEF IsTypedFold
      <4> HIDE DEF n
      <4> QED BY <3>2, <4>1
    <3> QED BY <3>1, <3>2
  <2> HIDE DEF n, step
  <2> QED BY <1>1, <2>2
<1>5. P(g)
  <2> HIDE DEF P
  <2> QED BY <1>4
<1>6. g[1 .. n] = NewsRow(s)
  BY <1>1, Zenon DEF NewsRow, FoldLeft, MapThenFoldSet
<1> HIDE DEF n, g
<1>7. g[1 .. 0] = EmptyNews
  BY <1>1, <1>5
<1>8. ASSUME NEW k \in 0 .. n - 1 PROVE g[1 .. k + 1] = Upsert(g[1 .. k], s[k + 1])
  <2>1. /\ 1 .. k + 1 \in SUBSET (1 .. n) /\ 1 .. k + 1 # {}
        /\ Max(1 .. k + 1) = k + 1
        /\ (1 .. k + 1) \ {k + 1} = 1 .. k
    BY <1>1, PrefixOfInterval
  <2> QED BY <1>1, <1>5, <2>1
<1>9. \A k \in 0 .. n : g[1 .. k] \in V
  <2>1. ASSUME NEW k \in 0 .. n - 1, g[1 .. k] \in V PROVE g[1 .. k + 1] \in V
    <3>1. k + 1 \in 1 .. n
      BY <1>1
    <3>2. Upsert(g[1 .. k], s[(k + 1)]) \in V
      BY <1>2, <2>1, <3>1
    <3> QED BY <1>8, <3>2
  <2> QED BY <1>1, <1>7, <2>1, PrefixTypes
<1> DEFINE F == [k \in 0 .. n |-> g[1 .. k]]
<1>10. /\ Through(F, n, V, EmptyNews)
       /\ \A k \in 0 .. n - 1 : F[k + 1] = Upsert(F[k], s[k + 1])
       /\ F[n] = NewsRow(s)
  <2>1. F \in [0 .. n -> V] /\ \A k \in 0 .. n : F[k] = g[1 .. k]
    BY <1>9
  <2> HIDE DEF F
  <2>2. 0 \in 0 .. n /\ n \in 0 .. n /\ \A k \in 0 .. n - 1 : k \in 0 .. n /\ k + 1 \in 0 .. n
    BY <1>1
  <2> QED BY <1>6, <1>7, <1>8, <2>1, <2>2 DEF Through
<1> QED
  BY <1>10 DEF n, V

\* A candle, one trade after the other.
LEMMA TradesAreFolded ==
  ASSUME NEW s \in Seq(Trade)
  PROVE  \E F : /\ Through(F, Len(s), Candles, EmptyCandle)
                /\ \A k \in 0 .. Len(s) - 1 : F[k + 1] = AddTrade(F[k], s[k + 1])
                /\ F[Len(s)] = Candle(s)
<1> DEFINE n == Len(s)
           V == Candles
           P(g) == g = [t \in SUBSET (1 .. n) |->
                         IF t = {} THEN EmptyCandle
                         ELSE AddTrade(g[t \ {Max(t)}], s[Max(t)])]
           step == [i \in 1 .. n |-> [v \in V |-> AddTrade(v, s[i])]]
           g == CHOOSE g : P(g)
<1>1. n \in Nat /\ DOMAIN s = 1 .. n /\ EmptyCandle \in V
  BY DEF EmptyCandle, Candles
<1>2. ASSUME NEW v \in V, NEW i \in 1 .. n PROVE AddTrade(v, s[i]) \in V
  <2>1. s[i] \in Trade OBVIOUS
  <2>2. /\ s[i].price \in Int /\ s[i].time \in Int
        /\ (IF s[i].maker THEN -s[i].qty ELSE s[i].qty) \in Int
    BY <2>1 DEF Trade
  <2>3. CASE v.count = 0
    BY <2>2, <2>3 DEF AddTrade, Candles
  <2>4. CASE v.count # 0
    <3>1. /\ v.count \in Nat /\ v.open \in Int /\ v.first \in Int /\ v.high \in Int
          /\ v.low \in Int /\ v.net \in Int
      BY <2>4 DEF Candles, EmptyCandle
    <3>2. /\ (IF s[i].time < v.first THEN s[i].price ELSE v.open) \in Int
          /\ (IF s[i].time < v.first THEN s[i].time ELSE v.first) \in Int
          /\ (IF s[i].price > v.high THEN s[i].price ELSE v.high) \in Int
          /\ (IF s[i].price < v.low THEN s[i].price ELSE v.low) \in Int
          /\ v.net + (IF s[i].maker THEN -s[i].qty ELSE s[i].qty) \in Int
      BY <2>2, <3>1
    <3>3. v.count + 1 \in Nat \ {0}
      BY <3>1
    <3> QED BY <2>2, <2>4, <3>2, <3>3 DEF AddTrade, Candles
  <2> QED BY <2>3, <2>4
<1> HIDE DEF V
<1>3. step \in [1 .. n -> [V -> V]]
  BY <1>2
<1>4. \E f : P(f)
  <2>1. PICK f \in [SUBSET (1 .. n) -> V] : IsTypedFold(f, n, V, EmptyCandle, step)
    <3> HIDE DEF step, n
    <3> QED BY <1>1, <1>3, FoldByPrefixes
  <2>2. ASSUME NEW t \in SUBSET (1 .. n)
        PROVE  f[t] = IF t = {} THEN EmptyCandle
                      ELSE AddTrade(f[t \ {Max(t)}], s[Max(t)])
    <3>1. CASE t = {}
      BY <2>1, <3>1 DEF IsTypedFold
    <3>2. CASE t # {}
      <4>1. /\ Max(t) \in 1 .. n /\ f[t \ {Max(t)}] \in V
            /\ f[t] = step[Max(t)][f[t \ {Max(t)}]]
        <5> HIDE DEF step, n
        <5> QED BY <2>1, <3>2 DEF IsTypedFold
      <4> HIDE DEF n
      <4> QED BY <3>2, <4>1
    <3> QED BY <3>1, <3>2
  <2> HIDE DEF n, step
  <2> QED BY <1>1, <2>2
<1>5. P(g)
  <2> HIDE DEF P
  <2> QED BY <1>4
<1>6. g[1 .. n] = Candle(s)
  BY <1>1, Zenon DEF Candle, FoldLeft, MapThenFoldSet
<1> HIDE DEF n, g
<1>7. g[1 .. 0] = EmptyCandle
  BY <1>1, <1>5
<1>8. ASSUME NEW k \in 0 .. n - 1 PROVE g[1 .. k + 1] = AddTrade(g[1 .. k], s[k + 1])
  <2>1. /\ 1 .. k + 1 \in SUBSET (1 .. n) /\ 1 .. k + 1 # {}
        /\ Max(1 .. k + 1) = k + 1
        /\ (1 .. k + 1) \ {k + 1} = 1 .. k
    BY <1>1, PrefixOfInterval
  <2> QED BY <1>1, <1>5, <2>1
<1>9. \A k \in 0 .. n : g[1 .. k] \in V
  <2>1. ASSUME NEW k \in 0 .. n - 1, g[1 .. k] \in V PROVE g[1 .. k + 1] \in V
    <3>1. k + 1 \in 1 .. n
      BY <1>1
    <3>2. AddTrade(g[1 .. k], s[(k + 1)]) \in V
      BY <1>2, <2>1, <3>1
    <3> QED BY <1>8, <3>2
  <2> QED BY <1>1, <1>7, <2>1, PrefixTypes
<1> DEFINE F == [k \in 0 .. n |-> g[1 .. k]]
<1>10. /\ Through(F, n, V, EmptyCandle)
       /\ \A k \in 0 .. n - 1 : F[k + 1] = AddTrade(F[k], s[k + 1])
       /\ F[n] = Candle(s)
  <2>1. F \in [0 .. n -> V] /\ \A k \in 0 .. n : F[k] = g[1 .. k]
    BY <1>9
  <2> HIDE DEF F
  <2>2. 0 \in 0 .. n /\ n \in 0 .. n /\ \A k \in 0 .. n - 1 : k \in 0 .. n /\ k + 1 \in 0 .. n
    BY <1>1
  <2> QED BY <1>6, <1>7, <1>8, <2>1, <2>2 DEF Through
<1> QED
  BY <1>10 DEF n, V

\* The training windows, one row after the other.
LEMMA SlicesAreFolded ==
  ASSUME NEW size \in Nat \ {0}, NEW s \in Seq(Row)
  PROVE  \E F : /\ Through(F, Len(s), [out : Seq(Seq(Row)), block : Seq(Row)], NoRows)
                /\ \A k \in 0 .. Len(s) - 1 : F[k + 1] = AddRow(F[k], s[k + 1], Cut(F[k].block, size))
                /\ F[Len(s)].out \o Cut(F[Len(s)].block, size)
                     = slice_continuous_windows(s, size)
<1> DEFINE n == Len(s)
           V == [out : Seq(Seq(Row)), block : Seq(Row)]
           P(g) == g = [t \in SUBSET (1 .. n) |->
                         IF t = {} THEN NoRows
                         ELSE AddRow(g[t \ {Max(t)}], s[Max(t)], Cut(g[t \ {Max(t)}].block, size))]
           step == [i \in 1 .. n |-> [v \in V |-> AddRow(v, s[i], Cut(v.block, size))]]
           g == CHOOSE g : P(g)
<1>1. n \in Nat /\ DOMAIN s = 1 .. n /\ NoRows \in V
  BY DEF NoRows
<1>2. ASSUME NEW v \in V, NEW i \in 1 .. n
      PROVE  AddRow(v, s[i], Cut(v.block, size)) \in V
  <2>1. s[i] \in Row /\ v.out \in Seq(Seq(Row)) /\ v.block \in Seq(Row)
    OBVIOUS
  <2>2. Cut(v.block, size) \in Seq(Seq(Row))
    BY <2>1, CutsAreSequences
  <2>3. v.out \o Cut(v.block, size) \in Seq(Seq(Row)) /\ <<s[i]>> \in Seq(Row)
        /\ Append(v.block, s[i]) \in Seq(Row)
    BY <2>1, <2>2
  <2> QED BY <2>1, <2>3 DEF AddRow
<1> HIDE DEF V
<1>3. step \in [1 .. n -> [V -> V]]
  BY <1>2
<1>4. \E f : P(f)
  <2>1. PICK f \in [SUBSET (1 .. n) -> V] : IsTypedFold(f, n, V, NoRows, step)
    <3> HIDE DEF step, n
    <3> QED BY <1>1, <1>3, FoldByPrefixes
  <2>2. ASSUME NEW t \in SUBSET (1 .. n)
        PROVE  f[t] = IF t = {} THEN NoRows
                      ELSE AddRow(f[t \ {Max(t)}], s[Max(t)], Cut(f[t \ {Max(t)}].block, size))
    <3>1. CASE t = {}
      BY <2>1, <3>1 DEF IsTypedFold
    <3>2. CASE t # {}
      <4>1. /\ Max(t) \in 1 .. n /\ f[t \ {Max(t)}] \in V
            /\ f[t] = step[Max(t)][f[t \ {Max(t)}]]
        <5> HIDE DEF step, n
        <5> QED BY <2>1, <3>2 DEF IsTypedFold
      <4> HIDE DEF n
      <4> QED BY <3>2, <4>1
    <3> QED BY <3>1, <3>2
  <2> HIDE DEF n, step
  <2> QED BY <1>1, <2>2
<1>5. P(g)
  <2> HIDE DEF P
  <2> QED BY <1>4
<1>6. g[1 .. n].out \o Cut(g[1 .. n].block, size) = slice_continuous_windows(s, size)
  BY <1>1, Zenon DEF slice_continuous_windows, FoldLeft, MapThenFoldSet
<1> HIDE DEF n, g
<1>7. g[1 .. 0] = NoRows
  BY <1>1, <1>5
<1>8. ASSUME NEW k \in 0 .. n - 1 PROVE g[1 .. k + 1] = AddRow(g[1 .. k], s[k + 1], Cut(g[1 .. k].block, size))
  <2>1. /\ 1 .. k + 1 \in SUBSET (1 .. n) /\ 1 .. k + 1 # {}
        /\ Max(1 .. k + 1) = k + 1
        /\ (1 .. k + 1) \ {k + 1} = 1 .. k
    BY <1>1, PrefixOfInterval
  <2> QED BY <1>1, <1>5, <2>1
<1>9. \A k \in 0 .. n : g[1 .. k] \in V
  <2>1. ASSUME NEW k \in 0 .. n - 1, g[1 .. k] \in V PROVE g[1 .. k + 1] \in V
    <3>1. k + 1 \in 1 .. n
      BY <1>1
    <3>2. AddRow(g[1 .. k], s[(k + 1)], Cut(g[1 .. k].block, size)) \in V
      BY <1>2, <2>1, <3>1
    <3> QED BY <1>8, <3>2
  <2> QED BY <1>1, <1>7, <2>1, PrefixTypes
<1> DEFINE F == [k \in 0 .. n |-> g[1 .. k]]
<1>10. /\ Through(F, n, V, NoRows)
       /\ \A k \in 0 .. n - 1 : F[k + 1] = AddRow(F[k], s[k + 1], Cut(F[k].block, size))
       /\ F[n].out \o Cut(F[n].block, size) = slice_continuous_windows(s, size)
  <2>1. F \in [0 .. n -> V] /\ \A k \in 0 .. n : F[k] = g[1 .. k]
    BY <1>9
  <2> HIDE DEF F
  <2>2. 0 \in 0 .. n /\ n \in 0 .. n /\ \A k \in 0 .. n - 1 : k \in 0 .. n /\ k + 1 \in 0 .. n
    BY <1>1
  <2> QED BY <1>6, <1>7, <1>8, <2>1, <2>2 DEF Through
<1> QED
  BY <1>10 DEF n, V

\* Their labels, one row after the other.
LEMMA LabelsAreFolded ==
  ASSUME NEW size \in Nat \ {0}, NEW s \in Seq(Row)
  PROVE  \E F : /\ Through(F, Len(s), [out : Seq(Int), block : Seq(Row)], NoRows)
                /\ \A k \in 0 .. Len(s) - 1 : F[k + 1] = AddRow(F[k], s[k + 1], CutLabels(F[k].block, size))
                /\ F[Len(s)].out \o CutLabels(F[Len(s)].block, size)
                     = align_labels_to_sequences(s, size)
<1> DEFINE n == Len(s)
           V == [out : Seq(Int), block : Seq(Row)]
           P(g) == g = [t \in SUBSET (1 .. n) |->
                         IF t = {} THEN NoRows
                         ELSE AddRow(g[t \ {Max(t)}], s[Max(t)], CutLabels(g[t \ {Max(t)}].block, size))]
           step == [i \in 1 .. n |-> [v \in V |-> AddRow(v, s[i], CutLabels(v.block, size))]]
           g == CHOOSE g : P(g)
<1>1. n \in Nat /\ DOMAIN s = 1 .. n /\ NoRows \in V
  BY DEF NoRows
<1>2. ASSUME NEW v \in V, NEW i \in 1 .. n
      PROVE  AddRow(v, s[i], CutLabels(v.block, size)) \in V
  <2>1. s[i] \in Row /\ v.out \in Seq(Int) /\ v.block \in Seq(Row)
    OBVIOUS
  <2>2. CutLabels(v.block, size) \in Seq(Int)
    BY <2>1, CutsAreSequences
  <2>3. v.out \o CutLabels(v.block, size) \in Seq(Int) /\ <<s[i]>> \in Seq(Row)
        /\ Append(v.block, s[i]) \in Seq(Row)
    BY <2>1, <2>2
  <2> QED BY <2>1, <2>3 DEF AddRow
<1> HIDE DEF V
<1>3. step \in [1 .. n -> [V -> V]]
  BY <1>2
<1>4. \E f : P(f)
  <2>1. PICK f \in [SUBSET (1 .. n) -> V] : IsTypedFold(f, n, V, NoRows, step)
    <3> HIDE DEF step, n
    <3> QED BY <1>1, <1>3, FoldByPrefixes
  <2>2. ASSUME NEW t \in SUBSET (1 .. n)
        PROVE  f[t] = IF t = {} THEN NoRows
                      ELSE AddRow(f[t \ {Max(t)}], s[Max(t)], CutLabels(f[t \ {Max(t)}].block, size))
    <3>1. CASE t = {}
      BY <2>1, <3>1 DEF IsTypedFold
    <3>2. CASE t # {}
      <4>1. /\ Max(t) \in 1 .. n /\ f[t \ {Max(t)}] \in V
            /\ f[t] = step[Max(t)][f[t \ {Max(t)}]]
        <5> HIDE DEF step, n
        <5> QED BY <2>1, <3>2 DEF IsTypedFold
      <4> HIDE DEF n
      <4> QED BY <3>2, <4>1
    <3> QED BY <3>1, <3>2
  <2> HIDE DEF n, step
  <2> QED BY <1>1, <2>2
<1>5. P(g)
  <2> HIDE DEF P
  <2> QED BY <1>4
<1>6. g[1 .. n].out \o CutLabels(g[1 .. n].block, size) = align_labels_to_sequences(s, size)
  BY <1>1, Zenon DEF align_labels_to_sequences, FoldLeft, MapThenFoldSet
<1> HIDE DEF n, g
<1>7. g[1 .. 0] = NoRows
  BY <1>1, <1>5
<1>8. ASSUME NEW k \in 0 .. n - 1 PROVE g[1 .. k + 1] = AddRow(g[1 .. k], s[k + 1], CutLabels(g[1 .. k].block, size))
  <2>1. /\ 1 .. k + 1 \in SUBSET (1 .. n) /\ 1 .. k + 1 # {}
        /\ Max(1 .. k + 1) = k + 1
        /\ (1 .. k + 1) \ {k + 1} = 1 .. k
    BY <1>1, PrefixOfInterval
  <2> QED BY <1>1, <1>5, <2>1
<1>9. \A k \in 0 .. n : g[1 .. k] \in V
  <2>1. ASSUME NEW k \in 0 .. n - 1, g[1 .. k] \in V PROVE g[1 .. k + 1] \in V
    <3>1. k + 1 \in 1 .. n
      BY <1>1
    <3>2. AddRow(g[1 .. k], s[(k + 1)], CutLabels(g[1 .. k].block, size)) \in V
      BY <1>2, <2>1, <3>1
    <3> QED BY <1>8, <3>2
  <2> QED BY <1>1, <1>7, <2>1, PrefixTypes
<1> DEFINE F == [k \in 0 .. n |-> g[1 .. k]]
<1>10. /\ Through(F, n, V, NoRows)
       /\ \A k \in 0 .. n - 1 : F[k + 1] = AddRow(F[k], s[k + 1], CutLabels(F[k].block, size))
       /\ F[n].out \o CutLabels(F[n].block, size) = align_labels_to_sequences(s, size)
  <2>1. F \in [0 .. n -> V] /\ \A k \in 0 .. n : F[k] = g[1 .. k]
    BY <1>9
  <2> HIDE DEF F
  <2>2. 0 \in 0 .. n /\ n \in 0 .. n /\ \A k \in 0 .. n - 1 : k \in 0 .. n /\ k + 1 \in 0 .. n
    BY <1>1
  <2> QED BY <1>6, <1>7, <1>8, <2>1, <2>2 DEF Through
<1> QED
  BY <1>10 DEF n, V

\* The runs of a table, one row after the other.
LEMMA RunsAreFolded ==
  ASSUME NEW size \in Nat \ {0}, NEW s \in Seq(Row)
  PROVE  \E F : /\ Through(F, Len(s), Seq(Seq(Row)), <<>>)
                /\ \A k \in 0 .. Len(s) - 1 : F[k + 1] = AddRun(F[k], s, size, k + 1)
                /\ F[Len(s)] = Runs(s, size)
<1> DEFINE n == Len(s)
           V == Seq(Seq(Row))
           P(g) == g = [t \in SUBSET (1 .. n) |->
                         IF t = {} THEN <<>>
                         ELSE AddRun(g[t \ {Max(t)}], s, size, Positions(s)[Max(t)])]
           step == [i \in 1 .. n |-> [v \in V |-> AddRun(v, s, size, Positions(s)[i])]]
           g == CHOOSE g : P(g)
<1>1. n \in Nat /\ DOMAIN Positions(s) = 1 .. n /\ <<>> \in V
  BY DEF Positions
<1>2. ASSUME NEW v \in V, NEW i \in 1 .. n PROVE AddRun(v, s, size, Positions(s)[i]) \in V
  <2>1. Positions(s)[i] = i
    BY DEF Positions
  <2>2. CASE EndsRun(s, size, i)
    <3>1. i >= size
      BY <2>2 DEF EndsRun
    <3>2. /\ i \in Int /\ i - size + 1 \in Int
          /\ \A x \in i - size + 1 .. i : x \in 1 .. n
      BY <3>1
    <3>3. \A x \in i - size + 1 .. i : s[x] \in Row
      <4>1. \A x \in 1 .. n : s[x] \in Row
        OBVIOUS
      <4> QED BY <3>2, <4>1
    <3>4. SubSeq(s, i - size + 1, i) \in Seq(Row)
      BY <3>2, <3>3
    <3> QED BY <2>1, <2>2, <3>4 DEF AddRun
  <2> QED BY <2>1, <2>2 DEF AddRun
<1> HIDE DEF V
<1>3. step \in [1 .. n -> [V -> V]]
  BY <1>2
<1>4. \E f : P(f)
  <2>1. PICK f \in [SUBSET (1 .. n) -> V] : IsTypedFold(f, n, V, <<>>, step)
    <3> HIDE DEF step, n
    <3> QED BY <1>1, <1>3, FoldByPrefixes
  <2>2. ASSUME NEW t \in SUBSET (1 .. n)
        PROVE  f[t] = IF t = {} THEN <<>>
                      ELSE AddRun(f[t \ {Max(t)}], s, size, Positions(s)[Max(t)])
    <3>1. CASE t = {}
      BY <2>1, <3>1 DEF IsTypedFold
    <3>2. CASE t # {}
      <4>1. /\ Max(t) \in 1 .. n /\ f[t \ {Max(t)}] \in V
            /\ f[t] = step[Max(t)][f[t \ {Max(t)}]]
        <5> HIDE DEF step, n
        <5> QED BY <2>1, <3>2 DEF IsTypedFold
      <4> HIDE DEF n
      <4> QED BY <3>2, <4>1
    <3> QED BY <3>1, <3>2
  <2> HIDE DEF n, step
  <2> QED BY <1>1, <2>2
<1>5. P(g)
  <2> HIDE DEF P
  <2> QED BY <1>4
<1>6. g[1 .. n] = Runs(s, size)
  BY <1>1, Zenon DEF Runs, FoldLeft, MapThenFoldSet
<1> HIDE DEF n, g
<1>7. g[1 .. 0] = <<>>
  BY <1>1, <1>5
<1>8. ASSUME NEW k \in 0 .. n - 1 PROVE g[1 .. k + 1] = AddRun(g[1 .. k], s, size, Positions(s)[k + 1])
  <2>1. /\ 1 .. k + 1 \in SUBSET (1 .. n) /\ 1 .. k + 1 # {}
        /\ Max(1 .. k + 1) = k + 1
        /\ (1 .. k + 1) \ {k + 1} = 1 .. k
    BY <1>1, PrefixOfInterval
  <2> QED BY <1>1, <1>5, <2>1
<1>9. \A k \in 0 .. n : g[1 .. k] \in V
  <2>1. ASSUME NEW k \in 0 .. n - 1, g[1 .. k] \in V PROVE g[1 .. k + 1] \in V
    <3>1. k + 1 \in 1 .. n
      BY <1>1
    <3>2. AddRun(g[1 .. k], s, size, Positions(s)[(k + 1)]) \in V
      BY <1>2, <2>1, <3>1
    <3> QED BY <1>8, <3>2
  <2> QED BY <1>1, <1>7, <2>1, PrefixTypes
<1> DEFINE F == [k \in 0 .. n |-> g[1 .. k]]
<1>10. /\ Through(F, n, V, <<>>)
       /\ \A k \in 0 .. n - 1 : F[k + 1] = AddRun(F[k], s, size, Positions(s)[k + 1])
       /\ F[n] = Runs(s, size)
  <2>1. F \in [0 .. n -> V] /\ \A k \in 0 .. n : F[k] = g[1 .. k]
    BY <1>9
  <2> HIDE DEF F
  <2>2. 0 \in 0 .. n /\ n \in 0 .. n /\ \A k \in 0 .. n - 1 : k \in 0 .. n /\ k + 1 \in 0 .. n
    BY <1>1
  <2> QED BY <1>6, <1>7, <1>8, <2>1, <2>2 DEF Through
<1>11. ASSUME NEW k \in 0 .. n - 1 PROVE Positions(s)[k + 1] = k + 1
  <2>1. k + 1 \in DOMAIN s
    BY DEF n
  <2> QED BY <2>1 DEF Positions
<1> QED
  BY <1>10, <1>11 DEF n, V

-----------------------------------------------------------------------------
(* The windows of training and of the engine.                               *)

\* Sequences of the same length and elements are equal.
LEMMA SameSequence ==
  ASSUME NEW S, NEW s \in Seq(S), NEW t \in Seq(S), Len(s) = Len(t),
         \A i \in 1 .. Len(s) : s[i] = t[i]
  PROVE  s = t
OBVIOUS

LEMMA OneMore ==
  ASSUME NEW S, NEW s \in Seq(S), NEW t \in Seq(S), NEW x \in S, Len(t) = Len(s) + 1,
         t[Len(t)] = x, \A i \in 1 .. Len(s) : t[i] = s[i]
  PROVE  t = Append(s, x)
OBVIOUS

LEMMA AppendIs ==
  ASSUME NEW S, NEW s \in Seq(S), NEW x \in S
  PROVE  /\ Append(s, x) \in Seq(S) /\ Len(Append(s, x)) = Len(s) + 1
         /\ Append(s, x)[Len(s) + 1] = x /\ \A i \in 1 .. Len(s) : Append(s, x)[i] = s[i]
OBVIOUS

LEMMA ConcatIs ==
  ASSUME NEW S, NEW s \in Seq(S), NEW t \in Seq(S)
  PROVE  s \o t \in Seq(S)
OBVIOUS

\* An element at the end of the second part is at the end of the whole.
LEMMA ConcatAppend ==
  ASSUME NEW S, NEW s \in Seq(S), NEW t \in Seq(S), NEW x \in S
  PROVE  s \o Append(t, x) = Append(s \o t, x)
<1>1. /\ Len(s \o Append(t, x)) = Len(s) + Len(t) + 1
      /\ Len(Append(s \o t, x)) = Len(s) + Len(t) + 1
      /\ s \o Append(t, x) \in Seq(S) /\ Append(s \o t, x) \in Seq(S)
  OBVIOUS
<1>2. ASSUME NEW i \in 1 .. Len(s) + Len(t) + 1
      PROVE  (s \o Append(t, x))[i] = Append(s \o t, x)[i]
  OBVIOUS
<1> QED BY <1>1, <1>2, SameSequence

LEMMA ConcatLabel ==
  ASSUME NEW s \in Seq(Int), NEW t \in Seq(Int), NEW x \in Int
  PROVE  s \o Append(t, x) = Append(s \o t, x)
BY ConcatAppend

\* How many windows there are in a block, and what they and their labels are.
WindowsIn(block, size) == IF Len(block) >= size THEN Len(block) - size + 1 ELSE 0

\* What the cut of a block is: m windows and their labels, by index.
IsCut(block, size, m) ==
  /\ Cut(block, size) \in Seq(Seq(Row)) /\ Len(Cut(block, size)) = m
  /\ CutLabels(block, size) \in Seq(Int) /\ Len(CutLabels(block, size)) = m
  /\ \A i \in 1 .. m : /\ Cut(block, size)[i] = SubSeq(block, i, i + size - 1)
                       /\ CutLabels(block, size)[i] = block[i + size - 1].label

LEMMA CutIs ==
  ASSUME NEW size \in Nat \ {0}, NEW block \in Seq(Row)
  PROVE  IsCut(block, size, WindowsIn(block, size))
<1> DEFINE m == WindowsIn(block, size)
<1>1. m \in Nat /\ 1 .. Len(block) - size + 1 = 1 .. m
  BY DEF WindowsIn
<1> HIDE DEF m
<1>2. /\ Cut(block, size) = [i \in 1 .. m |-> SubSeq(block, i, i + size - 1)]
      /\ CutLabels(block, size) = [i \in 1 .. m |-> block[i + size - 1].label]
  BY <1>1, Zenon DEF Cut, CutLabels
<1>3. Cut(block, size) \in Seq(Seq(Row)) /\ CutLabels(block, size) \in Seq(Int)
  BY CutsAreSequences
<1>4. IsCut(block, size, m)
  BY <1>1, <1>2, <1>3 DEF IsCut
<1> QED BY <1>4 DEF m

\* A row more in a block is a window more once the block is long enough.
LEMMA CutGrows ==
  ASSUME NEW size \in Nat \ {0}, NEW block \in Seq(Row), NEW row \in Row,
         NEW longer \in Seq(Row), Len(longer) = Len(block) + 1, longer[Len(longer)] = row,
         \A i \in 1 .. Len(block) : longer[i] = block[i]
  PROVE  /\ Len(longer) >= size =>
              /\ Cut(longer, size)
                   = Append(Cut(block, size), SubSeq(longer, Len(longer) - size + 1, Len(longer)))
              /\ CutLabels(longer, size) = Append(CutLabels(block, size), row.label)
         /\ Len(longer) < size =>
              /\ Cut(longer, size) = Cut(block, size)
              /\ CutLabels(longer, size) = CutLabels(block, size)
<1> DEFINE m == WindowsIn(block, size)
           l == WindowsIn(longer, size)
<1>1. /\ longer \in Seq(Row) /\ Len(longer) = Len(block) + 1 /\ longer[Len(longer)] = row
      /\ \A i \in 1 .. Len(block) : longer[i] = block[i]
      /\ row.label \in Int
  BY DEF Row
<1>0. /\ m \in Nat /\ m = IF Len(block) >= size THEN Len(block) - size + 1 ELSE 0
      /\ l \in Nat /\ l = IF Len(longer) >= size THEN Len(longer) - size + 1 ELSE 0
  BY <1>1 DEF WindowsIn
<1>6. IsCut(block, size, m) /\ IsCut(longer, size, l)
  BY CutIs
<1> HIDE DEF m, l
<1>2. /\ Cut(block, size) \in Seq(Seq(Row)) /\ Len(Cut(block, size)) = m
      /\ CutLabels(block, size) \in Seq(Int) /\ Len(CutLabels(block, size)) = m
      /\ \A i \in 1 .. m : /\ Cut(block, size)[i] = SubSeq(block, i, i + size - 1)
                           /\ CutLabels(block, size)[i] = block[i + size - 1].label
  BY <1>6 DEF IsCut
<1>3. /\ Cut(longer, size) \in Seq(Seq(Row)) /\ Len(Cut(longer, size)) = l
      /\ CutLabels(longer, size) \in Seq(Int) /\ Len(CutLabels(longer, size)) = l
      /\ \A i \in 1 .. l : /\ Cut(longer, size)[i] = SubSeq(longer, i, i + size - 1)
                           /\ CutLabels(longer, size)[i] = longer[i + size - 1].label
  BY <1>6 DEF IsCut
<1>4. CASE Len(longer) >= size
  <2> DEFINE last == SubSeq(longer, Len(longer) - size + 1, Len(longer))
  <2>1. l = m + 1 /\ l = Len(longer) - size + 1 /\ m = Len(block) - size + 1
    BY <1>0, <1>1, <1>4
  <2>2. last = Cut(longer, size)[l] /\ last \in Seq(Row)
    <3>1. last = SubSeq(longer, l, l + size - 1) /\ l \in 1 .. l
      <4>1. l + size - 1 = Len(longer) /\ l \in 1 .. l
        BY <1>0, <2>1
      <4> QED BY <2>1, <4>1
    <3>2. Cut(longer, size)[l] \in Seq(Row)
      BY <1>3, <3>1
    <3> QED BY <1>3, <3>1, <3>2
  <2>3. ASSUME NEW i \in 1 .. m
        PROVE  /\ Cut(longer, size)[i] = Cut(block, size)[i]
               /\ CutLabels(longer, size)[i] = CutLabels(block, size)[i]
    <3>1. /\ i \in 1 .. l /\ i + size - 1 \in 1 .. Len(block)
          /\ \A x \in i .. i + size - 1 : x \in 1 .. Len(block)
      BY <1>1, <2>1
    <3>2. SubSeq(longer, i, i + size - 1) = SubSeq(block, i, i + size - 1)
      BY <1>1, <3>1
    <3>3. longer[i + size - 1].label = block[i + size - 1].label
      BY <1>1, <3>1
    <3> QED BY <1>2, <1>3, <3>1, <3>2, <3>3
  <2>4. CutLabels(longer, size)[l] = row.label
    <3>1. l \in 1 .. l /\ l + size - 1 = Len(longer)
      <4>1. l = m + 1 /\ m \in Nat
        BY <1>0, <2>1
      <4>2. l = Len(longer) - size + 1 /\ Len(longer) \in Nat /\ size \in Nat
        BY <2>1
      <4> QED BY <4>1, <4>2
    <3> QED BY <1>1, <1>3, <3>1
  <2> HIDE DEF last
  <2>5. Cut(longer, size) = Append(Cut(block, size), last)
    <3> DEFINE c == Cut(block, size)
               d == Cut(longer, size)
    <3>1. /\ c \in Seq(Seq(Row)) /\ d \in Seq(Seq(Row)) /\ Len(d) = Len(c) + 1
          /\ d[Len(d)] = last /\ last \in Seq(Row) /\ \A i \in 1 .. Len(c) : d[i] = c[i]
      BY <1>2, <1>3, <2>1, <2>2, <2>3
    <3> HIDE DEF c, d
    <3>2. d = Append(c, last)
      BY <3>1, OneMore
    <3> QED BY <3>2 DEF c, d
  <2>6. CutLabels(longer, size) = Append(CutLabels(block, size), row.label)
    <3> DEFINE c == CutLabels(block, size)
               d == CutLabels(longer, size)
               x == row.label
    <3>1. /\ c \in Seq(Int) /\ d \in Seq(Int) /\ Len(d) = Len(c) + 1
          /\ d[Len(d)] = x /\ x \in Int /\ \A i \in 1 .. Len(c) : d[i] = c[i]
      BY <1>1, <1>2, <1>3, <2>1, <2>3, <2>4
    <3> HIDE DEF c, d, x
    <3>2. d = Append(c, x)
      BY <3>1, OneMore
    <3> QED BY <3>2 DEF c, d, x
  <2> QED BY <1>1, <1>4, <2>5, <2>6 DEF last
<1>5. CASE Len(longer) < size
  <2>1. l = 0 /\ m = 0
    BY <1>0, <1>1, <1>5
  <2>2. Cut(longer, size) = Cut(block, size) /\ CutLabels(longer, size) = CutLabels(block, size)
    BY <1>2, <1>3, <2>1, SameSequence
  <2> QED BY <1>1, <1>5, <2>2
<1> QED BY <1>1, <1>4, <1>5

\* Numbers that rise lie apart as far as their places, and just as far when no two
\* neighbours leave a gap.
LEMMA RisingSpread ==
  ASSUME NEW N \in Nat, NEW b \in [1 .. N -> Int],
         \A x \in 1 .. N - 1 : b[x] < b[x + 1],
         NEW i \in 1 .. N, NEW j \in i .. N
  PROVE  /\ b[j] - b[i] >= j - i
         /\ b[j] - b[i] = j - i <=> \A x \in i .. j - 1 : b[x + 1] - b[x] <= 1
<1> DEFINE P(d) == /\ b[i + d] - b[i] >= d
                   /\ b[i + d] - b[i] = d <=> \A x \in i .. i + d - 1 : b[x + 1] - b[x] <= 1
           S == {d \in 0 .. N - i : P(d)}
<1>1. P(0)
  OBVIOUS
<1>2. ASSUME NEW d \in 0 .. N - i - 1, P(d) PROVE P(d + 1)
  <2> DEFINE k == i + d
  <2>1. k \in 1 .. N - 1 /\ k + 1 \in 1 .. N /\ k \in i .. k /\ b[k] < b[k + 1] /\ i + (d + 1) = k + 1
    OBVIOUS
  <2>2. (\A x \in i .. k : b[x + 1] - b[x] <= 1)
          <=> (\A x \in i .. k - 1 : b[x + 1] - b[x] <= 1) /\ b[k + 1] - b[k] <= 1
    <3>1. \A x : x \in i .. k <=> x \in i .. k - 1 \/ x = k
      OBVIOUS
    <3> HIDE DEF k
    <3> QED BY <3>1
  <2>3. b[k] - b[i] >= d /\ (b[k] - b[i] = d <=> \A x \in i .. k - 1 : b[x + 1] - b[x] <= 1)
    BY <1>2
  <2>4. b[k] \in Int /\ b[k + 1] \in Int /\ b[i] \in Int
    BY <2>1
  <2> HIDE DEF k
  <2>5. /\ b[k + 1] - b[i] >= d + 1
        /\ b[k + 1] - b[i] = d + 1 <=> b[k] - b[i] = d /\ b[k + 1] - b[k] <= 1
    <3>1. b[k] < b[k + 1] /\ b[k] - b[i] >= d
      BY <2>1, <2>3
    <3>2. \A u, v, w \in Int : u < v /\ u - w >= d =>
            v - w >= d + 1 /\ (v - w = d + 1 <=> u - w = d /\ v - u <= 1)
      OBVIOUS
    <3> QED BY <2>4, <3>1, <3>2
  <2>6. i + (d + 1) - 1 = k
    BY <2>1
  <2> QED BY <2>1, <2>2, <2>3, <2>5, <2>6
<1>3. j - i \in S
  <2> HIDE DEF P
  <2>1. 0 \in S /\ \A d \in 0 .. N - i - 1 : d \in S => d + 1 \in S
    BY <1>1, <1>2
  <2>2. N - i \in Nat /\ j - i \in 0 .. N - i
    OBVIOUS
  <2>3. \A d \in 0 .. N - i : d \in S
    <3> HIDE DEF S
    <3> QED BY <2>1, <2>2, UpTo
  <2> QED BY <2>2, <2>3
<1> QED BY <1>3

\* Rows in the order of their buckets.
Table == {rows \in Seq(Row) : \A i \in 1 .. Len(rows) - 1 : rows[i].bucket < rows[i + 1].bucket}

\* A bucket is missing after a row.
Gap(rows, x) == rows[x + 1].bucket - rows[x].bucket > 1

\* A run ends where the rows behind have no gap.
LEMMA EndsRunIs ==
  ASSUME NEW rows \in Table, NEW size \in Nat \ {0}, NEW k \in 1 .. Len(rows)
  PROVE  EndsRun(rows, size, k) <=> k >= size /\ \A x \in k - size + 1 .. k - 1 : ~Gap(rows, x)
<1> DEFINE N == Len(rows)
           b == [x \in 1 .. N |-> rows[x].bucket]
<1>1. N \in Nat /\ rows \in Seq(Row) /\ b \in [1 .. N -> Int]
  <2>1. rows \in Seq(Row)
    BY DEF Table
  <2>2. ASSUME NEW x \in 1 .. N PROVE rows[x].bucket \in Int
    <3>1. rows[x] \in Row
      BY <2>1
    <3> QED BY <3>1 DEF Row
  <2> QED BY <2>1, <2>2
<1>2. \A x \in 1 .. N - 1 : b[x] < b[x + 1]
  BY DEF Table
<1>3. CASE k >= size
  <2>1. k - size + 1 \in 1 .. N /\ k \in k - size + 1 .. N
    BY <1>3
  <2>2. \A x \in k - size + 1 .. k : b[x] = rows[x].bucket
    BY <1>3
  <2>3. \A x \in k - size + 1 .. k - 1 : /\ b[x] = rows[x].bucket
                                         /\ b[x + 1] = rows[x + 1].bucket
                                         /\ b[x] \in Int /\ b[x + 1] \in Int
    BY <1>1, <1>3
  <2>4. b[k] = rows[k].bucket /\ b[k - size + 1] = rows[k - size + 1].bucket
    BY <2>2
  <2> HIDE DEF N, b
  <2>5. b[k] - b[k - size + 1] = k - (k - size + 1)
          <=> \A x \in k - size + 1 .. k - 1 : b[x + 1] - b[x] <= 1
    BY <1>1, <1>2, <2>1, RisingSpread
  <2>6. k - (k - size + 1) = size - 1
    OBVIOUS
  <2>7. (\A x \in k - size + 1 .. k - 1 : b[x + 1] - b[x] <= 1)
          <=> (\A x \in k - size + 1 .. k - 1 : ~Gap(rows, x))
    <3>1. ASSUME NEW x \in k - size + 1 .. k - 1
          PROVE  b[x + 1] - b[x] <= 1 <=> ~Gap(rows, x)
      BY <2>3 DEF Gap
    <3> QED BY <3>1
  <2>8. EndsRun(rows, size, k) <=> b[k] - b[k - size + 1] = size - 1
    BY <1>3, <2>4 DEF EndsRun
  <2> QED BY <1>3, <2>5, <2>6, <2>7, <2>8
<1>4. CASE k < size
  BY <1>4 DEF EndsRun
<1> QED BY <1>3, <1>4

\* The block after k rows: the last rows, back to the last gap.
IsBlock(rows, k, block) ==
  /\ block \in Seq(Row)
  /\ Len(block) <= k
  /\ k > 0 => Len(block) > 0
  /\ \A i \in 1 .. Len(block) : block[i] = rows[k - Len(block) + i]
  /\ \A x \in k - Len(block) + 1 .. k - 1 : ~Gap(rows, x)
  /\ Len(block) < k => Gap(rows, k - Len(block))

\* A block as long as a window ends a run, a shorter one does not.
LEMMA LongBlocksEndRuns ==
  ASSUME NEW rows \in Table, NEW size \in Nat \ {0}, NEW k \in 1 .. Len(rows),
         NEW block, IsBlock(rows, k, block)
  PROVE  EndsRun(rows, size, k) <=> Len(block) >= size
<1> DEFINE l == Len(block)
<1>1. /\ l \in Nat /\ 0 < l /\ l <= k
      /\ \A x \in k - l + 1 .. k - 1 : ~Gap(rows, x)
      /\ l < k => Gap(rows, k - l)
  BY DEF IsBlock
<1> HIDE DEF l
<1>2. CASE l >= size
  BY <1>1, <1>2, EndsRunIs DEF l
<1>3. CASE l < size
  <2>1. k >= size => l < k /\ k - l \in k - size + 1 .. k - 1
    BY <1>1, <1>3
  <2> QED BY <1>1, <1>3, <2>1, EndsRunIs DEF l
<1> QED BY <1>1, <1>2, <1>3

\* The next row joins the block, or begins one after a gap.
LEMMA BlockGrows ==
  ASSUME NEW rows \in Seq(Row), NEW k \in 0 .. Len(rows) - 1, NEW block, IsBlock(rows, k, block),
         NEW row, row = rows[k + 1]
  PROVE  /\ row \in Row
         /\ block # <<>> /\ row.bucket - Last(block).bucket > 1 <=> k > 0 /\ Gap(rows, k)
         /\ k > 0 /\ Gap(rows, k) => IsBlock(rows, k + 1, <<row>>)
         /\ ~(k > 0 /\ Gap(rows, k)) => IsBlock(rows, k + 1, Append(block, row))
<1>1. /\ row \in Row /\ k + 1 \in 1 .. Len(rows)
      /\ block \in Seq(Row) /\ Len(block) \in Nat /\ Len(block) <= k
      /\ k > 0 => Len(block) > 0
      /\ \A i \in 1 .. Len(block) : block[i] = rows[k - Len(block) + i]
      /\ \A x \in k - Len(block) + 1 .. k - 1 : ~Gap(rows, x)
      /\ Len(block) < k => Gap(rows, k - Len(block))
  BY DEF IsBlock
<1>2. block # <<>> <=> k > 0
  BY <1>1
<1>3. ASSUME k > 0 PROVE Last(block) = rows[k]
  <2>1. Len(block) \in 1 .. Len(block) /\ k - Len(block) + Len(block) = k
    BY <1>1, <1>3
  <2> QED BY <1>1, <2>1 DEF Last
<1>4. ASSUME k > 0, Gap(rows, k) PROVE IsBlock(rows, k + 1, <<row>>)
  <2>1. /\ <<row>> \in Seq(Row) /\ Len(<<row>>) = 1 /\ <<row>>[1] = row
        /\ k + 1 - 1 + 1 = k + 1 /\ k + 1 - 1 = k
    BY <1>1
  <2> QED BY <1>4, <2>1 DEF IsBlock
<1>5. ASSUME ~(k > 0 /\ Gap(rows, k)) PROVE IsBlock(rows, k + 1, Append(block, row))
  <2> DEFINE l == Len(block)
             longer == Append(block, row)
  <2>1. /\ longer \in Seq(Row) /\ Len(longer) = l + 1 /\ longer[l + 1] = row
        /\ \A i \in 1 .. l : longer[i] = block[i]
    BY <1>1
  <2>2. l \in Nat /\ l + 1 <= k + 1 /\ l + 1 > 0
    BY <1>1
  <2> HIDE DEF l, longer
  <2>3. ASSUME NEW i \in 1 .. l + 1 PROVE longer[i] = rows[k + 1 - (l + 1) + i]
    <3>1. CASE i = l + 1
      <4>1. k + 1 - (l + 1) + i = k + 1
        BY <2>2, <3>1
      <4> QED BY <2>1, <3>1, <4>1
    <3>2. CASE i \in 1 .. l
      <4>1. k + 1 - (l + 1) + i = k - l + i
        BY <2>2
      <4> QED BY <1>1, <2>1, <3>2, <4>1 DEF l
    <3> QED BY <2>2, <3>1, <3>2
  <2>4. ASSUME NEW x \in k + 1 - (l + 1) + 1 .. k + 1 - 1 PROVE ~Gap(rows, x)
    <3>1. x = k \/ x \in k - l + 1 .. k - 1
      BY <2>2
    <3>2. CASE x = k
      <4>1. k > 0
        BY <1>1, <2>2, <3>2 DEF l
      <4> QED BY <1>5, <3>2, <4>1
    <3>3. CASE x \in k - l + 1 .. k - 1
      BY <1>1, <3>3 DEF l
    <3> QED BY <3>1, <3>2, <3>3
  <2>5. l + 1 < k + 1 => Gap(rows, k + 1 - (l + 1))
    <3>1. k + 1 - (l + 1) = k - l
      BY <2>2
    <3>2. l + 1 < k + 1 => l < k
      BY <2>2
    <3> QED BY <1>1, <3>1, <3>2 DEF l
  <2>6. IsBlock(rows, k + 1, longer)
    BY <2>1, <2>2, <2>3, <2>4, <2>5 DEF IsBlock
  <2> QED BY <2>6 DEF longer
<1>6. block # <<>> /\ row.bucket - Last(block).bucket > 1 <=> k > 0 /\ Gap(rows, k)
  BY <1>2, <1>3 DEF Gap
<1> QED BY <1>1, <1>4, <1>5, <1>6

\* The labels that the windows are to have.
LabelsOf(windows) == [i \in DOMAIN windows |-> Last(windows[i]).label]

LEMMA LabelsGrow ==
  ASSUME NEW r \in Seq(Seq(Row)), NEW win \in Seq(Row), NEW label \in Int,
         Last(win).label = label, LabelsOf(r) \in Seq(Int)
  PROVE  LabelsOf(Append(r, win)) = Append(LabelsOf(r), label)
<1> DEFINE m == Len(r)
           a == Append(r, win)
<1>1. /\ m \in Nat /\ DOMAIN r = 1 .. m /\ DOMAIN a = 1 .. m + 1
      /\ a[m + 1] = win /\ \A i \in 1 .. m : a[i] = r[i]
  OBVIOUS
<1> HIDE DEF m, a
<1>2. LabelsOf(r) = [i \in 1 .. m |-> Last(r[i]).label]
  BY <1>1 DEF LabelsOf
<1>3. LabelsOf(a) = [i \in 1 .. m + 1 |-> Last(a[i]).label]
  BY <1>1 DEF LabelsOf
<1>4. Len(LabelsOf(r)) = m
  BY <1>1, <1>2
<1>5. LabelsOf(a) \in Seq(Int) /\ Len(LabelsOf(a)) = m + 1
  <2>1. ASSUME NEW i \in 1 .. m + 1 PROVE Last(a[i]).label \in Int
    <3>1. CASE i = m + 1
      BY <1>1, <3>1
    <3>2. CASE i \in 1 .. m
      <4>1. LabelsOf(r)[i] \in Int /\ LabelsOf(r)[i] = Last(r[i]).label
        BY <1>1, <1>2, <1>4, <3>2
      <4> QED BY <1>1, <3>2, <4>1
    <3> QED BY <1>1, <3>1, <3>2
  <2>2. [i \in 1 .. m + 1 |-> Last(a[i]).label] \in [1 .. m + 1 -> Int]
    BY <2>1
  <2>3. \A f : f \in [1 .. m + 1 -> Int] => f \in Seq(Int) /\ Len(f) = m + 1
    BY <1>1
  <2> QED BY <1>3, <2>2, <2>3
<1>6. LabelsOf(a)[m + 1] = label /\ \A i \in 1 .. m : LabelsOf(a)[i] = LabelsOf(r)[i]
  BY <1>1, <1>2, <1>3
<1>7. LabelsOf(a) = Append(LabelsOf(r), label)
  BY <1>4, <1>5, <1>6, OneMore
<1> QED BY <1>7 DEF a

\* The last window of a block is the run at its end.
LEMMA EndOfBlock ==
  ASSUME NEW rows \in Seq(Row), NEW size \in Nat \ {0}, NEW k \in 1 .. Len(rows),
         NEW block, IsBlock(rows, k, block), Len(block) >= size
  PROVE  /\ SubSeq(block, Len(block) - size + 1, Len(block)) = SubSeq(rows, k - size + 1, k)
         /\ SubSeq(rows, k - size + 1, k) \in Seq(Row)
         /\ Last(SubSeq(rows, k - size + 1, k)) = rows[k]
<1> DEFINE l == Len(block)
           a == SubSeq(block, l - size + 1, l)
           b == SubSeq(rows, k - size + 1, k)
<1>1. /\ block \in Seq(Row) /\ l \in Nat /\ l <= k /\ l >= size
      /\ \A i \in 1 .. l : block[i] = rows[k - l + i]
  BY DEF IsBlock
<1>2. /\ a \in Seq(Row) /\ Len(a) = size
      /\ \A i \in 1 .. size : a[i] = block[l - size + i]
  <2>1. /\ l - size + 1 \in 1 .. l /\ l - (l - size + 1) + 1 = size
        /\ \A i \in 1 .. size : l - size + 1 + i - 1 = l - size + i
    BY <1>1
  <2> HIDE DEF l
  <2> QED BY <1>1, <2>1 DEF l
<1>3. /\ b \in Seq(Row) /\ Len(b) = size
      /\ \A i \in 1 .. size : b[i] = rows[k - size + i]
  <2>1. /\ k - size + 1 \in 1 .. k /\ k - (k - size + 1) + 1 = size
        /\ \A i \in 1 .. size : k - size + 1 + i - 1 = k - size + i
    BY <1>1
  <2> QED BY <1>1, <2>1
<1> HIDE DEF a, b
<1>4. ASSUME NEW i \in 1 .. size PROVE a[i] = b[i]
  <2>1. l - size + i \in 1 .. l /\ k - l + (l - size + i) = k - size + i
    BY <1>1
  <2> QED BY <1>1, <1>2, <1>3, <2>1
<1>5. a = b
  BY <1>2, <1>3, <1>4, SameSequence
<1>6. Last(b) = rows[k]
  <2>1. size \in 1 .. size /\ k - size + size = k
    OBVIOUS
  <2> QED BY <1>3, <2>1 DEF Last
<1> QED BY <1>3, <1>5, <1>6 DEF a, b

\* After k rows: what was cut, with the current block cut too, are the runs so far.
Cutting(rows, size, k, w, m, r) ==
  /\ IsBlock(rows, k, w.block) /\ m.block = w.block
  /\ w.out \in Seq(Seq(Row)) /\ m.out \in Seq(Int) /\ r \in Seq(Seq(Row))
  /\ w.out \o Cut(w.block, size) = r
  /\ m.out \o CutLabels(w.block, size) = LabelsOf(r)
  /\ \A j \in 1 .. Len(r) : \E i \in 1 .. k : EndsRun(rows, size, i)
                                              /\ r[j] = SubSeq(rows, i - size + 1, i)

\* Before the first row nothing is cut.
LEMMA CuttingStarts ==
  ASSUME NEW rows \in Seq(Row), NEW size \in Nat \ {0}
  PROVE  /\ Cut(<<>>, size) = <<>> /\ CutLabels(<<>>, size) = <<>>
         /\ Cutting(rows, size, 0, NoRows, NoRows, <<>>)
<1>1. <<>> \in Seq(Row) /\ Len(<<>>) = 0 /\ <<>> \in Seq(Seq(Row)) /\ <<>> \in Seq(Int)
  OBVIOUS
<1>2. /\ Cut(<<>>, size) \in Seq(Seq(Row)) /\ Len(Cut(<<>>, size)) = 0
      /\ CutLabels(<<>>, size) \in Seq(Int) /\ Len(CutLabels(<<>>, size)) = 0
  <2>1. WindowsIn(<<>>, size) = 0
    BY <1>1 DEF WindowsIn
  <2>2. IsCut(<<>>, size, WindowsIn(<<>>, size))
    BY <1>1, CutIs
  <2> QED BY <2>1, <2>2, Zenon DEF IsCut
<1>3. Cut(<<>>, size) = <<>> /\ CutLabels(<<>>, size) = <<>>
  BY <1>2
<1>4. IsBlock(rows, 0, <<>>)
  BY <1>1 DEF IsBlock
<1>5. LabelsOf(<<>>) = <<>>
  BY DEF LabelsOf
<1>6. NoRows.out = <<>> /\ NoRows.block = <<>>
  BY DEF NoRows
<1>7. <<>> \o <<>> = <<>>
  OBVIOUS
<1> QED BY <1>1, <1>3, <1>4, <1>5, <1>6, <1>7 DEF Cutting

\* A row keeps what was cut so far equal to the runs so far, with their labels.
LEMMA CuttingStep ==
  ASSUME NEW rows \in Table, NEW size \in Nat \ {0}, NEW k \in 0 .. Len(rows) - 1,
         NEW w, NEW m, NEW r, Cutting(rows, size, k, w, m, r)
  PROVE  Cutting(rows, size, k + 1,
                 AddRow(w, rows[k + 1], Cut(w.block, size)),
                 AddRow(m, rows[k + 1], CutLabels(m.block, size)),
                 AddRun(r, rows, size, k + 1))
<1> DEFINE row == rows[k + 1]
           gap == k > 0 /\ Gap(rows, k)
           block == IF gap THEN <<>> ELSE w.block
           outW == IF gap THEN r ELSE w.out
           outM == IF gap THEN LabelsOf(r) ELSE m.out
           longer == Append(block, row)
           K == k + 1
           win == SubSeq(rows, K - size + 1, K)
<1>1. /\ rows \in Seq(Row) /\ k + 1 \in 1 .. Len(rows)
      /\ IsBlock(rows, k, w.block) /\ m.block = w.block /\ w.block \in Seq(Row)
      /\ w.out \in Seq(Seq(Row)) /\ m.out \in Seq(Int) /\ r \in Seq(Seq(Row))
      /\ w.out \o Cut(w.block, size) = r
      /\ m.out \o CutLabels(w.block, size) = LabelsOf(r)
  <2>1. rows \in Seq(Row) /\ k + 1 \in 1 .. Len(rows)
    BY DEF Table
  <2>2. /\ IsBlock(rows, k, w.block) /\ m.block = w.block
        /\ w.out \in Seq(Seq(Row)) /\ m.out \in Seq(Int) /\ r \in Seq(Seq(Row))
        /\ w.out \o Cut(w.block, size) = r
        /\ m.out \o CutLabels(w.block, size) = LabelsOf(r)
    BY Zenon DEF Cutting
  <2>3. w.block \in Seq(Row)
    BY <2>2, Zenon DEF IsBlock
  <2> QED BY <2>1, <2>2, <2>3
<1>2. /\ row \in Row
      /\ w.block # <<>> /\ row.bucket - Last(w.block).bucket > 1 <=> gap
      /\ gap => IsBlock(rows, k + 1, <<row>>)
      /\ ~gap => IsBlock(rows, k + 1, Append(w.block, row))
  BY <1>1, BlockGrows
<1>3. LabelsOf(r) \in Seq(Int)
  <2>1. CutLabels(w.block, size) \in Seq(Int)
    BY <1>1, CutsAreSequences
  <2>2. m.out \o CutLabels(w.block, size) \in Seq(Int)
    BY <1>1, <2>1, ConcatIs, Zenon
  <2> QED BY <1>1, <2>2, Zenon
<1> HIDE DEF row, gap
<1>4. /\ block \in Seq(Row) /\ outW \in Seq(Seq(Row)) /\ outM \in Seq(Int)
      /\ outW \o Cut(block, size) = r /\ outM \o CutLabels(block, size) = LabelsOf(r)
      /\ IsBlock(rows, k + 1, longer)
  <2>1. CASE gap
    <3>1. Cut(<<>>, size) = <<>> /\ CutLabels(<<>>, size) = <<>>
      BY <1>1, CuttingStarts
    <3>2. r \o <<>> = r /\ LabelsOf(r) \o <<>> = LabelsOf(r) /\ <<>> \in Seq(Row)
          /\ Append(<<>>, row) = <<row>>
      BY <1>1, <1>3
    <3> QED BY <1>1, <1>2, <1>3, <2>1, <3>1, <3>2
  <2>2. CASE ~gap
    BY <1>1, <1>2, <2>2
  <2> QED BY <2>1, <2>2
<1>5. /\ AddRow(w, row, Cut(w.block, size)).out = outW
      /\ AddRow(w, row, Cut(w.block, size)).block = longer
      /\ AddRow(m, row, CutLabels(m.block, size)).out = outM
      /\ AddRow(m, row, CutLabels(m.block, size)).block = longer
  <2>1. CASE gap
    BY <1>1, <1>2, <2>1 DEF AddRow
  <2>2. CASE ~gap
    BY <1>1, <1>2, <2>2 DEF AddRow
  <2> QED BY <2>1, <2>2
<1>6. /\ longer \in Seq(Row) /\ Len(longer) = Len(block) + 1 /\ longer[Len(longer)] = row
      /\ \A i \in 1 .. Len(block) : longer[i] = block[i]
  BY <1>2, <1>4
<1> HIDE DEF block, outW, outM, longer
<1>7. EndsRun(rows, size, k + 1) <=> Len(longer) >= size
  BY <1>1, <1>4, LongBlocksEndRuns
<1>8. \A j \in 1 .. Len(r) : \E i \in 1 .. k + 1 : EndsRun(rows, size, i)
                                              /\ r[j] = SubSeq(rows, i - size + 1, i)
  <2>1. \A i \in 1 .. k : i \in 1 .. k + 1
    OBVIOUS
  <2> QED BY <2>1 DEF Cutting
<1>9. CASE Len(longer) >= size
  <2>1. /\ Cut(longer, size)
             = Append(Cut(block, size), SubSeq(longer, Len(longer) - size + 1, Len(longer)))
        /\ CutLabels(longer, size) = Append(CutLabels(block, size), row.label)
    BY <1>2, <1>4, <1>6, <1>9, CutGrows
  <2>2. /\ SubSeq(longer, Len(longer) - size + 1, Len(longer)) = win
        /\ win \in Seq(Row) /\ Last(win) = row
    <3>1. K \in 1 .. Len(rows) /\ rows \in Seq(Row) /\ IsBlock(rows, K, longer)
          /\ rows[K] = row
      BY <1>1, <1>4 DEF row
    <3> HIDE DEF K
    <3> QED BY <1>9, <3>1, EndOfBlock
  <2> HIDE DEF win
  <2> DEFINE r2 == Append(r, win)
  <2>3. AddRun(r, rows, size, k + 1) = r2
    BY <1>7, <1>9 DEF AddRun, win
  <2>4. /\ r2 \in Seq(Seq(Row)) /\ Len(r2) = Len(r) + 1 /\ r2[Len(r) + 1] = win
        /\ \A j \in 1 .. Len(r) : r2[j] = r[j]
    <3>1. r \in Seq(Seq(Row)) /\ win \in Seq(Row)
      BY <1>1, <2>2
    <3> QED BY <3>1, AppendIs
  <2>5. outW \o Cut(longer, size) = r2
    <3>1. Cut(block, size) \in Seq(Seq(Row))
      BY <1>4, CutsAreSequences
    <3>2. outW \o Append(Cut(block, size), win) = Append(outW \o Cut(block, size), win)
      <4>1. outW \in Seq(Seq(Row)) /\ win \in Seq(Row)
        BY <1>4, <2>2
      <4> QED BY <3>1, <4>1, ConcatAppend
    <3> QED BY <1>4, <2>1, <2>2, <3>2
  <2>6. outM \o CutLabels(longer, size) = LabelsOf(r2)
    <3>1. CutLabels(block, size) \in Seq(Int) /\ row.label \in Int
      BY <1>2, <1>4, CutsAreSequences DEF Row
    <3>2. outM \o Append(CutLabels(block, size), row.label)
            = Append(outM \o CutLabels(block, size), row.label)
      <4> DEFINE c == CutLabels(block, size)  x == row.label
      <4>1. outM \in Seq(Int) /\ c \in Seq(Int) /\ x \in Int
        BY <1>4, <3>1
      <4> HIDE DEF c, x
      <4>2. outM \o Append(c, x) = Append(outM \o c, x)
        BY <4>1, ConcatLabel
      <4> QED BY <4>2 DEF c, x
    <3>3. LabelsOf(r2) = Append(LabelsOf(r), row.label)
      BY <1>1, <1>3, <2>2, <3>1, LabelsGrow
    <3> QED BY <1>4, <2>1, <3>2, <3>3
  <2> HIDE DEF r2
  <2>7. ASSUME NEW j \in 1 .. Len(r2)
        PROVE  \E i \in 1 .. k + 1 : EndsRun(rows, size, i)
                                     /\ r2[j] = SubSeq(rows, i - size + 1, i)
    <3>1. CASE j = Len(r) + 1
      <4>1. k + 1 \in 1 .. k + 1 /\ EndsRun(rows, size, k + 1)
        BY <1>7, <1>9
      <4> QED BY <2>4, <3>1, <4>1 DEF win
    <3>2. CASE j \in 1 .. Len(r)
      <4>1. r2[j] = r[j]
        BY <2>4, <3>2
      <4> QED BY <1>8, <3>2, <4>1
    <3>3. Len(r) \in Nat
      BY <1>1
    <3>4. j = Len(r) + 1 \/ j \in 1 .. Len(r)
      <4>1. Len(r2) = Len(r) + 1
        BY <2>4
      <4> QED BY <3>3, <4>1
    <3> QED BY <3>1, <3>2, <3>4
  <2> QED BY <1>4, <1>5, <2>3, <2>4, <2>5, <2>6, <2>7 DEF Cutting, row
<1>10. CASE Len(longer) < size
  <2>1. /\ Cut(longer, size) = Cut(block, size)
        /\ CutLabels(longer, size) = CutLabels(block, size)
    BY <1>2, <1>4, <1>6, <1>10, CutGrows
  <2>2. AddRun(r, rows, size, k + 1) = r
    <3>1. ~(Len(longer) >= size)
      BY <1>6, <1>10
    <3> QED BY <1>7, <3>1 DEF AddRun
  <2> QED BY <1>1, <1>4, <1>5, <1>8, <2>1, <2>2 DEF Cutting, row
<1> QED
  <2>1. Len(longer) \in Nat
    BY <1>6
  <2> QED BY <1>9, <1>10, <2>1

\* Training cuts the runs, and labels each with its last row's label.
LEMMA WindowsAreRuns ==
  ASSUME NEW rows \in Table, NEW size \in Nat \ {0}
  PROVE  /\ slice_continuous_windows(rows, size) = Runs(rows, size)
         /\ align_labels_to_sequences(rows, size) = LabelsOf(Runs(rows, size))
         /\ Runs(rows, size) \in Seq(Seq(Row))
         /\ \A j \in 1 .. Len(Runs(rows, size)) : \E i \in 1 .. Len(rows) :
              EndsRun(rows, size, i) /\ Runs(rows, size)[j] = SubSeq(rows, i - size + 1, i)
         /\ Len(rows) > 0 /\ EndsRun(rows, size, Len(rows)) =>
              \E j \in 1 .. Len(Runs(rows, size)) :
                Runs(rows, size)[j] = SubSeq(rows, Len(rows) - size + 1, Len(rows))
<1> DEFINE N == Len(rows)
<1>1. rows \in Seq(Row) /\ N \in Nat
  BY DEF Table
<1>2. PICK w : /\ Through(w, N, [out : Seq(Seq(Row)), block : Seq(Row)], NoRows)
               /\ \A k \in 0 .. N - 1 :
                    w[k + 1] = AddRow(w[k], rows[k + 1], Cut(w[k].block, size))
               /\ w[N].out \o Cut(w[N].block, size) = slice_continuous_windows(rows, size)
  BY <1>1, SlicesAreFolded
<1>3. PICK m : /\ Through(m, N, [out : Seq(Int), block : Seq(Row)], NoRows)
               /\ \A k \in 0 .. N - 1 :
                    m[k + 1] = AddRow(m[k], rows[k + 1], CutLabels(m[k].block, size))
               /\ m[N].out \o CutLabels(m[N].block, size) = align_labels_to_sequences(rows, size)
  BY <1>1, LabelsAreFolded
<1>4. PICK r : /\ Through(r, N, Seq(Seq(Row)), <<>>)
               /\ \A k \in 0 .. N - 1 : r[k + 1] = AddRun(r[k], rows, size, k + 1)
               /\ r[N] = Runs(rows, size)
  BY <1>1, RunsAreFolded
<1> DEFINE S == {k \in 0 .. N : Cutting(rows, size, k, w[k], m[k], r[k])}
<1>5. 0 \in S
  BY <1>1, <1>2, <1>3, <1>4, CuttingStarts DEF Through
<1>6. ASSUME NEW k \in 0 .. N - 1, k \in S PROVE k + 1 \in S
  <2>1. Cutting(rows, size, k, w[k], m[k], r[k])
    BY <1>6
  <2>2. Cutting(rows, size, k + 1, w[k + 1], m[k + 1], r[k + 1])
    BY <1>2, <1>3, <1>4, <2>1, CuttingStep
  <2>3. k + 1 \in 0 .. N
    BY <1>1
  <2> QED BY <2>2, <2>3
<1>7. Cutting(rows, size, N, w[N], m[N], r[N])
  <2>1. \A k \in 0 .. N : k \in S
    <3> HIDE DEF S, N
    <3> QED BY <1>1, <1>5, <1>6, UpTo
  <2>2. N \in 0 .. N
    BY <1>1
  <2>3. N \in S
    BY <2>1, <2>2
  <2> QED BY <2>3
<1>8. /\ slice_continuous_windows(rows, size) = r[N]
      /\ align_labels_to_sequences(rows, size) = LabelsOf(r[N])
      /\ r[N] \in Seq(Seq(Row))
      /\ \A j \in 1 .. Len(r[N]) : \E i \in 1 .. N :
           EndsRun(rows, size, i) /\ r[N][j] = SubSeq(rows, i - size + 1, i)
  <2> HIDE DEF N
  <2> QED BY <1>2, <1>3, <1>7 DEF Cutting
<1>9. ASSUME N > 0, EndsRun(rows, size, N)
      PROVE  \E j \in 1 .. Len(r[N]) : r[N][j] = SubSeq(rows, N - size + 1, N)
  <2> DEFINE win == SubSeq(rows, N - size + 1, N)
  <2>1. N - 1 \in 0 .. N - 1 /\ N - 1 + 1 = N /\ N - 1 \in 0 .. N
    BY <1>1, <1>9
  <2> HIDE DEF N
  <2>2. r[N] = AddRun(r[N - 1], rows, size, N) /\ r[N - 1] \in Seq(Seq(Row))
    BY <1>4, <2>1 DEF Through
  <2>3. r[N] = Append(r[N - 1], win)
    BY <1>9, <2>2 DEF AddRun
  <2>4. win \in Seq(Row)
    <3>1. N >= size
      BY <1>9 DEF EndsRun
    <3>2. N - size + 1 \in Int /\ N \in Int /\ \A x \in N - size + 1 .. N : x \in 1 .. N
      BY <1>1, <3>1
    <3>3. \A x \in N - size + 1 .. N : rows[x] \in Row
      BY <1>1, <3>2 DEF N
    <3> QED BY <3>2, <3>3
  <2> HIDE DEF win
  <2>5. Len(r[N]) = Len(r[N - 1]) + 1 /\ r[N][Len(r[N - 1]) + 1] = win
    BY <2>2, <2>3, <2>4, AppendIs
  <2>6. Len(r[N - 1]) + 1 \in 1 .. Len(r[N - 1]) + 1
    BY <2>2
  <2> QED BY <2>5, <2>6 DEF win
<1> QED BY <1>4, <1>8, <1>9

\* The engine's window is the run at the end of the table.
LEMMA LatestIs ==
  ASSUME NEW rows \in Table, NEW size \in Nat \ {0}
  PROVE  IF Len(rows) > 0 /\ EndsRun(rows, size, Len(rows))
           THEN /\ LatestWindow(rows, size) = SubSeq(rows, Len(rows) - size + 1, Len(rows))
                /\ LatestWindow(rows, size) # <<>>
           ELSE LatestWindow(rows, size) = <<>>
<1> DEFINE N == Len(rows)
           tail == SubSeq(rows, N - size + 1, N)
<1>1. rows \in Seq(Row) /\ N \in Nat
  BY DEF Table
<1>2. CASE N < size
  <2>1. ~EndsRun(rows, size, N)
    BY <1>1, <1>2 DEF EndsRun
  <2> QED BY <1>2, <2>1 DEF LatestWindow
<1>3. CASE N >= size
  <2>1. N \in 1 .. N /\ N > 0 /\ ~(N < size)
    BY <1>1, <1>3
  <2>2. EndsRun(rows, size, N) <=> \A x \in N - size + 1 .. N - 1 : ~Gap(rows, x)
    BY <1>3, <2>1, EndsRunIs
  <2>3. tail # <<>> /\ \A i \in 1 .. size : tail[i] = rows[N - size + i]
    <3>1. /\ N - size + 1 \in 1 .. N /\ N - (N - size + 1) + 1 = size
          /\ \A i \in 1 .. size : N - size + 1 + i - 1 = N - size + i
      BY <1>1, <1>3
    <3>2. Len(tail) = size /\ \A i \in 1 .. size : tail[i] = rows[N - size + i]
      BY <1>1, <3>1
    <3> HIDE DEF tail
    <3> QED BY <3>2
  <2>4. (\E i \in 1 .. size - 1 : tail[i + 1].bucket - tail[i].bucket > 1)
          <=> (\E x \in N - size + 1 .. N - 1 : Gap(rows, x))
    <3> HIDE DEF tail
    <3>1. ASSUME NEW i \in 1 .. size - 1
          PROVE  /\ N - size + i \in N - size + 1 .. N - 1
                 /\ tail[i + 1].bucket - tail[i].bucket > 1 <=> Gap(rows, N - size + i)
      <4>1. i \in 1 .. size /\ i + 1 \in 1 .. size /\ N - size + (i + 1) = N - size + i + 1
            /\ N - size + i \in N - size + 1 .. N - 1
        BY <1>1
      <4>2. tail[i] = rows[N - size + i] /\ tail[i + 1] = rows[N - size + i + 1]
        BY <2>3, <4>1
      <4> QED BY <4>1, <4>2 DEF Gap
    <3>2. ASSUME NEW x \in N - size + 1 .. N - 1
          PROVE  \E i \in 1 .. size - 1 : x = N - size + i
      <4>1. x - N + size \in 1 .. size - 1 /\ x = N - size + (x - N + size)
        BY <1>1
      <4> QED BY <4>1
    <3> QED BY <3>1, <3>2
  <2> QED BY <2>1, <2>2, <2>3, <2>4 DEF LatestWindow
<1> QED BY <1>1, <1>2, <1>3

\* What the agreement of the windows comes to, for one table.
LEMMA WindowsOfTableAgree ==
  ASSUME NEW rows \in Table, NEW size \in Nat \ {0},
         NEW windows, windows = slice_continuous_windows(rows, size),
         NEW labels, labels = align_labels_to_sequences(rows, size),
         NEW latest, latest = LatestWindow(rows, size),
         NEW atEnd, atEnd = {i \in DOMAIN windows : Last(windows[i]) = Last(rows)}
  PROVE  /\ windows = Runs(rows, size)
         /\ labels = [i \in DOMAIN windows |-> Last(windows[i]).label]
         /\ IF latest = <<>> THEN atEnd = {} ELSE \E i \in atEnd : windows[i] = latest
<1> DEFINE N == Len(rows)
<1>1. /\ windows = Runs(rows, size) /\ labels = LabelsOf(windows)
      /\ windows \in Seq(Seq(Row)) /\ DOMAIN windows = 1 .. Len(windows)
      /\ rows \in Seq(Row) /\ N \in Nat
  <2>1. windows = Runs(rows, size) /\ labels = LabelsOf(windows) /\ windows \in Seq(Seq(Row))
    BY WindowsAreRuns
  <2> QED BY <2>1 DEF Table
<1>2. ASSUME NEW i \in 1 .. N, EndsRun(rows, size, i)
      PROVE  Last(SubSeq(rows, i - size + 1, i)) = rows[i]
  <2> DEFINE win == SubSeq(rows, i - size + 1, i)
  <2>1. i >= size
    BY <1>2 DEF EndsRun
  <2>2. i - size + 1 \in 1 .. N /\ i - (i - size + 1) + 1 = size
        /\ i - size + 1 + size - 1 = i
    BY <1>1, <2>1
  <2>3. Len(win) = size /\ win[size] = rows[i]
    BY <1>1, <2>2
  <2> HIDE DEF win
  <2>4. Last(win) = rows[i]
    BY <2>3 DEF Last
  <2> QED BY <2>4 DEF win
<1>3. CASE N > 0 /\ EndsRun(rows, size, N)
  <2>1. latest # <<>> /\ latest = SubSeq(rows, N - size + 1, N)
    BY <1>3, LatestIs
  <2>2. PICK j \in 1 .. Len(windows) : windows[j] = latest
    BY <1>1, <1>3, <2>1, WindowsAreRuns
  <2>3. Last(latest) = Last(rows)
    <3>1. N \in 1 .. N /\ Last(rows) = rows[N]
      BY <1>1, <1>3 DEF Last
    <3> QED BY <1>2, <1>3, <2>1, <3>1
  <2>4. j \in atEnd
    BY <1>1, <2>2, <2>3
  <2> QED BY <1>1, <2>1, <2>2, <2>4 DEF LabelsOf
<1>4. CASE ~(N > 0 /\ EndsRun(rows, size, N))
  <2>1. latest = <<>>
    BY <1>4, LatestIs
  <2>2. ASSUME NEW j \in atEnd PROVE FALSE
    <3>1. j \in 1 .. Len(windows) /\ Last(windows[j]) = Last(rows)
      BY <1>1
    <3>2. PICK i \in 1 .. N : EndsRun(rows, size, i) /\ windows[j] = SubSeq(rows, i - size + 1, i)
      <4>1. \A l \in 1 .. Len(windows) : \E i \in 1 .. N :
              EndsRun(rows, size, i) /\ windows[l] = SubSeq(rows, i - size + 1, i)
        <5>1. \A l \in 1 .. Len(Runs(rows, size)) : \E i \in 1 .. N :
                EndsRun(rows, size, i) /\ Runs(rows, size)[l] = SubSeq(rows, i - size + 1, i)
          BY WindowsAreRuns
        <5>2. windows = Runs(rows, size)
          BY <1>1
        <5> HIDE DEF N
        <5> QED BY <5>1, <5>2, Zenon
      <4> QED BY <3>1, <4>1
    <3>3. N > 0 /\ i < N /\ Last(rows) = rows[N] /\ N \in i .. N
      BY <1>1, <1>4, <3>2 DEF Last
    <3>4. rows[i] = rows[N]
      BY <1>2, <3>1, <3>2, <3>3
    <3> DEFINE b == [x \in 1 .. N |-> rows[x].bucket]
    <3>5. b \in [1 .. N -> Int] /\ (\A x \in 1 .. N - 1 : b[x] < b[x + 1]) /\ b[i] = b[N]
      <4>1. ASSUME NEW x \in 1 .. N PROVE rows[x].bucket \in Int
        <5>1. rows[x] \in Row
          BY <1>1
        <5> QED BY <5>1 DEF Row
      <4>2. N \in 1 .. N
        BY <1>1, <3>3
      <4>3. \A x \in 1 .. N - 1 : x \in 1 .. N /\ x + 1 \in 1 .. N
                                  /\ rows[x].bucket < rows[x + 1].bucket
        BY <1>1 DEF Table
      <4> QED BY <3>4, <4>1, <4>2, <4>3
    <3> HIDE DEF b, N
    <3>6. b[N] - b[i] >= N - i
      BY <1>1, <3>3, <3>5, RisingSpread
    <3>7. N - i \in Int /\ N - i > 0 /\ b[N] - b[i] = 0
      BY <1>1, <3>3, <3>5
    <3> QED BY <3>6, <3>7
  <2> QED BY <1>1, <2>1, <2>2 DEF LabelsOf
<1> QED BY <1>3, <1>4

-----------------------------------------------------------------------------
(* The flows of one bucket.                                                 *)

\* A sum of numbers that are no less is no less.
LEMMA SumIsMonotone ==
  ASSUME NEW s \in Seq(Int), NEW t \in Seq(Int), Len(s) = Len(t),
         \A i \in 1 .. Len(s) : s[i] <= t[i]
  PROVE  SumOf(s) <= SumOf(t)
<1> DEFINE n == Len(s)
<1>1. n \in Nat /\ n = Len(t) /\ n \in 0 .. n
  OBVIOUS
<1>2. PICK f : /\ Through(f, n, Int, 0) /\ f[n] = SumOf(s)
               /\ \A k \in 0 .. n - 1 : f[k + 1] = f[k] + s[k + 1]
  BY SumIsFolded
<1>3. PICK g : /\ Through(g, n, Int, 0) /\ g[n] = SumOf(t)
               /\ \A k \in 0 .. n - 1 : g[k + 1] = g[k] + t[k + 1]
  <2>1. \E g : /\ Through(g, Len(t), Int, 0)
               /\ \A k \in 0 .. Len(t) - 1 : g[k + 1] = g[k] + t[k + 1]
               /\ g[Len(t)] = SumOf(t)
    BY SumIsFolded
  <2> QED BY <1>1, <2>1
<1> DEFINE S == {k \in 0 .. n : f[k] <= g[k]}
<1>4. 0 \in S
  BY <1>1, <1>2, <1>3 DEF Through
<1>5. ASSUME NEW k \in 0 .. n - 1, k \in S PROVE k + 1 \in S
  <2>1. k \in 0 .. n /\ k + 1 \in 0 .. n /\ k + 1 \in 1 .. n /\ f[k] <= g[k]
    BY <1>1, <1>5
  <2>2. f[k] \in Int /\ g[k] \in Int /\ s[k + 1] \in Int /\ t[k + 1] \in Int
        /\ s[k + 1] <= t[k + 1]
    <3>1. f[k] \in Int /\ g[k] \in Int
      BY <1>2, <1>3, <2>1 DEF Through
    <3>2. s[k + 1] \in Int /\ t[k + 1] \in Int /\ s[k + 1] <= t[k + 1]
      BY <1>1, <2>1
    <3> QED BY <3>1, <3>2
  <2>3. f[k + 1] = f[k] + s[k + 1] /\ g[k + 1] = g[k] + t[k + 1]
    BY <1>2, <1>3
  <2>4. f[k] + s[k + 1] <= g[k] + t[k + 1]
    BY <2>1, <2>2
  <2> QED BY <2>1, <2>3, <2>4
<1>6. n \in S
  <2> HIDE DEF S, n
  <2>1. \A k \in 0 .. n : k \in S
    BY <1>1, <1>4, <1>5, UpTo
  <2> QED BY <1>1, <2>1
<1> QED BY <1>2, <1>3, <1>6

\* More transfers never have less value.
LEMMA TotalIsMonotone ==
  ASSUME NEW xs \in Seq(Transfer), NEW a, NEW b, a \subseteq b
  PROVE  Total(xs, a) <= Total(xs, b)
<1> DEFINE s == [i \in DOMAIN xs |-> IF i \in a THEN xs[i].usd ELSE 0]
           t == [i \in DOMAIN xs |-> IF i \in b THEN xs[i].usd ELSE 0]
<1>1. \A i \in 1 .. Len(xs) : xs[i].usd \in Nat
  <2>1. \A i \in 1 .. Len(xs) : xs[i] \in Transfer
    OBVIOUS
  <2> QED BY <2>1 DEF Transfer
<1>2. s \in Seq(Int) /\ t \in Seq(Int) /\ Len(s) = Len(xs) /\ Len(t) = Len(xs)
  <2>1. Len(xs) \in Nat /\ DOMAIN xs = 1 .. Len(xs)
    OBVIOUS
  <2>2. s \in [1 .. Len(xs) -> Int] /\ t \in [1 .. Len(xs) -> Int]
    BY <1>1, <2>1
  <2> HIDE DEF s, t
  <2> QED BY <2>1, <2>2
<1>3. \A i \in 1 .. Len(xs) : s[i] <= t[i]
  BY <1>1
<1> HIDE DEF s, t
<1>4. SumOf(s) <= SumOf(t)
  BY <1>2, <1>3, SumIsMonotone
<1> QED BY <1>4 DEF s, t, Total

\* The positions of the transfers that a row is to count.
Crossing(xs, symbol, direction) ==
  {i \in Matching(xs, direction) : /\ ~Other(xs[i], direction).cex
                                  /\ Resolve(xs[i]) = symbol
                                  /\ xs[i].at = "target"}

\* What is counted for a direction crossed in the bucket; all of it is counted
\* when the answer is complete and its times are readable.
LEMMA SideIsPart ==
  ASSUME NEW network, network # "solana", NEW symbol, NEW xs \in Seq(Transfer),
         NEW answered, NEW direction \in Directions
  PROVE  /\ Side(network, symbol, direction, xs, answered)
              \subseteq Crossing(xs, symbol, direction)
         /\ direction \in answered /\ Cardinality(Matching(xs, direction)) <= FlowLimit
              /\ (\A i \in Matching(xs, direction) : xs[i].timed)
            => Side(network, symbol, direction, xs, answered)
                 = Crossing(xs, symbol, direction)
<1> DEFINE found == Matching(xs, direction)
<1>1. found \subseteq 1 .. Len(xs) /\ Len(xs) \in Nat
  BY DEF Matching
<1>2. ASSUME NEW i \in found
      PROVE  /\ Counts(network, symbol, direction, xs[i]) => i \in Crossing(xs, symbol, direction)
             /\ xs[i].timed /\ i \in Crossing(xs, symbol, direction)
                  => Counts(network, symbol, direction, xs[i])
  <2>1. xs[i].usd \in Nat /\ MinUsd \in Nat
    <3>1. xs[i] \in Transfer
      BY <1>1
    <3> QED BY <3>1, FlowAssumption DEF Transfer
  <2>2. InCexSet(network, Other(xs[i], direction)) <=> Other(xs[i], direction).cex
    BY DEF InCexSet
  <2>3. xs[i].usd >= MinUsd
    BY <2>1 DEF Matching, Matches
  <2> QED BY <2>2, <2>3 DEF Counts, Crossing, BucketOf
<1>3. ASSUME Cardinality(found) <= FlowLimit PROVE Answer(xs, direction) = found
  <2>1. IsFiniteSet(found)
    <3>1. IsFiniteSet(1 .. Len(xs)) /\ found \in SUBSET (1 .. Len(xs))
      BY <1>1, FS_Interval
    <3> HIDE DEF found
    <3> QED BY <3>1, FS_Subset
  <2>2. ASSUME NEW i \in found PROVE Cardinality({j \in found : j <= i}) <= FlowLimit
    <3> DEFINE some == {j \in found : j <= i}
    <3>1. some \subseteq found
      OBVIOUS
    <3> HIDE DEF some, found
    <3>2. IsFiniteSet(some) /\ Cardinality(some) <= Cardinality(found)
      BY <2>1, <3>1, FS_Subset
    <3>3. Cardinality(some) \in Nat /\ Cardinality(found) \in Nat
      BY <2>1, <3>2, FS_CardinalityType
    <3>4. Cardinality(some) <= FlowLimit
      BY <1>3, <3>2, <3>3, FlowAssumption
    <3> QED BY <3>4 DEF some
  <2> QED BY <2>2 DEF Answer
<1>4. Answer(xs, direction) \subseteq found
  BY DEF Answer
<1>5. Side(network, symbol, direction, xs, answered) \subseteq Crossing(xs, symbol, direction)
  BY <1>2, <1>4 DEF Side
<1>6. ASSUME direction \in answered, Cardinality(found) <= FlowLimit, \A i \in found : xs[i].timed
      PROVE  Crossing(xs, symbol, direction) \subseteq Side(network, symbol, direction, xs, answered)
  <2>1. Crossing(xs, symbol, direction) \subseteq found
    BY DEF Crossing
  <2> HIDE DEF found
  <2> QED BY <1>2, <1>3, <1>6, <2>1 DEF Side
<1> QED BY <1>5, <1>6

\* A side of a row against the transfers that crossed.
LEMMA FlowIsExact ==
  ASSUME NEW network, network # "solana", NEW symbol, NEW xs \in Seq(Transfer),
         NEW answered, NEW direction \in Directions,
         NEW row, row = FlowRow(network, symbol, xs, answered),
         NEW stored, stored = IF direction = "inflow" THEN row.inflow ELSE row.outflow
  PROVE  /\ stored <= Flow(symbol, xs, direction)
         /\ direction \in answered /\ Cardinality(Matching(xs, direction)) <= FlowLimit
              /\ (\A i \in Matching(xs, direction) : xs[i].timed)
            => stored = Flow(symbol, xs, direction)
<1>1. stored = Total(xs, Side(network, symbol, direction, xs, answered))
  BY DEF FlowRow, Directions
<1>2. Flow(symbol, xs, direction) = Total(xs, Crossing(xs, symbol, direction))
  BY DEF Flow, Crossing
<1> QED BY <1>1, <1>2, SideIsPart, TotalIsMonotone

-----------------------------------------------------------------------------
(* The calibrated threshold.                                                *)

\* One of finitely many numbers is the greatest.
LEMMA GreatestValue ==
  ASSUME NEW n \in Nat, NEW f \in [0 .. n -> Int]
  PROVE  \E k \in 0 .. n : \A j \in 0 .. n : f[j] <= f[k]
<1> DEFINE P(m) == \E k \in 0 .. m : \A j \in 0 .. m : f[j] <= f[k]
           S == {m \in 0 .. n : P(m)}
<1>1. 0 \in S
  OBVIOUS
<1>2. ASSUME NEW m \in 0 .. n - 1, m \in S PROVE m + 1 \in S
  <2>1. PICK k \in 0 .. m : \A j \in 0 .. m : f[j] <= f[k]
    BY <1>2
  <2>2. m + 1 \in 0 .. n /\ m + 1 \in 0 .. m + 1 /\ k \in 0 .. m + 1 /\ k \in 0 .. n
        /\ \A j \in 0 .. m + 1 : j \in 0 .. m \/ j = m + 1
    OBVIOUS
  <2>3. f[m + 1] \in Int /\ f[k] \in Int /\ \A j \in 0 .. m : f[j] \in Int
    BY <2>2
  <2>4. CASE f[m + 1] <= f[k]
    <3>1. \A j \in 0 .. m + 1 : f[j] <= f[k]
      BY <2>1, <2>2, <2>4
    <3> QED BY <2>2, <3>1
  <2>5. CASE f[k] <= f[m + 1]
    <3>1. \A j \in 0 .. m : f[j] <= f[m + 1]
      BY <2>1, <2>3, <2>5
    <3>2. f[m + 1] <= f[m + 1]
      BY <2>3
    <3>3. \A j \in 0 .. m + 1 : f[j] <= f[m + 1]
      BY <2>2, <3>1, <3>2
    <3> QED BY <2>2, <3>3
  <2> QED BY <2>3, <2>4, <2>5
<1>3. n \in S
  <2> HIDE DEF S
  <2>1. \A m \in 0 .. n : m \in S
    BY <1>1, <1>2, UpTo
  <2> QED BY <2>1
<1> QED BY <1>3

\* Min is a member, and the least one.
LEMMA MinIsIn ==
  ASSUME NEW n \in Nat, NEW s \in SUBSET (0 .. n), s # {}
  PROVE  Min(s) \in s /\ \A y \in s : Min(s) <= y
<1>1. PICK z : z \in s
  OBVIOUS
<1> DEFINE f == [x \in 0 .. n |-> IF x \in s THEN -x ELSE -n - 1]
<1>2. f \in [0 .. n -> Int]
  OBVIOUS
<1>3. PICK k \in 0 .. n : \A j \in 0 .. n : f[j] <= f[k]
  <2> HIDE DEF f
  <2> QED BY <1>2, GreatestValue
<1>4. k \in s
  <2>1. f[z] = -z /\ f[z] <= f[k] /\ z <= n
    BY <1>1, <1>3
  <2>2. k \notin s => f[k] = -n - 1
    OBVIOUS
  <2> QED BY <1>1, <2>1, <2>2
<1>5. ASSUME NEW y \in s PROVE k <= y
  <2>1. f[y] = -y /\ f[k] = -k /\ f[y] <= f[k]
    BY <1>3, <1>4
  <2> QED BY <2>1
<1>6. \E x \in s : \A y \in s : x <= y
  BY <1>4, <1>5
<1> QED BY <1>6, Zenon DEF Min

\* A window with its score and proxy label.
Sample == [score : Int, label : {0, 1}]

\* The samples that a threshold flags.
AtLeast(samples, t) == {i \in DOMAIN samples : samples[i].score >= t}

LEMMA SampleFacts ==
  ASSUME NEW samples \in Seq(Sample)
  PROVE  /\ Len(samples) \in Nat /\ DOMAIN samples = 1 .. Len(samples)
         /\ IsFiniteSet(DOMAIN samples) /\ Cardinality(DOMAIN samples) = Len(samples)
         /\ \A i \in DOMAIN samples : samples[i].score \in Int
         /\ \A some \in SUBSET DOMAIN samples :
              /\ IsFiniteSet(some)
              /\ Cardinality(some) \in 0 .. Len(samples)
              /\ Youden(samples, some) \in Int
<1> DEFINE n == Len(samples)
<1>1. n \in Nat /\ DOMAIN samples = 1 .. n
  OBVIOUS
<1>2. \A i \in DOMAIN samples : samples[i].score \in Int
  <2>1. \A i \in DOMAIN samples : samples[i] \in Sample
    OBVIOUS
  <2> QED BY <2>1 DEF Sample
<1> HIDE DEF n
<1>3. IsFiniteSet(DOMAIN samples) /\ Cardinality(DOMAIN samples) = n
  BY <1>1, FS_Interval
<1>4. ASSUME NEW some \in SUBSET DOMAIN samples
      PROVE  IsFiniteSet(some) /\ Cardinality(some) \in 0 .. n
  <2>1. IsFiniteSet(some) /\ Cardinality(some) <= n
    BY <1>3, FS_Subset
  <2>2. Cardinality(some) \in Nat
    BY <2>1, FS_CardinalityType
  <2> QED BY <1>1, <2>1, <2>2
<1>5. ASSUME NEW some \in SUBSET DOMAIN samples, NEW label
      PROVE  Labelled(samples, some, label) \in Nat
  <2>1. {i \in some : samples[i].label = label} \in SUBSET DOMAIN samples
    OBVIOUS
  <2> QED BY <1>1, <1>4, <2>1 DEF Labelled
<1>6. ASSUME NEW some \in SUBSET DOMAIN samples PROVE Youden(samples, some) \in Int
  <2> DEFINE a == Labelled(samples, some, 1)
             b == Labelled(samples, some, 0)
             c == AtLeastOne(Labelled(samples, DOMAIN samples, 0))
             d == AtLeastOne(Labelled(samples, DOMAIN samples, 1))
  <2>1. a \in Int /\ b \in Int /\ c \in Int /\ d \in Int
    BY <1>5 DEF AtLeastOne
  <2>2. Youden(samples, some) = a * c - b * d
    BY DEF Youden
  <2> HIDE DEF a, b, c, d
  <2> QED BY <2>1, <2>2
<1> QED BY <1>1, <1>2, <1>3, <1>4, <1>6 DEF n

\* The samples at or above any cut are the first ones.
LEMMA CutIsFirst ==
  ASSUME NEW samples \in Seq(Sample), NEW t \in Int
  PROVE  AtLeast(samples, t) = First(samples, Cardinality(AtLeast(samples, t)))
<1> DEFINE all == DOMAIN samples
           cut == AtLeast(samples, t)
           above(i) == {j \in all : samples[j].score >= samples[i].score}
<1>1. cut \in SUBSET all /\ \A i \in all : above(i) \in SUBSET all /\ i \in above(i)
  BY SampleFacts DEF AtLeast
<1>2. ASSUME NEW i \in cut PROVE Position(samples, i) <= Cardinality(cut)
  <2>1. i \in all /\ samples[i].score >= t
    BY DEF AtLeast
  <2>2. above(i) \subseteq cut
    BY <2>1, SampleFacts DEF AtLeast
  <2>3. IsFiniteSet(cut)
    BY <1>1, SampleFacts
  <2> HIDE DEF cut
  <2>4. Cardinality(above(i)) <= Cardinality(cut)
    BY <2>2, <2>3, FS_Subset
  <2> QED BY <2>4 DEF Position
<1>3. ASSUME NEW i \in all, i \notin cut PROVE ~(Position(samples, i) <= Cardinality(cut))
  <2>1. samples[i].score < t
    BY <1>3, SampleFacts DEF AtLeast
  <2>2. cut \union {i} \subseteq above(i)
    BY <2>1, SampleFacts DEF AtLeast
  <2>3. IsFiniteSet(cut) /\ IsFiniteSet(above(i))
    BY <1>1, SampleFacts
  <2>4. Cardinality(cut) \in Nat /\ Cardinality(above(i)) \in Nat
    BY <2>3, FS_CardinalityType
  <2> HIDE DEF cut, above
  <2>5. Cardinality(cut \union {i}) = Cardinality(cut) + 1
    BY <1>3, <2>3, FS_AddElement
  <2>6. Cardinality(cut \union {i}) <= Cardinality(above(i))
    BY <2>2, <2>3, FS_Subset
  <2>7. Position(samples, i) = Cardinality(above(i))
    BY DEF Position, above
  <2> QED BY <2>4, <2>5, <2>6, <2>7
<1> QED BY <1>1, <1>2, <1>3 DEF First

\* With distinct scores, some sample stands at every position.
LEMMA PositionsAreTaken ==
  ASSUME NEW samples \in Seq(Sample),
         \A i, j \in DOMAIN samples : samples[i].score = samples[j].score => i = j,
         NEW k \in 1 .. Len(samples)
  PROVE  \E i \in DOMAIN samples : Position(samples, i) = k
<1> DEFINE n == Len(samples)
           all == DOMAIN samples
           above(i) == {j \in all : samples[j].score >= samples[i].score}
           position == [i \in all |-> Position(samples, i)]
<1>1. /\ \A i \in all : samples[i].score \in Int
      /\ IsFiniteSet(all) /\ Cardinality(all) = n /\ n \in Nat
  BY SampleFacts
<1>2. ASSUME NEW i \in all
      PROVE  /\ Position(samples, i) = Cardinality(above(i))
             /\ IsFiniteSet(above(i)) /\ Position(samples, i) \in 1 .. n
  <2>1. above(i) \in SUBSET all /\ i \in above(i)
    BY <1>1
  <2>2. Position(samples, i) = Cardinality(above(i))
    BY DEF Position
  <2> HIDE DEF above
  <2>3. IsFiniteSet(above(i)) /\ Cardinality(above(i)) \in 0 .. n
    BY <2>1, SampleFacts
  <2>4. Cardinality(above(i)) # 0
    BY <2>1, <2>3, FS_EmptySet
  <2> QED BY <1>1, <2>2, <2>3, <2>4 DEF above
<1>3. ASSUME NEW i \in all, NEW j \in all, samples[i].score < samples[j].score
      PROVE  Position(samples, j) < Position(samples, i)
  <2>1. above(j) \subseteq above(i) /\ i \in above(i) /\ i \notin above(j)
    BY <1>1, <1>3
  <2>2. IsFiniteSet(above(i)) /\ Position(samples, j) \in Nat /\ Position(samples, i) \in Nat
        /\ Position(samples, i) = Cardinality(above(i))
        /\ Position(samples, j) = Cardinality(above(j))
    BY <1>2
  <2> HIDE DEF above
  <2>3. Cardinality(above(j)) <= Cardinality(above(i))
        /\ Cardinality(above(i)) # Cardinality(above(j))
    BY <2>1, <2>2, FS_Subset
  <2> QED BY <2>2, <2>3
<1>4. position \in Injection(all, 1 .. n)
  <2>1. position \in [all -> 1 .. n]
    BY <1>2
  <2>2. ASSUME NEW i \in all, NEW j \in all, position[i] = position[j] PROVE i = j
    <3>1. Position(samples, i) = Position(samples, j) /\ Position(samples, i) \in 1 .. n
      BY <1>2, <2>2
    <3>2. ~(samples[i].score < samples[j].score) /\ ~(samples[j].score < samples[i].score)
      BY <1>1, <1>3, <3>1
    <3>3. samples[i].score = samples[j].score
      BY <1>1, <3>2
    <3> QED BY <3>3
  <2> QED BY <2>1, <2>2 DEF Injection, IsInjective
<1>5. IsFiniteSet(1 .. n) /\ Cardinality(1 .. n) = n
  BY <1>1, FS_Interval
<1>6. position \in Surjection(all, 1 .. n)
  <2> HIDE DEF position, n, all
  <2> QED BY <1>1, <1>4, <1>5, FS_Injection
<1> QED BY <1>6 DEF Surjection

\* The calibrated threshold flags as many samples as the best cut.
LEMMA ThresholdIsBestCut ==
  ASSUME NEW samples \in Seq(Sample), samples # <<>>,
         \A i, j \in DOMAIN samples : samples[i].score = samples[j].score => i = j,
         NEW t \in Int
  PROVE  Informedness(samples, t)
           <= Informedness(samples, calculate_optimal_threshold(samples))
<1> DEFINE n == Len(samples)
           all == DOMAIN samples
           best == BestIndex(samples)
           youden == [k \in 0 .. n |-> Youden(samples, First(samples, k))]
           threshold == calculate_optimal_threshold(samples)
<1>1. n \in Nat /\ n > 0 /\ all = 1 .. n /\ \A i \in all : samples[i].score \in Int
  BY SampleFacts
<1>2. youden \in [0 .. n -> Int]
  <2>1. ASSUME NEW k \in 0 .. n PROVE First(samples, k) \in SUBSET all
    BY DEF First
  <2> QED BY <2>1, SampleFacts
<1>3. best \in 0 .. n /\ \A j \in 0 .. n : youden[j] <= youden[best]
  <2> DEFINE s == {k \in 0 .. n : \A j \in 0 .. n : youden[j] <= youden[k]}
  <2>1. s \in SUBSET (0 .. n) /\ s # {}
    <3> HIDE DEF youden, n
    <3> QED BY <1>1, <1>2, GreatestValue
  <2>2. s = {k \in 0 .. n : \A j \in 0 .. n :
               Youden(samples, First(samples, j)) <= Youden(samples, First(samples, k))}
    OBVIOUS
  <2>3. best = Min(s)
    BY <2>2, Zenon DEF BestIndex
  <2>4. Min(s) \in s
    <3> HIDE DEF s
    <3> QED BY <1>1, <2>1, MinIsIn
  <2> HIDE DEF best
  <2> QED BY <2>3, <2>4
<1> DEFINE at == CHOOSE i \in DOMAIN samples : Position(samples, i) = Max({1, best})
<1> HIDE DEF best
<1>4. Max({1, best}) = (IF best = 0 THEN 1 ELSE best) /\ Max({1, best}) \in 1 .. n
  <2>1. \E x \in {1, best} : \A y \in {1, best} : x >= y
    BY <1>3
  <2>2. Max({1, best}) \in {1, best} /\ \A y \in {1, best} : Max({1, best}) >= y
    BY <2>1, Zenon DEF Max
  <2> QED BY <1>1, <1>3, <2>2
<1>5. at \in all /\ Position(samples, at) = Max({1, best})
  <2>1. \E i \in DOMAIN samples : Position(samples, i) = Max({1, best})
    BY <1>4, PositionsAreTaken
  <2> QED BY <2>1, Zenon
<1>6. threshold = IF best = 0 THEN samples[at].score + 1 ELSE samples[at].score
  BY Zenon DEF calculate_optimal_threshold, best
<1> HIDE DEF at
<1> DEFINE above == {j \in all : samples[j].score >= samples[at].score}
<1>7. Cardinality(above) = Max({1, best})
  BY <1>5 DEF Position
<1>8. threshold \in Int /\ Cardinality(AtLeast(samples, threshold)) = best
  <2>1. CASE best # 0
    <3>1. threshold = samples[at].score
      BY <1>6, <2>1
    <3>2. AtLeast(samples, threshold) = above
      BY <3>1 DEF AtLeast
    <3> QED BY <1>1, <1>4, <1>5, <1>7, <2>1, <3>1, <3>2
  <2>2. CASE best = 0
    <3>1. threshold = samples[at].score + 1
      BY <1>6, <2>2
    <3>2. Cardinality(above) = 1 /\ at \in above /\ above \in SUBSET all
      BY <1>1, <1>4, <1>5, <1>7, <2>2
    <3>3. above = {at}
      <4>1. IsFiniteSet(above)
        BY <3>2, SampleFacts
      <4> HIDE DEF above
      <4>2. PICK x : above = {x}
        BY <3>2, <4>1, FS_Singleton
      <4> QED BY <3>2, <4>2
    <3>4. AtLeast(samples, threshold) = {}
      <4>1. ASSUME NEW i \in all, samples[i].score >= threshold PROVE FALSE
        <5>1. samples[i].score >= samples[at].score + 1
          BY <3>1, <4>1
        <5>2. i \in above
          BY <1>1, <1>5, <5>1
        <5>3. i = at
          BY <3>3, <5>2
        <5> QED BY <1>1, <1>5, <5>1, <5>3
      <4> QED BY <4>1 DEF AtLeast
    <3>5. threshold \in Int
      BY <1>1, <1>5, <3>1
    <3> QED BY <2>2, <3>4, <3>5, FS_EmptySet
  <2> QED BY <2>1, <2>2
<1> HIDE DEF threshold
<1>9. ASSUME NEW x \in Int, NEW k \in 0 .. n, k = Cardinality(AtLeast(samples, x))
      PROVE  Informedness(samples, x) = youden[k]
  <2>1. AtLeast(samples, x) = First(samples, k)
    BY <1>9, CutIsFirst
  <2> QED BY <2>1 DEF Informedness, AtLeast
<1>10. Cardinality(AtLeast(samples, t)) \in 0 .. n
  <2>1. AtLeast(samples, t) \in SUBSET all
    BY DEF AtLeast
  <2> QED BY <2>1, SampleFacts
<1> HIDE DEF youden
<1>11. Informedness(samples, t) = youden[Cardinality(AtLeast(samples, t))]
       /\ Informedness(samples, threshold) = youden[best]
  BY <1>3, <1>8, <1>9, <1>10
<1> QED BY <1>3, <1>10, <1>11 DEF threshold

\* Every threshold flags what some first samples are, and the calibrated one the
\* best of these.
LEMMA CalibratedIsBest ==
  ASSUME NEW scores \in Seq(Int), NEW labels \in Seq({0, 1}), IsInjective(scores),
         NEW samples, samples = Samples(scores, labels),
         NEW cuts, cuts = {samples[i].score : i \in DOMAIN samples}
  PROVE  \A t \in cuts \union {c + 1 : c \in cuts} :
           Informedness(samples, t) <= Informedness(samples, Calibrate(scores, labels))
<1> DEFINE n == Min({Len(scores), Len(labels)})
<1>1. n \in Nat /\ n <= Len(scores) /\ n <= Len(labels)
  <2>1. \E x \in {Len(scores), Len(labels)} : \A y \in {Len(scores), Len(labels)} : x <= y
    OBVIOUS
  <2>2. n \in {Len(scores), Len(labels)} /\ \A y \in {Len(scores), Len(labels)} : n <= y
    BY <2>1, Zenon DEF Min
  <2> QED BY <2>2
<1> HIDE DEF n
<1>2. /\ samples = [i \in 1 .. n |-> [score |-> scores[i], label |-> labels[i]]]
      /\ DOMAIN samples = 1 .. n
      /\ \A i \in 1 .. n : samples[i].score = scores[i] /\ samples[i] \in Sample
  <2>1. samples = [i \in 1 .. n |-> [score |-> scores[i], label |-> labels[i]]]
    BY DEF Samples, n
  <2>2. ASSUME NEW i \in 1 .. n PROVE scores[i] \in Int /\ labels[i] \in {0, 1}
    BY <1>1
  <2> QED BY <2>1, <2>2 DEF Sample
<1>3. samples \in Seq(Sample)
  <2>1. samples \in [1 .. n -> Sample]
    BY <1>2
  <2> QED BY <1>1, <2>1
<1>4. \A i, j \in DOMAIN samples : samples[i].score = samples[j].score => i = j
  <2>1. \A i \in 1 .. n : i \in DOMAIN scores
    BY <1>1
  <2> QED BY <1>2, <2>1 DEF IsInjective
<1>5. ASSUME NEW t \in cuts \union {c + 1 : c \in cuts}
      PROVE  Informedness(samples, t) <= Informedness(samples, Calibrate(scores, labels))
  <2>1. PICK i \in DOMAIN samples : t = samples[i].score \/ t = samples[i].score + 1
    OBVIOUS
  <2>2. samples[i].score \in Int
    BY <1>2 DEF Sample
  <2>3. t \in Int /\ samples # <<>>
    BY <1>2, <2>1, <2>2
  <2>4. Calibrate(scores, labels) = calculate_optimal_threshold(samples)
    BY <2>3 DEF Calibrate
  <2> QED BY <1>3, <1>4, <2>3, <2>4, ThresholdIsBestCut
<1> QED BY <1>5

-----------------------------------------------------------------------------
(* The health score.                                                        *)

\* Scaling keeps an order.
LEMMA TimesMonotone ==
  ASSUME NEW a \in Int, NEW b \in Int, NEW c \in Int, 0 <= c, a <= b
  PROVE  c * a <= c * b
OBVIOUS

\* Rounding down keeps an order.
LEMMA DivMonotone ==
  ASSUME NEW a \in Int, NEW b \in Int, NEW c \in Int, 0 < c, a <= b
  PROVE  a \div c <= b \div c
<1> DEFINE p == a \div c
           q == b \div c
<1>1. p \in Int /\ q \in Int
  OBVIOUS
<1>2. c * p <= a /\ b < c * q + c
  OBVIOUS
<1>3. SUFFICES ASSUME q + 1 <= p PROVE FALSE
  BY <1>1
<1>4. c * (q + 1) <= c * p
  BY <1>1, <1>3, TimesMonotone
<1>5. c * (q + 1) = c * q + c
  BY <1>1
<1> HIDE DEF p, q
<1>6. c * q \in Int /\ c * p \in Int
  BY <1>1
<1> QED
  BY <1>2, <1>4, <1>5, <1>6

\* So does the payload's rounding.
LEMMA RoundedIsMonotone ==
  ASSUME NEW x \in Int, NEW y \in Int, x <= y
  PROVE  Rounded(x) \in Int /\ Rounded(y) \in Int /\ Rounded(x) <= Rounded(y)
<1>1. (x + 5) \div 10 <= (y + 5) \div 10
  BY DivMonotone
<1> QED
  BY <1>1 DEF Rounded

\* What gets better raises no part of the score.
LEMMA PartsAreMonotone ==
  ASSUME NEW m \in Market, NEW b \in Better(m)
  PROVE  /\ b \in Market
         /\ b.threshold = m.threshold /\ b.mse = m.mse
         /\ BaseScore(m) \in Int /\ BaseScore(b) \in Int
         /\ BaseScore(m) <= BaseScore(b)
         /\ Direction(m) \in -10 .. 10 /\ Direction(b) \in -10 .. 10
         /\ Direction(m) <= Direction(b)
<1>1. /\ b \in Market
      /\ b.threshold = m.threshold /\ b.mse = m.mse
      /\ m.imbalance <= b.imbalance /\ m.news <= b.news /\ m.tweets <= b.tweets
      /\ b.flow <= m.flow /\ m.price <= b.price /\ m.trade <= b.trade
  BY DEF Better, Market
<1>2. /\ m.imbalance \in Int /\ m.news \in Int /\ m.tweets \in Int /\ m.flow \in Int
      /\ m.price \in Int /\ m.trade \in Int
      /\ b.imbalance \in Int /\ b.news \in Int /\ b.tweets \in Int /\ b.flow \in Int
      /\ b.price \in Int /\ b.trade \in Int
  BY <1>1 DEF Market
<1>3. Blended(m) \in Int /\ Blended(b) \in Int /\ Blended(m) <= Blended(b)
  BY <1>1, <1>2 DEF Blended
<1>4. /\ BaseScore(m) \in Int /\ BaseScore(b) \in Int
      /\ BaseScore(m) <= BaseScore(b)
  BY <1>1, <1>2, <1>3 DEF BaseScore
<1>5. /\ Sign(m.price) \in -1 .. 1 /\ Sign(b.price) \in -1 .. 1
      /\ Sign(m.trade) \in -1 .. 1 /\ Sign(b.trade) \in -1 .. 1
      /\ Sign(m.price) <= Sign(b.price) /\ Sign(m.trade) <= Sign(b.trade)
  BY <1>1, <1>2 DEF Sign
<1>6. /\ Direction(m) \in -10 .. 10 /\ Direction(b) \in -10 .. 10
      /\ Direction(m) <= Direction(b)
  BY <1>3, <1>5 DEF Direction
<1> QED
  BY <1>1, <1>4, <1>6

\* An anomaly is flagged only above the threshold, so its part has the sign of its
\* direction.
LEMMA MagnitudeIsNatural ==
  ASSUME NEW m \in Market, Rounded(m.threshold) > 0, m.mse > m.threshold
  PROVE  Magnitude(m) \in Nat
<1>1. m.mse \in Int /\ m.threshold \in Int
  BY DEF Market
<1>2. /\ Rounded(m.threshold) \in Int /\ Rounded(m.mse) \in Int
      /\ Rounded(m.threshold) <= Rounded(m.mse)
  BY <1>1, RoundedIsMonotone
<1> QED
  BY <1>2 DEF Magnitude, Threshold, Least

\* A better market has no lower score before the clamps, and the same scale.
LEMMA RawScoreIsMonotone ==
  ASSUME NEW m \in Market, NEW b \in Better(m), Rounded(m.threshold) > 0
  PROVE  /\ Threshold(m) \in Nat \ {0} /\ Threshold(b) = Threshold(m)
         /\ RawScore(m) \in Int /\ RawScore(b) \in Int
         /\ RawScore(m) <= RawScore(b)
<1> DEFINE T == Threshold(m)
           M == Magnitude(m)
           F(d) == d * (IF d > 0 THEN 1 ELSE 2)
<1>1. m.threshold \in Int /\ Rounded(m.threshold) \in Int
  BY RoundedIsMonotone DEF Market
<1>2. T \in Nat \ {0} /\ Threshold(b) = T /\ Magnitude(b) = M
  BY <1>1, PartsAreMonotone DEF Threshold, Magnitude
<1> HIDE DEF T, M
<1>3. 2 * T * BaseScore(m) \in Int /\ 2 * T * BaseScore(b) \in Int
      /\ 2 * T * BaseScore(m) <= 2 * T * BaseScore(b)
  BY <1>2, PartsAreMonotone, TimesMonotone
<1>4. CASE m.mse > m.threshold
  <2>1. M \in Nat
    BY <1>4, MagnitudeIsNatural DEF M
  <2>2. /\ F(Direction(m)) \in Int /\ F(Direction(b)) \in Int
        /\ F(Direction(m)) <= F(Direction(b))
    BY PartsAreMonotone
  <2>3. /\ RawScore(m) = 2 * T * BaseScore(m) + M * F(Direction(m))
        /\ RawScore(b) = 2 * T * BaseScore(b) + M * F(Direction(b))
    <3>1. ASSUME NEW d \in Int
          PROVE  M * d * (IF d > 0 THEN 1 ELSE 2) = M * F(d)
      BY <2>1
    <3>2. /\ M * Direction(m) * (IF Direction(m) > 0 THEN 1 ELSE 2) = M * F(Direction(m))
          /\ M * Direction(b) * (IF Direction(b) > 0 THEN 1 ELSE 2) = M * F(Direction(b))
      <4>1. Direction(m) \in Int /\ Direction(b) \in Int
        BY PartsAreMonotone
      <4> HIDE DEF F
      <4> QED BY <3>1, <4>1
    <3> HIDE DEF F
    <3>3. /\ RawScore(m) = 2 * T * BaseScore(m)
               + M * Direction(m) * (IF Direction(m) > 0 THEN 1 ELSE 2)
          /\ RawScore(b) = 2 * T * BaseScore(b)
               + M * Direction(b) * (IF Direction(b) > 0 THEN 1 ELSE 2)
      BY <1>2, <1>4, PartsAreMonotone DEF RawScore, T, M
    <3> QED BY <3>2, <3>3
  <2> HIDE DEF F
  <2>4. /\ M * F(Direction(m)) \in Int /\ M * F(Direction(b)) \in Int
        /\ M * F(Direction(m)) <= M * F(Direction(b))
    BY <2>1, <2>2, TimesMonotone
  <2> QED
    BY <1>2, <1>3, <2>3, <2>4 DEF T
<1>5. CASE ~(m.mse > m.threshold)
  <2>1. RawScore(m) = 2 * T * BaseScore(m) /\ RawScore(b) = 2 * T * BaseScore(b)
    <3>1. /\ RawScore(m) = 2 * T * BaseScore(m) + 0
          /\ RawScore(b) = 2 * T * BaseScore(b) + 0
      BY <1>2, <1>5, PartsAreMonotone DEF RawScore, T
    <3> QED BY <1>3, <3>1
  <2> QED
    BY <1>2, <1>3, <2>1 DEF T
<1> QED
  BY <1>4, <1>5

\* Nor after them.
LEMMA HealthScoreIsMonotone ==
  ASSUME NEW m \in Market, NEW b \in Better(m), Rounded(m.threshold) > 0
  PROVE  /\ calculate_deterministic_health_score(m) \in 0 .. 100
         /\ calculate_deterministic_health_score(m) <= calculate_deterministic_health_score(b)
<1> DEFINE scale == 20 * Threshold(m)
           p == RawScore(m) \div scale
           q == RawScore(b) \div scale
<1>1. scale \in Nat \ {0}
  BY RawScoreIsMonotone
<1>2. p \in Int /\ q \in Int /\ p <= q
  BY <1>1, RawScoreIsMonotone, DivMonotone
<1>3. RawScore(m) >= 0 => p >= 0
  BY <1>1, RawScoreIsMonotone
<1>4. RawScore(b) >= 0 => q >= 0
  BY <1>1, RawScoreIsMonotone
<1>5. /\ calculate_deterministic_health_score(m) = IF RawScore(m) < 0 THEN 0 ELSE Least(100, p)
      /\ calculate_deterministic_health_score(b) = IF RawScore(b) < 0 THEN 0 ELSE Least(100, q)
  BY RawScoreIsMonotone DEF calculate_deterministic_health_score
<1> HIDE DEF p, q
<1> QED
  BY <1>2, <1>3, <1>4, <1>5, RawScoreIsMonotone DEF Least

-----------------------------------------------------------------------------
(* The rows of tweets and of news.                                          *)

\* The scores of some tweets lie between the least and the greatest of them.
LEMMA ScoresAreBounded ==
  ASSUME NEW items \in Seq(Tweet), items # <<>>,
         NEW scores, scores = {items[i].score : i \in DOMAIN items}
  PROVE  /\ Min(scores) \in Int /\ Max(scores) \in Int
         /\ \A i \in DOMAIN items : /\ items[i].score \in Int
                                    /\ Min(scores) <= items[i].score
                                    /\ items[i].score <= Max(scores)
<1> DEFINE n == Len(items) - 1
           f == [k \in 0 .. n |-> items[k + 1].score]
           g == [k \in 0 .. n |-> -items[k + 1].score]
<1>1. n \in Nat /\ DOMAIN items = 1 .. n + 1
  OBVIOUS
<1>2. \A i \in DOMAIN items : items[i].score \in Int
  <2>1. \A i \in DOMAIN items : items[i] \in Tweet
    OBVIOUS
  <2> QED BY <2>1 DEF Tweet
<1> HIDE DEF n
<1>3. \A i \in DOMAIN items : i - 1 \in 0 .. n /\ i - 1 + 1 = i
  BY <1>1
<1>4. \A k \in 0 .. n : k + 1 \in DOMAIN items
  BY <1>1
<1>5. f \in [0 .. n -> Int] /\ g \in [0 .. n -> Int]
  BY <1>2, <1>4
<1>6. PICK k \in 0 .. n : \A j \in 0 .. n : f[j] <= f[k]
  <2> HIDE DEF f
  <2> QED BY <1>1, <1>5, GreatestValue
<1>7. PICK l \in 0 .. n : \A j \in 0 .. n : g[j] <= g[l]
  <2> HIDE DEF g
  <2> QED BY <1>1, <1>5, GreatestValue
<1>8. ASSUME NEW i \in DOMAIN items
      PROVE  items[l + 1].score <= items[i].score /\ items[i].score <= items[k + 1].score
  <2>1. f[i - 1] <= f[k] /\ g[i - 1] <= g[l]
    BY <1>3, <1>6, <1>7
  <2>2. -items[i].score <= -items[l + 1].score /\ items[i].score <= items[k + 1].score
    BY <1>3, <2>1
  <2> QED BY <1>2, <1>4, <2>2
<1>9. scores \subseteq Int /\ items[l + 1].score \in scores /\ items[k + 1].score \in scores
  BY <1>2, <1>4
<1>10. (\E x \in scores : \A y \in scores : x <= y) /\ (\E x \in scores : \A y \in scores : x >= y)
  <2>1. \A y \in scores : items[l + 1].score <= y /\ y <= items[k + 1].score
    BY <1>8
  <2>2. \A y \in scores : items[k + 1].score >= y
    BY <1>9, <2>1
  <2> QED BY <1>9, <2>1, <2>2
<1>11. Min(scores) \in scores /\ \A y \in scores : Min(scores) <= y
  BY <1>10, Zenon DEF Min
<1>12. Max(scores) \in scores /\ \A y \in scores : Max(scores) >= y
  BY <1>10, Zenon DEF Max
<1>13. \A i \in DOMAIN items : items[i].score \in scores
  OBVIOUS
<1> QED BY <1>2, <1>9, <1>11, <1>12, <1>13

\* One more tweet keeps the sum between the bounds.
LEMMA TweetStaysBetween ==
  ASSUME NEW lo \in Int, NEW hi \in Int, NEW weighted \in Int, NEW total \in Int,
         NEW score \in Int, NEW weight \in Int, lo <= score, score <= hi, 0 <= weight,
         0 <= total, lo * total <= weighted, weighted <= hi * total
  PROVE  /\ 0 <= total + weight
         /\ lo * (total + weight) <= weighted + score * weight
         /\ weighted + score * weight <= hi * (total + weight)
<1>1. weight * lo <= weight * score /\ weight * score <= weight * hi
  BY TimesMonotone
<1>2. lo * (total + weight) = lo * total + weight * lo
      /\ hi * (total + weight) = hi * total + weight * hi
      /\ score * weight = weight * score
  OBVIOUS
<1>3. /\ lo * total \in Int /\ hi * total \in Int /\ weight * lo \in Int /\ weight * hi \in Int
      /\ weight * score \in Int
  OBVIOUS
<1> QED BY <1>1, <1>2, <1>3

\* The weighted sum stays between the least and the greatest score times the
\* total weight, tweet by tweet.
LEMMA WeightsKeepBounds ==
  ASSUME NEW items \in Seq(Tweet), NEW sum, sum = calculate_weighted_sentiment(items),
         NEW scores, scores = {items[i].score : i \in DOMAIN items}
  PROVE  /\ sum.total >= 0
         /\ scores # {} => /\ Min(scores) * sum.total <= sum.weighted
                           /\ sum.weighted <= Max(scores) * sum.total
<1> DEFINE n == Len(items)
<1>1. PICK F : /\ Through(F, n, [weighted : Int, total : Int], NoTweets)
               /\ \A k \in 0 .. n - 1 : F[k + 1] = AddTweet(F[k], items[k + 1])
               /\ F[n] = sum
  BY TweetsAreFolded
<1>2. n \in Nat /\ DOMAIN items = 1 .. n
  OBVIOUS
<1>3. CASE items = <<>>
  <2>1. scores = {} /\ n = 0
    BY <1>3
  <2> QED BY <1>1, <2>1 DEF Through, NoTweets
<1>4. CASE items # <<>>
  <2>1. PICK lo \in Int, hi \in Int :
          /\ lo = Min(scores) /\ hi = Max(scores)
          /\ \A i \in DOMAIN items : /\ items[i].score \in Int
                                     /\ lo <= items[i].score /\ items[i].score <= hi
    BY <1>4, ScoresAreBounded
  <2> DEFINE S == {k \in 0 .. n : /\ 0 <= F[k].total
                                  /\ lo * F[k].total <= F[k].weighted
                                  /\ F[k].weighted <= hi * F[k].total}
  <2>2. 0 \in S
    <3>1. F[0].total = 0 /\ F[0].weighted = 0
      BY <1>1 DEF Through, NoTweets
    <3>2. lo * 0 = 0 /\ hi * 0 = 0
      OBVIOUS
    <3> QED BY <1>2, <3>1, <3>2
  <2>3. ASSUME NEW k \in 0 .. n - 1, k \in S PROVE k + 1 \in S
    <3>1. k \in 0 .. n /\ k + 1 \in 0 .. n /\ k + 1 \in DOMAIN items
      BY <1>2
    <3>2. F[k].total \in Int /\ F[k].weighted \in Int
      BY <1>1, <3>1 DEF Through
    <3>3. items[k + 1].score \in Int /\ SafeWeight(items[k + 1].weight) \in Int
          /\ 0 <= SafeWeight(items[k + 1].weight)
      <4>1. items[k + 1] \in Tweet
        BY <3>1
      <4> QED BY <4>1, WeightAssumption DEF Tweet, SafeWeight
    <3> DEFINE weight == SafeWeight(items[k + 1].weight)
    <3>4. /\ F[k + 1].total = F[k].total + weight
          /\ F[k + 1].weighted = F[k].weighted + items[k + 1].score * weight
      <4>1. F[k + 1] = AddTweet(F[k], items[k + 1])
        BY <1>1
      <4>2. \A a, b : /\ AddTweet(a, b).total = a.total + SafeWeight(b.weight)
                      /\ AddTweet(a, b).weighted = a.weighted + b.score * SafeWeight(b.weight)
        BY DEF AddTweet
      <4> QED BY <4>1, <4>2
    <3>5. /\ 0 <= F[k].total
          /\ lo * F[k].total <= F[k].weighted /\ F[k].weighted <= hi * F[k].total
          /\ lo <= items[k + 1].score /\ items[k + 1].score <= hi
      BY <2>1, <2>3, <3>1
    <3> HIDE DEF weight
    <3>6. /\ 0 <= F[k].total + weight
          /\ lo * (F[k].total + weight) <= F[k].weighted + items[k + 1].score * weight
          /\ F[k].weighted + items[k + 1].score * weight <= hi * (F[k].total + weight)
      BY <3>2, <3>3, <3>5, TweetStaysBetween DEF weight
    <3> QED BY <3>1, <3>4, <3>6
  <2>4. n \in S
    <3> HIDE DEF S, n
    <3>1. \A k \in 0 .. n : k \in S
      BY <1>2, <2>2, <2>3, UpTo
    <3>2. n \in 0 .. n
      BY <1>2
    <3> QED BY <3>1, <3>2
  <2> HIDE DEF n
  <2> QED
    <3>1. sum.total \in Int
      <4>1. n \in 0 .. n
        BY <1>2
      <4> QED BY <1>1, <4>1 DEF Through
    <3> QED BY <1>1, <2>1, <2>4, <3>1
<1> QED BY <1>3, <1>4

\* One upsert keeps the average that of the articles so far.
LEMMA UpsertKeepsAverage ==
  ASSUME NEW sum \in Int, NEW over \in Int, NEW k \in Int, NEW s \in Int, NEW score \in Int,
         sum * k = over * s
  PROVE  (sum * k + score * over) * (k + 1) = over * (k + 1) * (s + score)
<1> DEFINE q == s + score
           l == k + 1
<1>1. q \in Int /\ l \in Int /\ over * s + score * over = over * q
  OBVIOUS
<1> HIDE DEF q, l
<1>2. (over * q) * l = over * l * q
  BY <1>1
<1> QED BY <1>1, <1>2 DEF q, l

\* An article is positive, negative or neutral, and only one of them.
LEMMA UpsertCountsOnce ==
  ASSUME NEW p \in Int, NEW q \in Int, NEW r \in Int, NEW k \in Int, NEW score \in Int,
         p + q + r = k
  PROVE  p + (IF score > 2 THEN 1 ELSE 0) + (q + (IF score < -2 THEN 1 ELSE 0))
           + (r + (IF -2 <= score /\ score <= 2 THEN 1 ELSE 0)) = k + 1
OBVIOUS

\* The fraction of a news row is the mean, article by article.
LEMMA NewsIsAverage ==
  ASSUME NEW scores \in Seq(Int), NEW row, row = NewsRow(scores)
  PROVE  /\ row.count = Len(scores)
         /\ row.sum * row.count = row.over * SumOf(scores)
         /\ row.positive + row.negative + row.neutral = row.count
<1> DEFINE n == Len(scores)
<1>1. n \in Nat /\ n \in 0 .. n
  OBVIOUS
<1>2. PICK F : /\ Through(F, n, NewsRows, EmptyNews)
               /\ \A k \in 0 .. n - 1 : F[k + 1] = Upsert(F[k], scores[k + 1])
               /\ F[n] = row
  BY NewsIsFolded
<1>3. PICK G : /\ Through(G, n, Int, 0)
               /\ \A k \in 0 .. n - 1 : G[k + 1] = G[k] + scores[k + 1]
               /\ G[n] = SumOf(scores)
  BY SumIsFolded
<1> DEFINE P(k) == /\ F[k].count = k
                   /\ F[k].sum * k = F[k].over * G[k]
                   /\ F[k].positive + F[k].negative + F[k].neutral = k
           S == {k \in 0 .. n : P(k)}
<1>4. 0 \in S
  <2>1. F[0] = EmptyNews /\ G[0] = 0
    BY <1>2, <1>3 DEF Through
  <2>2. /\ F[0].count = 0 /\ F[0].sum = 0 /\ F[0].over = 1
        /\ F[0].positive = 0 /\ F[0].negative = 0 /\ F[0].neutral = 0
    BY <2>1 DEF EmptyNews
  <2> QED BY <1>1, <2>1, <2>2
<1>5. ASSUME NEW k \in 0 .. n - 1, k \in S PROVE k + 1 \in S
  <2>1. k \in 0 .. n /\ k + 1 \in 0 .. n /\ k + 1 \in 1 .. n /\ k \in Nat
    BY <1>1
  <2>2. F[k] \in NewsRows /\ G[k] \in Int
    BY <1>2, <1>3, <2>1 DEF Through
  <2>3. scores[k + 1] \in Int
    BY <2>1
  <2>4. P(k)
    <3> HIDE DEF P
    <3> QED BY <1>5
  <2>6. F[k + 1] = Upsert(F[k], scores[k + 1]) /\ G[k + 1] = G[k] + scores[k + 1]
    BY <1>2, <1>3
  <2>5. P(k + 1)
    <3>1. PICK sum \in Int, over \in Int, p \in Int, q \in Int, r \in Int, s \in Int, x \in Int :
            /\ F[k].sum = sum /\ F[k].over = over /\ G[k] = s /\ scores[k + 1] = x
            /\ F[k].positive = p /\ F[k].negative = q /\ F[k].neutral = r
      BY <2>2, <2>3 DEF NewsRows
    <3>2. sum * k = over * s /\ p + q + r = k /\ k \in Int
      BY <2>1, <2>4, <3>1
    <3>3. /\ F[k + 1].count = k + 1
          /\ F[k + 1].sum = sum * k + x * over /\ F[k + 1].over = over * (k + 1)
          /\ F[k + 1].positive = p + (IF x > 2 THEN 1 ELSE 0)
          /\ F[k + 1].negative = q + (IF x < -2 THEN 1 ELSE 0)
          /\ F[k + 1].neutral = r + (IF -2 <= x /\ x <= 2 THEN 1 ELSE 0)
          /\ G[k + 1] = s + x
      BY <2>4, <2>6, <3>1 DEF Upsert
    <3>4. (sum * k + x * over) * (k + 1) = over * (k + 1) * (s + x)
      BY <3>2, UpsertKeepsAverage
    <3>5. p + (IF x > 2 THEN 1 ELSE 0) + (q + (IF x < -2 THEN 1 ELSE 0))
            + (r + (IF -2 <= x /\ x <= 2 THEN 1 ELSE 0)) = k + 1
      BY <3>2, UpsertCountsOnce
    <3> QED BY <3>3, <3>4, <3>5, Zenon
  <2> HIDE DEF P
  <2> QED BY <2>1, <2>5
<1>6. P(n)
  <2> HIDE DEF P, n
  <2>1. 0 \in S /\ \A k \in 0 .. n - 1 : k \in S => k + 1 \in S
    BY <1>4, <1>5
  <2>2. \A k \in 0 .. n : k \in S
    <3> HIDE DEF S
    <3> QED BY <1>1, <2>1, UpTo
  <2> QED BY <1>1, <2>2
<1> QED BY <1>2, <1>3, <1>6

-----------------------------------------------------------------------------
(* Candles.                                                                 *)

\* A sum over places, folded from the greatest place down, may be taken apart at any
\* of its places.
LEMMA SumInsert ==
  ASSUME NEW n \in Nat, NEW q \in [1 .. n -> Int], NEW f \in [SUBSET (1 .. n) -> Int],
         \A s \in SUBSET (1 .. n) :
           f[s] = IF s = {} THEN 0 ELSE f[s \ {Max(s)}] + q[Max(s)]
  PROVE  \A s \in SUBSET (1 .. n) : \A x \in (1 .. n) \ s : f[s \union {x}] = f[s] + q[x]
<1> DEFINE P(m) == \A s \in SUBSET (1 .. m) : \A x \in (1 .. m) \ s :
                     f[s \union {x}] = f[s] + q[x]
           S == {m \in 0 .. n : P(m)}
<1>1. ASSUME NEW m \in 0 .. n - 1, NEW s \in SUBSET (1 .. m + 1), m + 1 \in s
      PROVE  /\ s \in SUBSET (1 .. n) /\ s \ {m + 1} \in SUBSET (1 .. m)
             /\ f[s] = f[s \ {m + 1}] + q[m + 1]
  <2>1. Max(s) = m + 1
    BY <1>1, GreatestOf
  <2>2. s \in SUBSET (1 .. n) /\ s # {} /\ s \ {m + 1} \in SUBSET (1 .. m)
    BY <1>1
  <2> QED BY <2>1, <2>2
<1>2. 0 \in S
  OBVIOUS
<1>3. ASSUME NEW m \in 0 .. n - 1, m \in S PROVE m + 1 \in S
  <2>1. SUFFICES ASSUME NEW s \in SUBSET (1 .. m + 1), NEW x \in (1 .. m + 1) \ s
                 PROVE  f[s \union {x}] = f[s] + q[x]
    <3>1. m + 1 \in 0 .. n
      OBVIOUS
    <3> QED BY <3>1
  <2>2. P(m)
    <3> HIDE DEF P
    <3> QED BY <1>3
  <2>3. CASE x = m + 1
    <3>1. s \union {x} \in SUBSET (1 .. m + 1) /\ m + 1 \in s \union {x}
          /\ (s \union {x}) \ {m + 1} = s
      BY <2>1, <2>3
    <3> QED BY <1>1, <2>3, <3>1
  <2>4. CASE x # m + 1 /\ m + 1 \in s
    <3> DEFINE r == s \ {m + 1}
    <3>1. x \in 1 .. m /\ r \in SUBSET (1 .. m) /\ x \in (1 .. m) \ r
      BY <2>1, <2>4
    <3>2. f[r \union {x}] = f[r] + q[x]
      BY <2>2, <3>1
    <3>3. f[s] = f[r] + q[m + 1]
      BY <1>1, <2>4
    <3>4. s \union {x} \in SUBSET (1 .. m + 1) /\ m + 1 \in s \union {x}
          /\ (s \union {x}) \ {m + 1} = r \union {x}
      BY <2>1, <2>4
    <3>5. f[s \union {x}] = f[r \union {x}] + q[m + 1]
      BY <1>1, <3>4
    <3>6. f[r] \in Int /\ q[x] \in Int /\ q[m + 1] \in Int
      <4>1. r \in SUBSET (1 .. n) /\ x \in 1 .. n /\ m + 1 \in 1 .. n
        BY <3>1
      <4> QED BY <4>1
    <3> HIDE DEF r
    <3> QED BY <3>2, <3>3, <3>5, <3>6
  <2>5. CASE x # m + 1 /\ m + 1 \notin s
    <3>1. x \in (1 .. m) \ s /\ s \in SUBSET (1 .. m)
      BY <2>1, <2>5
    <3> QED BY <2>2, <3>1
  <2> QED BY <2>3, <2>4, <2>5
<1>4. n \in S
  <2> HIDE DEF S
  <2>1. \A m \in 0 .. n : m \in S
    BY <1>2, <1>3, UpTo
  <2> QED BY <2>1
<1> QED BY <1>4

\* There is such a sum.
LEMMA SumOfPlaces ==
  ASSUME NEW n \in Nat, NEW q \in [1 .. n -> Int]
  PROVE  \E f \in [SUBSET (1 .. n) -> Int] :
           /\ f[{}] = 0
           /\ \A s \in SUBSET (1 .. n) : \A x \in (1 .. n) \ s : f[s \union {x}] = f[s] + q[x]
<1> DEFINE step == [i \in 1 .. n |-> [v \in Int |-> v + q[i]]]
<1>1. step \in [1 .. n -> [Int -> Int]]
  OBVIOUS
<1>2. \A i \in 1 .. n : \A v \in Int : step[i][v] = v + q[i]
  OBVIOUS
<1> HIDE DEF step
<1>3. 0 \in Int
  OBVIOUS
<1>4. PICK f \in [SUBSET (1 .. n) -> Int] : IsTypedFold(f, n, Int, 0, step)
  BY <1>1, <1>3, FoldByPrefixes
<1>5. \A s \in SUBSET (1 .. n) : f[s] = IF s = {} THEN 0 ELSE f[s \ {Max(s)}] + q[Max(s)]
  <2>1. ASSUME NEW s \in SUBSET (1 .. n), s # {}
        PROVE  f[s] = f[s \ {Max(s)}] + q[Max(s)]
    <3>1. Max(s) \in 1 .. n /\ f[s \ {Max(s)}] \in Int
          /\ f[s] = step[Max(s)][f[s \ {Max(s)}]]
      BY <1>4, <2>1 DEF IsTypedFold
    <3> QED BY <1>2, <3>1
  <2>2. f[{}] = 0
    BY <1>4 DEF IsTypedFold
  <2> QED BY <2>1, <2>2
<1>6. f[{}] = 0
  BY <1>4 DEF IsTypedFold
<1>7. \A s \in SUBSET (1 .. n) : \A x \in (1 .. n) \ s : f[s \union {x}] = f[s] + q[x]
  BY <1>5, SumInsert
<1> QED BY <1>6, <1>7

\* Numbers and places for the places up to n.
Numbers(n) == [1 .. n -> Int]
\* Maps of the places 1 .. n.
Places(n) == [1 .. n -> 1 .. n]

\* An order of n places has every place once, and puts q in the order p.
OneToOne(o, n) == \A i, j \in 1 .. n : o[i] = o[j] => i = j
\* Every place is taken; and p is q in the order o.
Onto(o, n) == \A t \in 1 .. n : \E i \in 1 .. n : o[i] = t
Reorders(p, q, o, n) == \A i \in 1 .. n : p[i] = q[o[i]]

\* An order of the places goes through all of them.
LEMMA OrderIsOnto ==
  ASSUME NEW n \in Nat, NEW o \in Places(n),
         OneToOne(o, n)
  PROVE  Onto(o, n)
<1>1. o \in Injection(1 .. n, 1 .. n)
  BY DEF Injection, IsInjective, OneToOne, Places
<1>2. IsFiniteSet(1 .. n)
  BY FS_Interval
<1>3. o \in Surjection(1 .. n, 1 .. n)
  BY <1>1, <1>2, FS_Injection
<1> QED BY <1>3 DEF Surjection, Onto

\* Where an order puts the first k places.
FirstOf(o, k) == {o[i] : i \in 1 .. k}

\* F adds the numbers of q, one after the other.
AddsUp(F, n, q) == F[0] = 0 /\ \A k \in 0 .. n - 1 : F[k + 1] = F[k] + q[k + 1]

\* The order of what is added does not matter.
LEMMA SumsAgree ==
  ASSUME NEW n \in Nat, NEW q \in Numbers(n), NEW o \in Places(n),
         OneToOne(o, n), NEW p, Reorders(p, q, o, n),
         NEW F, NEW G, AddsUp(F, n, q), AddsUp(G, n, p)
  PROVE  F[n] = G[n]
<1>0. q \in [1 .. n -> Int] /\ o \in [1 .. n -> 1 .. n]
  BY DEF Numbers, Places
<1>1. PICK f \in [SUBSET (1 .. n) -> Int] :
           /\ f[{}] = 0
           /\ \A s \in SUBSET (1 .. n) : \A x \in (1 .. n) \ s : f[s \union {x}] = f[s] + q[x]
  BY <1>0, SumOfPlaces
<1> DEFINE S == {k \in 0 .. n : F[k] = f[1 .. k] /\ G[k] = f[FirstOf(o, k)]}
<1>2. 0 \in S
  <2>1. 1 .. 0 = {} /\ FirstOf(o, 0) = {} /\ 0 \in 0 .. n
    BY DEF FirstOf
  <2>2. F[0] = f[1 .. 0] /\ G[0] = f[FirstOf(o, 0)]
    <3>1. F[0] = 0 /\ G[0] = 0
      BY DEF AddsUp
    <3> QED BY <1>1, <2>1, <3>1, Zenon
  <2> QED BY <2>1, <2>2
<1>3. ASSUME NEW k \in 0 .. n - 1, k \in S PROVE k + 1 \in S
  <2>1. k + 1 \in 1 .. n /\ k + 1 \in 0 .. n
    OBVIOUS
  <2>2. F[k + 1] = F[k] + q[k + 1] /\ G[k + 1] = G[k] + q[o[k + 1]]
    BY <2>1 DEF AddsUp, Reorders
  <2>3. F[k] = f[1 .. k] /\ G[k] = f[FirstOf(o, k)]
    BY <1>3
  <2>4. 1 .. k \in SUBSET (1 .. n) /\ k + 1 \in (1 .. n) \ (1 .. k)
        /\ 1 .. k + 1 = (1 .. k) \union {k + 1}
    <3>1. 1 .. k \in SUBSET (1 .. n) /\ k + 1 \in (1 .. n) \ (1 .. k)
      BY <2>1
    <3>2. 1 .. k + 1 = (1 .. k) \union {k + 1}
      BY <2>1
    <3> QED BY <3>1, <3>2
  <2>5. FirstOf(o, k) \in SUBSET (1 .. n) /\ o[k + 1] \in (1 .. n) \ FirstOf(o, k)
        /\ FirstOf(o, k + 1) = FirstOf(o, k) \union {o[k + 1]}
    <3>1. \A i \in 1 .. k : i \in 1 .. n /\ i # k + 1
      BY <2>1
    <3>2. FirstOf(o, k) \in SUBSET (1 .. n)
      BY <1>0, <3>1 DEF FirstOf
    <3>3. o[k + 1] \in (1 .. n) \ FirstOf(o, k)
      BY <1>0, <2>1, <3>1 DEF FirstOf, OneToOne
    <3>4. FirstOf(o, k + 1) = FirstOf(o, k) \union {o[k + 1]}
      <4>1. \A i : i \in 1 .. k + 1 <=> i \in 1 .. k \/ i = k + 1
        <5>1. 1 .. k + 1 = (1 .. k) \union {k + 1}
          BY <2>4
        <5> DEFINE A == 1 .. k + 1  B == 1 .. k  c == k + 1
        <5>2. A = B \union {c}
          BY <5>1
        <5> HIDE DEF A, B, c
        <5>3. \A i : i \in A <=> i \in B \/ i = c
          BY <5>2
        <5> QED BY <5>3 DEF A, B, c
      <4>2. \A y : y \in FirstOf(o, k + 1) <=> y \in FirstOf(o, k) \/ y = o[k + 1]
        <5>1. \A y : y \in FirstOf(o, k + 1) <=> \E i : i \in 1 .. k + 1 /\ y = o[i]
          BY Zenon DEF FirstOf
        <5>2. \A y : y \in FirstOf(o, k) <=> \E i : i \in 1 .. k /\ y = o[i]
          BY Zenon DEF FirstOf
        <5>3. ASSUME NEW y, y \in FirstOf(o, k + 1)
              PROVE  y \in FirstOf(o, k) \/ y = o[k + 1]
          <6>1. PICK i : i \in 1 .. k + 1 /\ y = o[i]
            BY <5>1, <5>3, Zenon
          <6> QED BY <4>1, <5>2, <6>1, Zenon
        <5>4. ASSUME NEW y, y \in FirstOf(o, k) \/ y = o[k + 1]
              PROVE  y \in FirstOf(o, k + 1)
          <6>1. PICK i : (i \in 1 .. k \/ i = k + 1) /\ y = o[i]
            BY <5>2, <5>4, Zenon
          <6> QED BY <4>1, <5>1, <6>1, Zenon
        <5> QED BY <5>3, <5>4, Zenon
      <4> QED BY <4>2
    <3> QED BY <3>2, <3>3, <3>4
  <2> DEFINE s1 == 1 .. k  x1 == k + 1  s2 == FirstOf(o, k)  x2 == o[k + 1]
  <2>6. f[s1 \union {x1}] = f[s1] + q[x1] /\ f[s2 \union {x2}] = f[s2] + q[x2]
    <3>1. s1 \in SUBSET (1 .. n) /\ x1 \in (1 .. n) \ s1
          /\ s2 \in SUBSET (1 .. n) /\ x2 \in (1 .. n) \ s2
      BY <2>4, <2>5
    <3>2. \A s \in SUBSET (1 .. n) : \A x \in (1 .. n) \ s : f[s \union {x}] = f[s] + q[x]
      BY <1>1
    <3> HIDE DEF s1, x1, s2, x2
    <3> QED BY <3>1, <3>2, Zenon
  <2>7. f[1 .. k + 1] = f[1 .. k] + q[k + 1] /\ f[FirstOf(o, k + 1)] = f[FirstOf(o, k)] + q[o[k + 1]]
    BY <2>4, <2>5, <2>6, Zenon
  <2>8. F[k + 1] = f[1 .. k + 1] /\ G[k + 1] = f[FirstOf(o, k + 1)]
    BY <2>2, <2>3, <2>7, Zenon
  <2> QED BY <2>1, <2>8
<1>4. F[n] = f[1 .. n] /\ G[n] = f[FirstOf(o, n)]
  <2>1. n \in 0 .. n
    OBVIOUS
  <2>2. \A k \in 0 .. n - 1 : k \in S => k + 1 \in S
    BY <1>3
  <2>3. \A k \in 0 .. n : k \in S
    <3> HIDE DEF S
    <3> QED BY <1>2, <2>2, UpTo
  <2>4. n \in S
    <3> HIDE DEF S
    <3> QED BY <2>1, <2>3
  <2> QED BY <2>4
<1>5. FirstOf(o, n) = 1 .. n
  <2>1. \A t \in 1 .. n : \E i \in 1 .. n : o[i] = t
    BY OrderIsOnto DEF Onto
  <2>2. \A t \in 1 .. n : t \in FirstOf(o, n)
    BY <2>1 DEF FirstOf
  <2>3. \A t \in FirstOf(o, n) : t \in 1 .. n
    BY <1>0 DEF FirstOf
  <2> QED BY <2>2, <2>3
<1> QED BY <1>4, <1>5

\* What a candle says of the first k trades, whose prices and times these are.
IsCandle(price, time, k, c) ==
  /\ c.count = k
  /\ k > 0 => /\ \E e \in 1 .. k : /\ c.open = price[e] /\ c.first = time[e]
                                    /\ \A i \in 1 .. k : time[e] <= time[i]
              /\ \E e \in 1 .. k : c.high = price[e] /\ \A i \in 1 .. k : price[i] <= price[e]
              /\ \E e \in 1 .. k : c.low = price[e] /\ \A i \in 1 .. k : price[e] <= price[i]

\* What a trade adds to the net quantity, and the net of a candle.
Signed(x) == IF x.maker THEN -x.qty ELSE x.qty
NetOf(c) == IF c.count = 0 THEN 0 ELSE c.net

\* The net quantities add up to that of the candle.
HasNet(n, net, c) == \E N : AddsUp(N, n, net) /\ N[n] = NetOf(c)

LEMMA TradeTypes ==
  ASSUME NEW x \in Trade
  PROVE  x.price \in Int /\ x.time \in Int /\ Signed(x) \in Int
BY DEF Trade, Signed

LEMMA CandleTypes ==
  ASSUME NEW c \in Candles, c.count # 0
  PROVE  /\ c.count \in Nat /\ c.open \in Int /\ c.first \in Int /\ c.high \in Int
         /\ c.low \in Int /\ c.close \in Int /\ c.net \in Int
         /\ c = [count |-> c.count, open |-> c.open, first |-> c.first, high |-> c.high,
                 low |-> c.low, close |-> c.close, net |-> c.net]
BY DEF Candles, EmptyCandle

\* One more trade.
LEMMA CandleStep ==
  ASSUME NEW n \in Nat, NEW k \in 0 .. n - 1, NEW price \in Numbers(n),
         NEW time \in Numbers(n), NEW c \in Candles, NEW x \in Trade,
         x.price = price[k + 1], x.time = time[k + 1], IsCandle(price, time, k, c)
  PROVE  IsCandle(price, time, k + 1, AddTrade(c, x))
<1> DEFINE d == AddTrade(c, x)
<1>1. k + 1 \in 1 .. n /\ k \in Nat /\ k + 1 \in 1 .. k + 1 /\ 1 .. k \subseteq 1 .. k + 1
      /\ 1 .. k + 1 \subseteq 1 .. n
  OBVIOUS
<1>2. x.price \in Int /\ x.time \in Int
  BY TradeTypes
<1>3. CASE k = 0
  <2>1. c.count = 0
    BY <1>3 DEF IsCandle
  <2>2. d.count = 1 /\ d.open = price[1] /\ d.first = time[1] /\ d.high = price[1]
        /\ d.low = price[1]
    BY <1>3, <2>1 DEF AddTrade
  <2>3. 1 .. k + 1 = {1} /\ time[1] <= time[1] /\ price[1] <= price[1] /\ k + 1 = 1
    BY <1>1, <1>3 DEF Numbers
  <2> HIDE DEF d
  <2>4. \E e \in 1 .. k + 1 : /\ d.open = price[e] /\ d.first = time[e]
                               /\ \A i \in 1 .. k + 1 : time[e] <= time[i]
    BY <2>2, <2>3
  <2>5. /\ \E e \in 1 .. k + 1 : d.high = price[e] /\ \A i \in 1 .. k + 1 : price[i] <= price[e]
        /\ \E e \in 1 .. k + 1 : d.low = price[e] /\ \A i \in 1 .. k + 1 : price[e] <= price[i]
    BY <2>2, <2>3
  <2>6. IsCandle(price, time, k + 1, d)
    BY <2>2, <2>3, <2>4, <2>5 DEF IsCandle
  <2> QED BY <2>6 DEF d
<1>4. CASE k > 0
  <2>1. c.count # 0 /\ c.count = k
    BY <1>1, <1>4 DEF IsCandle
  <2>2. c.open \in Int /\ c.first \in Int /\ c.high \in Int /\ c.low \in Int
    BY <2>1, CandleTypes
  <2>3. PICK e \in 1 .. k : /\ c.open = price[e] /\ c.first = time[e]
                             /\ \A i \in 1 .. k : time[e] <= time[i]
    BY <1>4 DEF IsCandle
  <2>4. PICK h \in 1 .. k : c.high = price[h] /\ \A i \in 1 .. k : price[i] <= price[h]
    BY <1>4 DEF IsCandle
  <2>5. PICK l \in 1 .. k : c.low = price[l] /\ \A i \in 1 .. k : price[l] <= price[i]
    BY <1>4 DEF IsCandle
  <2>6. /\ d.count = k + 1
        /\ d.open = (IF x.time < c.first THEN x.price ELSE c.open)
        /\ d.first = (IF x.time < c.first THEN x.time ELSE c.first)
        /\ d.high = (IF x.price > c.high THEN x.price ELSE c.high)
        /\ d.low = (IF x.price < c.low THEN x.price ELSE c.low)
    BY <2>1 DEF AddTrade
  <2> HIDE DEF d
  <2>7. \A i \in 1 .. k + 1 : (i \in 1 .. k \/ i = k + 1) /\ price[i] \in Int /\ time[i] \in Int
    BY <1>1 DEF Numbers
  <2>8. \E a \in 1 .. k + 1 : /\ d.open = price[a] /\ d.first = time[a]
                               /\ \A i \in 1 .. k + 1 : time[a] <= time[i]
    <3> DEFINE a == IF x.time < c.first THEN k + 1 ELSE e
    <3>1. a \in 1 .. k + 1 /\ d.open = price[a] /\ d.first = time[a]
      BY <1>1, <2>3, <2>6
    <3>2. ASSUME NEW i \in 1 .. k + 1 PROVE d.first <= time[i]
      <4>1. CASE i \in 1 .. k
        <5>1. c.first <= time[i]
          BY <2>3, <4>1
        <5> QED BY <1>2, <2>2, <2>6, <2>7, <5>1
      <4>2. CASE i = k + 1
        BY <1>2, <2>2, <2>6, <4>2
      <4> QED BY <2>7, <4>1, <4>2
    <3> HIDE DEF a
    <3> QED BY <3>1, <3>2
  <2>9. \E a \in 1 .. k + 1 : d.high = price[a] /\ \A i \in 1 .. k + 1 : price[i] <= price[a]
    <3> DEFINE a == IF x.price > c.high THEN k + 1 ELSE h
    <3>1. a \in 1 .. k + 1 /\ d.high = price[a]
      BY <1>1, <2>4, <2>6
    <3>2. ASSUME NEW i \in 1 .. k + 1 PROVE price[i] <= d.high
      <4>1. CASE i \in 1 .. k
        <5>1. price[i] <= c.high
          BY <2>4, <4>1
        <5> QED BY <1>2, <2>2, <2>6, <2>7, <5>1
      <4>2. CASE i = k + 1
        BY <1>2, <2>2, <2>6, <4>2
      <4> QED BY <2>7, <4>1, <4>2
    <3> HIDE DEF a
    <3> QED BY <3>1, <3>2
  <2>10. \E a \in 1 .. k + 1 : d.low = price[a] /\ \A i \in 1 .. k + 1 : price[a] <= price[i]
    <3> DEFINE a == IF x.price < c.low THEN k + 1 ELSE l
    <3>1. a \in 1 .. k + 1 /\ d.low = price[a]
      BY <1>1, <2>5, <2>6
    <3>2. ASSUME NEW i \in 1 .. k + 1 PROVE d.low <= price[i]
      <4>1. CASE i \in 1 .. k
        <5>1. c.low <= price[i]
          BY <2>5, <4>1
        <5> QED BY <1>2, <2>2, <2>6, <2>7, <5>1
      <4>2. CASE i = k + 1
        BY <1>2, <2>2, <2>6, <4>2
      <4> QED BY <2>7, <4>1, <4>2
    <3> HIDE DEF a
    <3> QED BY <3>1, <3>2
  <2>11. IsCandle(price, time, k + 1, d)
    BY <2>6, <2>8, <2>9, <2>10 DEF IsCandle
  <2> QED BY <2>11 DEF d
<1> QED BY <1>1, <1>3, <1>4

LEMMA NetGrows ==
  ASSUME NEW c \in Candles, NEW x \in Trade
  PROVE  NetOf(AddTrade(c, x)) = NetOf(c) + Signed(x) /\ AddTrade(c, x).count # 0
<1>1. Signed(x) \in Int
  BY TradeTypes
<1>2. CASE c.count = 0
  BY <1>1, <1>2 DEF NetOf, AddTrade, Signed
<1>3. CASE c.count # 0
  <2>1. c.count \in Nat /\ c.net \in Int
    BY <1>3, CandleTypes
  <2> QED BY <1>1, <1>3, <2>1 DEF NetOf, AddTrade, Signed
<1> QED BY <1>2, <1>3

\* The columns of some trades.
Prices(trades) == [i \in DOMAIN trades |-> trades[i].price]
Times(trades) == [i \in DOMAIN trades |-> trades[i].time]
Nets(trades) == [i \in DOMAIN trades |-> Signed(trades[i])]

LEMMA ColumnTypes ==
  ASSUME NEW trades \in Seq(Trade), NEW n, n = Len(trades)
  PROVE  /\ n \in Nat /\ DOMAIN trades = 1 .. n /\ \A i \in 1 .. n : trades[i] \in Trade
         /\ Prices(trades) \in Numbers(n) /\ Times(trades) \in Numbers(n)
         /\ Nets(trades) \in Numbers(n)
         /\ \A i \in 1 .. n : /\ Prices(trades)[i] = trades[i].price
                              /\ Times(trades)[i] = trades[i].time
                              /\ Nets(trades)[i] = Signed(trades[i])
<1>1. n \in Nat /\ DOMAIN trades = 1 .. n /\ \A i \in 1 .. n : trades[i] \in Trade
  OBVIOUS
<1>2. \A i \in 1 .. n : trades[i].price \in Int /\ trades[i].time \in Int
                        /\ Signed(trades[i]) \in Int
  BY <1>1, TradeTypes
<1> QED BY <1>1, <1>2 DEF Prices, Times, Nets, Numbers

\* A candle of trades opens with the earliest one, lies between the least and the
\* greatest price, and has their net quantity.
LEMMA CandleSays ==
  ASSUME NEW trades \in Seq(Trade), NEW n, n = Len(trades)
  PROVE  /\ Candle(trades) \in Candles
         /\ IsCandle(Prices(trades), Times(trades), n, Candle(trades))
         /\ HasNet(n, Nets(trades), Candle(trades))
<1> DEFINE price == Prices(trades)
           time == Times(trades)
           net == Nets(trades)
<1>1. /\ n \in Nat /\ DOMAIN trades = 1 .. n /\ \A i \in 1 .. n : trades[i] \in Trade
      /\ price \in Numbers(n) /\ time \in Numbers(n)
      /\ net \in Numbers(n)
      /\ \A i \in 1 .. n : /\ price[i] = trades[i].price
                           /\ time[i] = trades[i].time
                           /\ net[i] = Signed(trades[i])
  BY ColumnTypes
<1> HIDE DEF price, time, net
<1>2. PICK F : /\ Through(F, n, Candles, EmptyCandle)
               /\ \A k \in 0 .. n - 1 : F[k + 1] = AddTrade(F[k], trades[k + 1])
               /\ F[n] = Candle(trades)
  BY TradesAreFolded
<1>3. F \in [0 .. n -> Candles] /\ F[0] = EmptyCandle
  BY <1>2 DEF Through
<1>4. \A k \in 0 .. n - 1 : k \in 0 .. n /\ k + 1 \in 0 .. n /\ k + 1 \in 1 .. n
  BY <1>1
<1>5. Candle(trades) \in Candles
  <2>1. n \in 0 .. n
    BY <1>1
  <2> QED BY <1>2, <1>3, <2>1
<1>6. IsCandle(price, time, n, Candle(trades))
  <2> DEFINE S == {k \in 0 .. n : IsCandle(price, time, k, F[k])}
  <2>1. 0 \in S
    <3>1. IsCandle(price, time, 0, F[0])
      BY <1>3 DEF IsCandle, EmptyCandle
    <3> QED BY <1>1, <3>1
  <2>2. ASSUME NEW k \in 0 .. n - 1, k \in S PROVE k + 1 \in S
    <3>1. /\ F[k] \in Candles /\ trades[k + 1] \in Trade
          /\ trades[k + 1].price = price[k + 1] /\ trades[k + 1].time = time[k + 1]
      BY <1>1, <1>3, <1>4
    <3>2. IsCandle(price, time, k, F[k])
      BY <2>2
    <3>3. IsCandle(price, time, k + 1, AddTrade(F[k], trades[k + 1]))
      BY <1>1, <3>1, <3>2, CandleStep
    <3> QED BY <1>2, <1>4, <3>3
  <2>3. \A k \in 0 .. n - 1 : k \in S => k + 1 \in S
    BY <2>2
  <2>4. \A k \in 0 .. n : k \in S
    <3> HIDE DEF S
    <3> QED BY <1>1, <2>1, <2>3, UpTo
  <2>5. n \in S
    <3> HIDE DEF S
    <3> QED BY <1>1, <2>4
  <2> QED BY <1>2, <2>5
<1>7. HasNet(n, net, Candle(trades))
  <2> DEFINE N == [k \in 0 .. n |-> NetOf(F[k])]
  <2>1. N[0] = 0
    BY <1>1, <1>3 DEF NetOf, EmptyCandle
  <2>2. ASSUME NEW k \in 0 .. n - 1 PROVE N[k + 1] = N[k] + net[k + 1]
    <3>1. F[k] \in Candles /\ trades[k + 1] \in Trade /\ net[k + 1] = Signed(trades[k + 1])
      BY <1>1, <1>3, <1>4
    <3>2. NetOf(AddTrade(F[k], trades[k + 1])) = NetOf(F[k]) + Signed(trades[k + 1])
      BY <3>1, NetGrows
    <3>3. N[k + 1] = NetOf(F[k + 1]) /\ N[k] = NetOf(F[k])
      BY <1>4
    <3> QED BY <1>2, <3>1, <3>2, <3>3
  <2>3. N[n] = NetOf(Candle(trades))
    BY <1>1, <1>2
  <2> HIDE DEF N
  <2> QED BY <2>1, <2>2, <2>3 DEF AddsUp, HasNet
<1> QED BY <1>5, <1>6, <1>7 DEF price, time, net

\* Two candles that open with the only earliest trade are the same, but for the close.
LEMMA SameCandle ==
  ASSUME NEW n \in Nat, n # 0, NEW o \in Places(n), Onto(o, n),
         NEW price \in Numbers(n), NEW time \in Numbers(n), OneToOne(time, n),
         NEW price2, NEW time2, Reorders(price2, price, o, n), Reorders(time2, time, o, n),
         NEW c \in Candles, NEW d \in Candles,
         IsCandle(price, time, n, c), IsCandle(price2, time2, n, d)
  PROVE  d.count = c.count /\ d.open = c.open /\ d.first = c.first /\ d.high = c.high
         /\ d.low = c.low
<1>1. d.count = c.count
  BY DEF IsCandle
<1>2. PICK e \in 1 .. n : /\ c.open = price[e] /\ c.first = time[e]
                           /\ \A i \in 1 .. n : time[e] <= time[i]
  BY DEF IsCandle
<1>3. PICK h \in 1 .. n : c.high = price[h] /\ \A i \in 1 .. n : price[i] <= price[h]
  BY DEF IsCandle
<1>4. PICK l \in 1 .. n : c.low = price[l] /\ \A i \in 1 .. n : price[l] <= price[i]
  BY DEF IsCandle
<1>5. PICK e2 \in 1 .. n : /\ d.open = price2[e2] /\ d.first = time2[e2]
                            /\ \A i \in 1 .. n : time2[e2] <= time2[i]
  BY DEF IsCandle
<1>6. PICK h2 \in 1 .. n : d.high = price2[h2] /\ \A i \in 1 .. n : price2[i] <= price2[h2]
  BY DEF IsCandle
<1>7. PICK l2 \in 1 .. n : d.low = price2[l2] /\ \A i \in 1 .. n : price2[l2] <= price2[i]
  BY DEF IsCandle
<1>8. d.open = c.open /\ d.first = c.first
  <2>1. PICK i \in 1 .. n : o[i] = e
    BY DEF Onto
  <2>2. o[e2] \in 1 .. n /\ d.open = price[o[e2]] /\ d.first = time[o[e2]]
    BY <1>5 DEF Reorders, Places
  <2>3. time2[e2] <= time2[i] /\ time2[i] = time[e] /\ time2[e2] = time[o[e2]]
    BY <1>5, <2>1 DEF Reorders
  <2>4. time[e] <= time[o[e2]] /\ time[e] \in Int /\ time[o[e2]] \in Int
    BY <1>2, <2>2 DEF Numbers
  <2>5. time[o[e2]] = time[e]
    BY <2>3, <2>4
  <2>6. o[e2] = e
    BY <2>2, <2>5 DEF OneToOne
  <2> QED BY <1>2, <2>2, <2>6
<1>9. d.high = c.high
  <2>1. PICK i \in 1 .. n : o[i] = h
    BY DEF Onto
  <2>2. o[h2] \in 1 .. n /\ d.high = price[o[h2]]
    BY <1>6 DEF Reorders, Places
  <2>3. price2[i] <= price2[h2] /\ price2[i] = price[h] /\ price2[h2] = price[o[h2]]
    BY <1>6, <2>1 DEF Reorders
  <2>4. price[o[h2]] <= price[h] /\ price[h] \in Int /\ price[o[h2]] \in Int
    BY <1>3, <2>2 DEF Numbers
  <2> QED BY <1>3, <2>2, <2>3, <2>4
<1>10. d.low = c.low
  <2>1. PICK i \in 1 .. n : o[i] = l
    BY DEF Onto
  <2>2. o[l2] \in 1 .. n /\ d.low = price[o[l2]]
    BY <1>7 DEF Reorders, Places
  <2>3. price2[l2] <= price2[i] /\ price2[i] = price[l] /\ price2[l2] = price[o[l2]]
    BY <1>7, <2>1 DEF Reorders
  <2>4. price[l] <= price[o[l2]] /\ price[l] \in Int /\ price[o[l2]] \in Int
    BY <1>4, <2>2 DEF Numbers
  <2> QED BY <1>4, <2>2, <2>3, <2>4
<1> QED BY <1>1, <1>8, <1>9, <1>10

\* A candle but for its close.
LEMMA WithoutClose ==
  ASSUME NEW c \in Candles, c.count # 0
  PROVE  [c EXCEPT !.close = 0] =
           [count |-> c.count, open |-> c.open, first |-> c.first, high |-> c.high,
            low |-> c.low, close |-> 0, net |-> c.net]
BY DEF Candles, EmptyCandle

\* A candle but for its close.
Settled(c) == IF c.count = 0 THEN c ELSE [c EXCEPT !.close = 0]

\* Columns and their reordering have the same count, extremes, sum and earliest
\* price.
LEMMA CandlesAgree ==
  ASSUME NEW n \in Nat, NEW o \in Places(n), OneToOne(o, n),
         NEW price \in Numbers(n), NEW time \in Numbers(n), OneToOne(time, n),
         NEW net \in Numbers(n), NEW price2, NEW time2, NEW net2,
         Reorders(price2, price, o, n), Reorders(time2, time, o, n), Reorders(net2, net, o, n),
         NEW c \in Candles, NEW d \in Candles,
         IsCandle(price, time, n, c), IsCandle(price2, time2, n, d),
         HasNet(n, net, c), HasNet(n, net2, d)
  PROVE  Settled(d) = Settled(c)
<1>1. NetOf(d) = NetOf(c)
  <2>1. PICK N : AddsUp(N, n, net) /\ N[n] = NetOf(c)
    BY DEF HasNet
  <2>2. PICK M : AddsUp(M, n, net2) /\ M[n] = NetOf(d)
    BY DEF HasNet
  <2>3. N[n] = M[n]
    BY <2>1, <2>2, SumsAgree
  <2> QED BY <2>1, <2>2, <2>3
<1>2. c.count = n /\ d.count = n
  BY DEF IsCandle
<1>3. CASE n = 0
  <2>1. \A k \in Candles : k.count = 0 => k = EmptyCandle
    BY DEF Candles
  <2> QED BY <1>2, <1>3, <2>1 DEF Settled
<1>4. CASE n # 0
  <2>2. Onto(o, n)
    BY OrderIsOnto
  <2>3. d.count = c.count /\ d.open = c.open /\ d.first = c.first /\ d.high = c.high
        /\ d.low = c.low
    BY <1>4, <2>2, SameCandle
  <2>4. d.net = c.net
    BY <1>1, <1>2, <1>4 DEF NetOf
  <2>5. c.count # 0 /\ d.count # 0
    BY <1>2, <1>4
  <2>6. [d EXCEPT !.close = 0] = [c EXCEPT !.close = 0]
    <3>1. [c EXCEPT !.close = 0] =
            [count |-> c.count, open |-> c.open, first |-> c.first, high |-> c.high,
             low |-> c.low, close |-> 0, net |-> c.net]
      BY <2>5, WithoutClose
    <3>2. [d EXCEPT !.close = 0] =
            [count |-> d.count, open |-> d.open, first |-> d.first, high |-> d.high,
             low |-> d.low, close |-> 0, net |-> d.net]
      BY <2>5, WithoutClose
    <3> QED BY <2>3, <2>4, <3>1, <3>2, Zenon
  <2> QED BY <2>5, <2>6 DEF Settled
<1> QED BY <1>3, <1>4

\* But for the close, the order of trades with times of their own does not matter.
LEMMA CandleOfAnyOrder ==
  ASSUME NEW trades \in Seq(Trade), NEW n, n = Len(trades), OneToOne(Times(trades), n),
         NEW o \in Places(n), OneToOne(o, n),
         NEW p \in Seq(Trade), Len(p) = n, Reorders(p, trades, o, n)
  PROVE  Settled(Candle(p)) = Settled(Candle(trades))
<1> DEFINE c == Candle(trades)
           d == Candle(p)
<1>1. /\ n \in Nat
      /\ Prices(trades) \in Numbers(n) /\ Times(trades) \in Numbers(n)
      /\ Nets(trades) \in Numbers(n)
      /\ \A i \in 1 .. n : /\ Prices(trades)[i] = trades[i].price
                           /\ Times(trades)[i] = trades[i].time
                           /\ Nets(trades)[i] = Signed(trades[i])
  BY ColumnTypes
<1>2. \A i \in 1 .. n : /\ Prices(p)[i] = p[i].price /\ Times(p)[i] = p[i].time
                        /\ Nets(p)[i] = Signed(p[i])
  BY ColumnTypes
<1>3. \A i \in 1 .. n : o[i] \in 1 .. n /\ p[i] = trades[o[i]]
  BY DEF Reorders, Places
<1>4. /\ Reorders(Prices(p), Prices(trades), o, n)
      /\ Reorders(Times(p), Times(trades), o, n)
      /\ Reorders(Nets(p), Nets(trades), o, n)
  <2>1. \A i \in 1 .. n : Prices(p)[i] = Prices(trades)[o[i]]
    BY <1>1, <1>2, <1>3
  <2>2. \A i \in 1 .. n : Times(p)[i] = Times(trades)[o[i]]
    BY <1>1, <1>2, <1>3
  <2>3. \A i \in 1 .. n : Nets(p)[i] = Nets(trades)[o[i]]
    BY <1>1, <1>2, <1>3
  <2> QED BY <2>1, <2>2, <2>3 DEF Reorders
<1>5. /\ c \in Candles /\ IsCandle(Prices(trades), Times(trades), n, c)
      /\ HasNet(n, Nets(trades), c)
  BY CandleSays
<1>6. /\ d \in Candles /\ IsCandle(Prices(p), Times(p), n, d)
      /\ HasNet(n, Nets(p), d)
  BY CandleSays
<1> HIDE DEF c, d
<1>7. Settled(d) = Settled(c)
  BY <1>1, <1>4, <1>5, <1>6, CandlesAgree
<1> QED BY <1>7 DEF c, d

-----------------------------------------------------------------------------
(* The calls: their arguments are among the inputs, for which the constants  *)
(* assume their types, and what is returned is the value of the function.    *)

KnownJob ==
  \/ job \in Jobs("flow", FlowJobs)
  \/ job \in Jobs("windows", WindowJobs)
  \/ job \in Jobs("threshold", CalibrationJobs)
  \/ job \in Jobs("health", HealthJobs)
  \/ job \in Jobs("candle", CandleJobs)
  \/ job \in Jobs("news", NewsJobs)
  \/ job \in Jobs("weights", WeightJobs)

Returned ==
  /\ result.of \in {"none", job.of}
  /\ result.of = "flow" =>
       result.value =
         FlowRow(job.in.network, job.in.symbol, job.in.transfers, job.in.answered)
  /\ result.of = "windows" =>
       result.value = [windows |-> slice_continuous_windows(job.in.rows, job.in.n),
                       labels |-> align_labels_to_sequences(job.in.rows, job.in.n),
                       latest |-> LatestWindow(job.in.rows, job.in.n)]
  /\ result.of = "threshold" => result.value = Calibrate(job.in.scores, job.in.labels)
  /\ result.of = "health" =>
       result.value = calculate_deterministic_health_score(job.in.market)
  /\ result.of = "candle" => result.value = Candle(job.in.trades)
  /\ result.of = "news" => result.value = NewsRow(job.in.scores)
  /\ result.of = "weights" => result.value = calculate_weighted_sentiment(job.in.items)

CallInv == KnownJob /\ Returned

\* The invariant of the calls, which Return keeps.
LEMMA CallInvHolds == Calls => []CallInv
<1>1. AnyJob => CallInv
  BY DEF AnyJob, CallInv, KnownJob, Returned, Pending
<1>2. CallInv /\ [AnyCall]_call => CallInv'
  <2> SUFFICES ASSUME CallInv, [AnyCall]_call PROVE CallInv'
    OBVIOUS
  <2>1. CASE UNCHANGED call
    BY <2>1 DEF call, CallInv, KnownJob, Returned
  <2>2. ASSUME job' = job PROVE KnownJob'
    BY <2>2 DEF CallInv, KnownJob
  <2>3. CASE AggregateFlows
    BY <2>2, <2>3 DEF CallInv, Returned, AggregateFlows, Call, Return
  <2>4. CASE CutWindows
    BY <2>2, <2>4 DEF CallInv, Returned, CutWindows, Call, Return
  <2>5. CASE CalibrateThreshold
    BY <2>2, <2>5 DEF CallInv, Returned, CalibrateThreshold, Call, Return
  <2>6. CASE ScoreHealth
    BY <2>2, <2>6 DEF CallInv, Returned, ScoreHealth, Call, Return
  <2>7. CASE BuildCandle
    BY <2>2, <2>7 DEF CallInv, Returned, BuildCandle, Call, Return
  <2>8. CASE AddNews
    BY <2>2, <2>8 DEF CallInv, Returned, AddNews, Call, Return
  <2>9. CASE WeighTweets
    BY <2>2, <2>9 DEF CallInv, Returned, WeighTweets, Call, Return
  <2> QED BY <2>1, <2>3, <2>4, <2>5, <2>6, <2>7, <2>8, <2>9 DEF AnyCall
<1> QED BY <1>1, <1>2, PTL DEF Calls

\* The arguments of a call are of the types its function expects.
LEMMA ArgumentsAreTyped ==
  ASSUME KnownJob
  PROVE  /\ job.of = "flow" => job.in \in FlowJobs
         /\ job.of = "windows" => job.in \in WindowJobs
         /\ job.of = "threshold" => job.in \in CalibrationJobs
         /\ job.of = "health" => job.in \in HealthJobs
         /\ job.of = "candle" => job.in \in CandleJobs
         /\ job.of = "news" => job.in \in NewsJobs
         /\ job.of = "weights" => job.in \in WeightJobs
BY DEF KnownJob, Jobs

\* On an EVM network a row of flows never says more than what crossed between the
\* exchanges and the rest in its bucket, and exactly that for a direction that was
\* answered in full, with readable times: _poll_once and _aggregate_by_symbol
\* lose and invent nothing, for any transfers and any limit.
THEOREM FlowRowsAreExact == Calls => []FlowRowIsExact
<1>1. CallInv => FlowRowIsExact
  <2> SUFFICES ASSUME CallInv, result.of = "flow", job.in.network # "solana",
                      NEW direction \in Directions
               PROVE  LET xs == job.in.transfers
                          stored == IF direction = "inflow" THEN result.value.inflow
                                    ELSE result.value.outflow
                          found == Matching(xs, direction)
                      IN /\ stored <= Flow(job.in.symbol, xs, direction)
                         /\ direction \in job.in.answered /\ Cardinality(found) <= FlowLimit
                              /\ (\A i \in found : xs[i].timed)
                            => stored = Flow(job.in.symbol, xs, direction)
    BY DEF FlowRowIsExact
  <2>1. job.of = "flow" /\ KnownJob
        /\ result.value = FlowRow(job.in.network, job.in.symbol, job.in.transfers,
                                  job.in.answered)
    BY DEF CallInv, Returned
  <2>2. job.in \in FlowJobs
    BY <2>1, ArgumentsAreTyped
  <2>3. job.in.transfers \in Seq(Transfer)
    BY <2>2, JobsAssumption
  <2> QED BY <2>1, <2>3, FlowIsExact
<1> QED BY <1>1, CallInvHolds, PTL

\* Over a table with gaps, slice_continuous_windows cuts exactly the runs of
\* consecutive buckets, align_labels_to_sequences gives each the label of its own
\* last row, and the engine's latest window is one that training would cut at the
\* end of the table, if there is one: for any increasing buckets and any length.
THEOREM WindowsOfCallsAgree == Calls => []WindowsAgree
<1>1. CallInv => WindowsAgree
  <2> SUFFICES ASSUME CallInv, result.of = "windows" PROVE WindowsAgree
    BY DEF WindowsAgree
  <2> DEFINE rows == job.in.rows
             windows == result.value.windows
             labels == result.value.labels
             latest == result.value.latest
             atEnd == {i \in DOMAIN windows : Last(windows[i]) = Last(rows)}
  <2>1. job.of = "windows" /\ KnownJob
        /\ windows = slice_continuous_windows(rows, job.in.n)
        /\ labels = align_labels_to_sequences(rows, job.in.n)
        /\ latest = LatestWindow(rows, job.in.n)
    BY DEF CallInv, Returned
  <2>2. job.in \in WindowJobs
    BY <2>1, ArgumentsAreTyped
  <2>3. rows \in Table /\ job.in.n \in Nat \ {0}
    BY <2>2, JobsAssumption DEF Table, Row
  <2>4. atEnd = {i \in DOMAIN windows : Last(windows[i]) = Last(rows)}
    OBVIOUS
  <2> HIDE DEF windows, labels, latest, rows, atEnd
  <2>5. /\ windows = Runs(rows, job.in.n)
        /\ labels = [i \in DOMAIN windows |-> Last(windows[i]).label]
        /\ IF latest = <<>> THEN atEnd = {} ELSE \E i \in atEnd : windows[i] = latest
    BY <2>1, <2>3, <2>4, WindowsOfTableAgree
  <2> QED BY <2>5 DEF WindowsAgree, windows, labels, latest, rows, atEnd
<1> QED BY <1>1, CallInvHolds, PTL

\* No other cut of the training windows tells the labels apart better than what
\* calculate_optimal_threshold returns, with any number of windows and with
\* windows of one class only, as long as no two windows have the same score.
THEOREM CalibrationIsBest == Calls => []ThresholdIsBest
<1>1. CallInv => ThresholdIsBest
  <2> SUFFICES ASSUME CallInv, result.of = "threshold" PROVE ThresholdIsBest
    BY DEF ThresholdIsBest
  <2> DEFINE samples == Samples(job.in.scores, job.in.labels)
             cuts == {samples[i].score : i \in DOMAIN samples}
  <2>1. job.of = "threshold" /\ KnownJob
        /\ result.value = Calibrate(job.in.scores, job.in.labels)
    BY DEF CallInv, Returned
  <2>2. job.in \in CalibrationJobs
    BY <2>1, ArgumentsAreTyped
  <2>3. job.in.scores \in Seq(Int) /\ job.in.labels \in Seq({0, 1}) /\ IsInjective(job.in.scores)
    BY <2>2, JobsAssumption
  <2>4. \A t \in cuts \union {c + 1 : c \in cuts} :
          Informedness(samples, t) <= Informedness(samples, result.value)
    BY <2>1, <2>3, CalibratedIsBest
  <2> QED BY <2>4 DEF ThresholdIsBest
<1> QED BY <1>1, CallInvHolds, PTL

\* Whatever gets better for a market never lowers the result of
\* calculate_deterministic_health_score, through every branch of it and for any
\* numbers, unless the threshold is so small that the payload rounds it to zero.
THEOREM HealthIsAlwaysMonotone == Calls => []HealthIsMonotone
<1>1. CallInv => HealthIsMonotone
  <2> SUFFICES ASSUME CallInv, result.of = "health", Rounded(job.in.market.threshold) > 0,
                      NEW m \in Better(job.in.market)
               PROVE  result.value <= calculate_deterministic_health_score(m)
    BY DEF HealthIsMonotone
  <2>1. job.of = "health" /\ KnownJob
        /\ result.value = calculate_deterministic_health_score(job.in.market)
    BY DEF CallInv, Returned
  <2>2. job.in \in HealthJobs
    BY <2>1, ArgumentsAreTyped
  <2>3. job.in.market \in Market
    BY <2>2, JobsAssumption
  <2> QED BY <2>1, <2>3, HealthScoreIsMonotone
<1> QED BY <1>1, CallInvHolds, PTL

\* How events add up to a row does not depend on the order in which
\* CandleAccumulator.add sees the trades (the close apart); the upsert of a news row
\* keeps its mean; and weights of any kind keep the average of tweets within their
\* scores: for any number of events.
THEOREM RowsAlwaysAddUp == Calls => []RowsAddUp
<1>1. CallInv => RowsAddUp
  <2> SUFFICES ASSUME CallInv PROVE RowsAddUp
    OBVIOUS
  <2>1. ASSUME result.of = "candle",
               NEW o \in [DOMAIN job.in.trades -> DOMAIN job.in.trades],
               \A i, j \in DOMAIN job.in.trades : o[i] = o[j] => i = j,
               \A i, j \in DOMAIN job.in.trades :
                 job.in.trades[i].time = job.in.trades[j].time => i = j
        PROVE  Settled(Candle([i \in DOMAIN job.in.trades |-> job.in.trades[o[i]]])) =
               Settled(result.value)
    <3> DEFINE trades == job.in.trades
               n == Len(trades)
               p == [i \in DOMAIN trades |-> trades[o[i]]]
    <3>1. job.of = "candle" /\ KnownJob /\ result.value = Candle(trades)
      BY <2>1 DEF CallInv, Returned
    <3>2. job.in \in CandleJobs
      BY <3>1, ArgumentsAreTyped
    <3>3. trades \in Seq(Trade)
      BY <3>2, JobsAssumption
    <3>4. o \in [DOMAIN trades -> DOMAIN trades] /\ \A i, j \in DOMAIN trades : o[i] = o[j] => i = j
      BY <2>1
    <3>5. \A i, j \in DOMAIN trades : trades[i].time = trades[j].time => i = j
      BY <2>1
    <3> HIDE DEF trades
    <3>6. n \in Nat /\ DOMAIN trades = 1 .. n
      BY <3>3
    <3>7. \A i \in 1 .. n : trades[o[i]] \in Trade
      BY <3>3, <3>4, <3>6
    <3>8. p \in Seq(Trade) /\ Len(p) = n /\ \A i \in 1 .. n : p[i] = trades[o[i]]
      BY <3>6, <3>7
    <3> HIDE DEF p
    <3>9. o \in Places(n) /\ OneToOne(o, n) /\ Reorders(p, trades, o, n)
      BY <3>4, <3>6, <3>8 DEF Places, OneToOne, Reorders
    <3>10. OneToOne(Times(trades), n)
      BY <3>5, <3>6 DEF OneToOne, Times
    <3>11. Settled(Candle(p)) = Settled(Candle(trades))
      BY <3>3, <3>8, <3>9, <3>10, CandleOfAnyOrder
    <3> QED BY <3>1, <3>11 DEF p, trades
  <2>2. ASSUME result.of = "news"
        PROVE  LET row == result.value
               IN /\ row.count = Len(job.in.scores)
                  /\ row.sum * row.count = row.over * SumOf(job.in.scores)
                  /\ row.positive + row.negative + row.neutral = row.count
    <3>1. job.of = "news" /\ KnownJob /\ result.value = NewsRow(job.in.scores)
      BY <2>2 DEF CallInv, Returned
    <3>2. job.in \in NewsJobs
      BY <3>1, ArgumentsAreTyped
    <3>3. job.in.scores \in Seq(Int)
      BY <3>2, JobsAssumption
    <3> QED BY <3>1, <3>3, NewsIsAverage
  <2>3. ASSUME result.of = "weights"
        PROVE  LET scores == {job.in.items[i].score : i \in DOMAIN job.in.items}
               IN /\ result.value.total >= 0
                  /\ scores # {} =>
                       /\ Min(scores) * result.value.total <= result.value.weighted
                       /\ result.value.weighted <= Max(scores) * result.value.total
    <3>1. job.of = "weights" /\ KnownJob
          /\ result.value = calculate_weighted_sentiment(job.in.items)
      BY <2>3 DEF CallInv, Returned
    <3>2. job.in \in WeightJobs
      BY <3>1, ArgumentsAreTyped
    <3>3. job.in.items \in Seq(Tweet)
      BY <3>2, JobsAssumption
    <3> QED BY <3>1, <3>3, WeightsKeepBounds
  <2> QED BY <2>1, <2>2, <2>3 DEF RowsAddUp, Settled
<1> QED BY <1>1, CallInvHolds, PTL
=============================================================================
