--------------------------- MODULE TweetCursorProofs ---------------------------
(***************************************************************************)
(* TweetCursor for any coins, numbers of events, page sizes and faults.    *)
(***************************************************************************)
EXTENDS TweetCursor, TLAPS

\* Nothing is polled or added that was not captured.
Bounded ==
  \A s \in Symbols : cursor[s] <= captured[s] /\ scored[s] \subseteq 1 .. captured[s]

\* What _poll_events has in its locals: before the first page nothing, then as
\* many full pages as it has read, none of which held the cursor's event.
PollLocals ==
  phase \in {"polling", "scoring"} =>
    /\ poll.symbol \in monitors
    /\ poll.below <= poll.top
    /\ poll.top <= captured[poll.symbol]
    /\ phase = "polling" =>
         /\ poll.top = poll.below + poll.page * PageSize
         /\ poll.page = 0 => poll.top = 0
         /\ poll.page # 0 => cursor[poll.symbol] <= poll.below

\* The events added are behind the cursor, but for the exposed ones.
Guarded(s) == scored[s] \subseteq 1 .. cursor[s] \union exposed[s]

CursorGuards ==
  /\ phase \in Loop => todo \subseteq monitors /\ \A s \in monitors : Guarded(s)
  /\ phase = "forward" => \A s \in monitors \ todo : Guarded(s)

\* What is being scored was not added before, unless it is exposed, and will be
\* guarded when it has been added.
BatchIsNew ==
  phase = "scoring" =>
    /\ New \intersect scored[poll.symbol] \subseteq exposed[poll.symbol]
    /\ New \subseteq 1 .. cursor[poll.symbol] \union exposed[poll.symbol]

\* The finally clause leaves the monitors it has come to paused.
PausedSoFar ==
  phase = "pausing" =>
    \A s \in monitors \ (todo \union pauseFailed) : server[s] # "active"

Inv ==
  /\ TypeOK
  /\ Bounded
  /\ PollLocals
  /\ CursorGuards
  /\ BatchIsNew
  /\ TwiceOnlyAfterFailure
  /\ PausedSoFar
  /\ StoppedMeansPaused

-----------------------------------------------------------------------------
(* Operators.                                                              *)

USE DEF api, history

LEMMA PageFacts ==
  ASSUME NEW last \in Nat, NEW from \in Nat, last <= from
  PROVE  /\ Older(from) \in Nat
         /\ Older(from) <= from
         /\ ~Seen(last, from) => last <= Older(from)
         /\ Older(from) # 0 => from = Older(from) + PageSize
         /\ Older(from) = from => from = 0
BY ConstantsAssumption DEF Older, Seen

LEMMA OnePageMore == \A p, n \in Nat : (p + 1) * n = p * n + n
OBVIOUS

LEMMA NoPollTyped ==
  /\ NoPoll \in [symbol : Symbols, top : Nat, below : Nat, page : Nat]
  /\ NoPoll.page = 0
BY ConstantsAssumption DEF NoPoll

-----------------------------------------------------------------------------
(* The initial states and each action.                                     *)

LEMMA InitInv == Init => Inv
BY ConstantsAssumption, NoPollTyped
DEF Init, Inv, TypeOK, Bounded, PollLocals, CursorGuards, BatchIsNew,
    TwiceOnlyAfterFailure, PausedSoFar, StoppedMeansPaused, Phase, Loop, Ended,
    Zero, Nothing

\* Outside the loop and the finally clause only types and bounds are at stake.
LEMMA SetupInv ==
  ASSUME Inv,
         \/ List \/ SetupRaises \/ SetupDone
         \/ \E s \in Symbols : \/ Existing(s) \/ UnpauseFails(s) \/ Create(s)
                               \/ CreateConflict(s) \/ CreateRefused(s)
                               \/ CreatedElsewhere(s)
  PROVE  Inv'
<1>1. /\ phase \in {"listing", "setup"} /\ phase' \in {"listing", "setup", "forward", "aborted"}
      /\ phase' = "forward" => todo' = monitors'
      /\ UNCHANGED <<captured, cursor, poll, history>>
  BY DEF Inv, List, SetupRaises, SetupDone, Existing, UnpauseFails, Create,
         CreateConflict, CreateRefused, CreatedElsewhere, SetUp
<1>2. TypeOK'
  BY DEF Inv, TypeOK, List, SetupRaises, SetupDone, Existing, UnpauseFails, Create,
         CreateConflict, CreateRefused, CreatedElsewhere, SetUp, Use, Activate, Phase, Ended
<1>3. /\ Bounded' /\ PollLocals' /\ CursorGuards' /\ BatchIsNew'
      /\ TwiceOnlyAfterFailure' /\ PausedSoFar' /\ StoppedMeansPaused'
  BY <1>1 DEF Inv, Bounded, PollLocals, CursorGuards, BatchIsNew, TwiceOnlyAfterFailure,
         PausedSoFar, StoppedMeansPaused, Loop
<1> QED
  BY <1>2, <1>3 DEF Inv

LEMMA FastForwardInv ==
  ASSUME Inv, NEW s \in Symbols, FastForward(s)
  PROVE  Inv'
<1>1. TypeOK' /\ Bounded'
  BY DEF Inv, TypeOK, Bounded, FastForward
<1>2. CursorGuards'
  <2>1. Guarded(s)'
    BY DEF Inv, TypeOK, Bounded, Guarded, FastForward
  <2>2. ASSUME NEW t \in Symbols, t # s, Guarded(t)
        PROVE  Guarded(t)'
    BY <2>2 DEF Inv, TypeOK, Guarded, FastForward
  <2> QED
    BY <2>1, <2>2 DEF Inv, TypeOK, CursorGuards, FastForward, Loop
<1>3. PollLocals' /\ BatchIsNew' /\ TwiceOnlyAfterFailure' /\ PausedSoFar' /\ StoppedMeansPaused'
  BY DEF Inv, PollLocals, BatchIsNew, TwiceOnlyAfterFailure, PausedSoFar,
         StoppedMeansPaused, FastForward
<1> QED
  BY <1>1, <1>2, <1>3 DEF Inv

LEMMA FastForwardFailsInv ==
  ASSUME Inv, NEW s \in Symbols, FastForwardFails(s)
  PROVE  Inv'
<1>1. TypeOK' /\ Bounded'
  BY DEF Inv, TypeOK, Bounded, FastForwardFails
<1>2. \A t \in Symbols : exposed[t] \subseteq exposed'[t]
  BY DEF Inv, TypeOK, FastForwardFails
<1>3. CursorGuards'
  <2>1. Guarded(s)'
    BY DEF Inv, TypeOK, Bounded, Guarded, FastForwardFails
  <2>2. ASSUME NEW t \in Symbols, t # s, Guarded(t)
        PROVE  Guarded(t)'
    BY <1>2, <2>2 DEF Inv, TypeOK, Guarded, FastForwardFails
  <2> QED
    BY <2>1, <2>2 DEF Inv, TypeOK, CursorGuards, FastForwardFails, Loop
<1>4. TwiceOnlyAfterFailure'
  BY <1>2 DEF Inv, TwiceOnlyAfterFailure, FastForwardFails
<1>5. PollLocals' /\ BatchIsNew' /\ PausedSoFar' /\ StoppedMeansPaused'
  BY DEF Inv, PollLocals, BatchIsNew, PausedSoFar, StoppedMeansPaused, FastForwardFails
<1> QED
  BY <1>1, <1>3, <1>4, <1>5 DEF Inv

LEMMA BeginInv ==
  ASSUME Inv, StartStream \/ CycleDone \/ Wake \/ \E s \in Symbols : BeginPoll(s)
  PROVE  Inv'
<1>1. TypeOK'
  BY ConstantsAssumption DEF Inv, TypeOK, StartStream, CycleDone, Wake, BeginPoll, Phase, Loop
<1>2. UNCHANGED <<monitors, cursor, captured, history>>
  BY DEF StartStream, CycleDone, Wake, BeginPoll
<1>3. PollLocals'
  <2>1. ASSUME NEW s \in Symbols, BeginPoll(s), s \in monitors
        PROVE  PollLocals'
    BY ConstantsAssumption, <2>1 DEF Inv, TypeOK, PollLocals, BeginPoll
  <2> QED
    BY <2>1 DEF Inv, PollLocals, CursorGuards, Loop, StartStream, CycleDone, Wake, BeginPoll
<1>4. CursorGuards'
  BY <1>2 DEF Inv, CursorGuards, Guarded, StartStream, CycleDone, Wake, BeginPoll, Loop
<1>5. /\ Bounded' /\ BatchIsNew'
      /\ TwiceOnlyAfterFailure' /\ PausedSoFar' /\ StoppedMeansPaused'
  BY <1>2 DEF Inv, Bounded, BatchIsNew, TwiceOnlyAfterFailure, PausedSoFar,
         StoppedMeansPaused, StartStream, CycleDone, Wake, BeginPoll
<1> QED
  BY <1>1, <1>3, <1>4, <1>5 DEF Inv

\* What fetching a page does: the cursor's event, the end of the list or the
\* page limit ends the poll, and pages in between are full.
PageFetched(s, top, below, last) ==
  /\ s = poll.symbol /\ s \in monitors /\ s \in Symbols /\ phase = "polling"
  /\ top \in Nat /\ below \in Nat /\ last \in BOOLEAN
  /\ cursor[s] <= below /\ below <= top /\ top <= captured[s]
  /\ poll' = [symbol |-> s, top |-> top, below |-> below,
              page |-> IF last THEN poll.page ELSE poll.page + 1]
  /\ cursor' = [cursor EXCEPT ![s] = IF last THEN top ELSE @]
  /\ phase' = IF last THEN AfterPoll(s, below, top) ELSE "polling"
  /\ UNCHANGED <<todo, listed, monitors, api, history>>
  /\ ~last => /\ poll.page + 1 < MaxPages
              /\ top = below + (poll.page + 1) * PageSize
  /\ last => \/ below \in {0, cursor[s]}
             \/ top = below + MaxPages * PageSize

LEMMA FetchPageFacts ==
  ASSUME Inv, FetchPage
  PROVE  \E s, top, below, last : PageFetched(s, top, below, last)
<1> DEFINE s     == poll.symbol
           from  == IF poll.page = 0 THEN captured[s] ELSE poll.below
           top   == IF poll.page = 0 THEN captured[s] ELSE poll.top
           below == IF Seen(cursor[s], from) THEN cursor[s] ELSE Older(from)
           last  == Seen(cursor[s], from) \/ below = 0 \/ poll.page + 1 = MaxPages
<1>1. /\ s \in monitors /\ s \in Symbols
      /\ cursor[s] \in Nat /\ captured[s] \in Nat /\ poll.page \in Nat
      /\ poll.top \in Nat /\ poll.below \in Nat
      /\ cursor[s] <= captured[s]
      /\ phase = "polling"
  BY DEF Inv, TypeOK, Bounded, PollLocals, FetchPage
<1>2. from \in Nat /\ cursor[s] <= from /\ from <= top /\ top \in Nat /\ top <= captured[s]
  BY <1>1 DEF Inv, PollLocals
<1>3. below \in Nat /\ below <= from /\ cursor[s] <= below
  BY <1>1, <1>2, PageFacts
<1>4. Moved(cursor[s], below, top) = top
  <2>1. below = from => cursor[s] = from
    BY <1>1, <1>2, PageFacts
  <2> HIDE DEF from, top, below
  <2> QED
    BY <2>1, <1>1, <1>2, <1>3 DEF Moved
<1>5. /\ poll' = [poll EXCEPT !.top = top, !.below = below,
                              !.page = IF last THEN @ ELSE @ + 1]
      /\ cursor' = IF last THEN [cursor EXCEPT ![s] = Moved(@, below, top)] ELSE cursor
      /\ phase' = IF last THEN AfterPoll(s, below, top) ELSE "polling"
      /\ UNCHANGED <<todo, listed, monitors, api, history>>
  BY DEF FetchPage
<1>6. \/ below \in {0, cursor[s]} /\ last
      \/ top = below + (poll.page + 1) * PageSize
  <2>1. SUFFICES ASSUME ~Seen(cursor[s], from), below # 0
                 PROVE  top = below + (poll.page + 1) * PageSize
    OBVIOUS
  <2>2. from = below + PageSize
    BY <2>1, <1>1, <1>2, PageFacts
  <2>3. top = from + poll.page * PageSize
    <3>1. CASE poll.page = 0
      BY <3>1, <1>1, ConstantsAssumption
    <3>2. CASE poll.page # 0
      BY <3>2, <1>1 DEF Inv, PollLocals
    <3> QED
      BY <3>1, <3>2
  <2>4. (poll.page + 1) * PageSize = poll.page * PageSize + PageSize
    BY <1>1, ConstantsAssumption, OnePageMore
  <2>5. poll.page * PageSize \in Nat
    BY <1>1, ConstantsAssumption
  <2> HIDE DEF from, top, below
  <2> QED
    BY <2>2, <2>3, <2>4, <2>5, <1>2, <1>3, ConstantsAssumption
<1>7. poll.page + 1 <= MaxPages /\ MaxPages \in Nat
  BY <1>1, ConstantsAssumption DEF Inv, TypeOK
<1>8. last \/ poll.page + 1 # MaxPages
  OBVIOUS
<1>9. last /\ below \notin {0, cursor[s]} => poll.page + 1 = MaxPages
  OBVIOUS
<1>10. last \in BOOLEAN
  OBVIOUS
<1> HIDE DEF from, top, below, last
<1>11. poll' = [symbol |-> s, top |-> top, below |-> below,
               page |-> IF last THEN poll.page ELSE poll.page + 1]
  BY <1>1, <1>5 DEF Inv, TypeOK
<1>12. cursor' = [cursor EXCEPT ![s] = IF last THEN top ELSE @]
  BY <1>1, <1>4, <1>5 DEF Inv, TypeOK
<1>13. ~last => poll.page + 1 < MaxPages /\ top = below + (poll.page + 1) * PageSize
  BY <1>1, <1>6, <1>7, <1>8
<1>14. last => below \in {0, cursor[s]} \/ top = below + MaxPages * PageSize
  BY <1>6, <1>9
<1>15. below <= top
  BY <1>2, <1>3
<1>16. PageFetched(s, top, below, last)
  BY <1>1, <1>2, <1>3, <1>5, <1>10, <1>11, <1>12, <1>13, <1>14, <1>15 DEF PageFetched
<1> QED
  BY <1>16

LEMMA FetchPageInv ==
  ASSUME Inv, FetchPage
  PROVE  Inv'
<1>1. PICK s, top, below, last : PageFetched(s, top, below, last)
  BY FetchPageFacts
<1>2. /\ s = poll.symbol /\ s \in monitors /\ s \in Symbols /\ phase = "polling"
      /\ top \in Nat /\ below \in Nat /\ last \in BOOLEAN
      /\ cursor[s] <= below /\ below <= top /\ top <= captured[s]
      /\ UNCHANGED <<todo, listed, monitors, api, history>>
  BY <1>1 DEF PageFetched
<1>3. /\ poll'.symbol = s /\ poll'.top = top /\ poll'.below = below
      /\ poll'.page = IF last THEN poll.page ELSE poll.page + 1
      /\ poll' \in [symbol : Symbols, top : Nat, below : Nat, page : Nat]
  BY <1>1, <1>2 DEF PageFetched, Inv, TypeOK
<1>4. /\ cursor' \in [Symbols -> Nat]
      /\ cursor'[s] = IF last THEN top ELSE cursor[s]
      /\ \A t \in Symbols : t # s => cursor'[t] = cursor[t]
  BY <1>1, <1>2 DEF PageFetched, Inv, TypeOK
<1>5. /\ phase' \in {"polling", "scoring", "cycle"}
      /\ phase' = "polling" <=> ~last
  BY <1>1 DEF PageFetched, AfterPoll
<1>6. TypeOK'
  BY <1>1, <1>2, <1>3, <1>4, <1>5 DEF PageFetched, Inv, TypeOK, Phase, Loop
<1>7. Bounded'
  BY <1>2, <1>4 DEF Inv, TypeOK, Bounded
<1>8. PollLocals'
  <2>1. CASE last
    BY <2>1, <1>2, <1>3, <1>5 DEF PollLocals
  <2>2. CASE ~last
    <3>1. top = below + (poll.page + 1) * PageSize
      BY <2>2, <1>1 DEF PageFetched
    <3> QED
      BY <2>2, <3>1, <1>2, <1>3, <1>4, <1>5 DEF Inv, TypeOK, PollLocals
  <2> QED
    BY <2>1, <2>2
<1>9. CursorGuards'
  BY <1>2, <1>4, <1>5 DEF Inv, TypeOK, CursorGuards, Guarded, Loop
<1>10. BatchIsNew'
  <2>1. New' = below + 1 .. top
    BY <1>3 DEF New
  <2>2. New' \intersect scored[s] \subseteq exposed[s]
    BY <2>1, <1>2 DEF Inv, TypeOK, CursorGuards, Guarded, Loop
  <2>3. last => New' \subseteq 1 .. cursor'[s]
    BY <2>1, <1>2, <1>4
  <2> QED
    BY <2>2, <2>3, <1>2, <1>3, <1>5 DEF BatchIsNew
<1>11. TwiceOnlyAfterFailure' /\ PausedSoFar' /\ StoppedMeansPaused'
  BY <1>2, <1>5 DEF Inv, TwiceOnlyAfterFailure, PausedSoFar, StoppedMeansPaused
<1> QED
  BY <1>6, <1>7, <1>8, <1>9, <1>10, <1>11 DEF Inv

LEMMA FetchFailsInv ==
  ASSUME Inv, FetchFails
  PROVE  Inv'
<1> DEFINE s == poll.symbol
<1>1. s \in monitors /\ s \in Symbols /\ phase = "polling"
  BY DEF Inv, TypeOK, PollLocals, FetchFails
<1>2. phase' \in {"scoring", "cycle"}
  BY DEF FetchFails, AfterPoll
<1>3. /\ exposed' \in [Symbols -> SUBSET Nat]
      /\ exposed'[s] = exposed[s] \union New
      /\ \A t \in Symbols : exposed[t] \subseteq exposed'[t]
      /\ UNCHANGED <<todo, listed, monitors, cursor, poll, api, scored, again, pauseFailed>>
  BY <1>1 DEF FetchFails, Inv, TypeOK, New
<1>4. TypeOK'
  BY <1>2, <1>3 DEF Inv, TypeOK, Phase, Loop
<1>5. CursorGuards'
  BY <1>1, <1>2, <1>3 DEF Inv, TypeOK, CursorGuards, Guarded, Loop
<1>6. BatchIsNew'
  BY <1>3 DEF BatchIsNew, New
<1>7. Bounded' /\ PollLocals' /\ TwiceOnlyAfterFailure' /\ PausedSoFar' /\ StoppedMeansPaused'
  BY <1>1, <1>2, <1>3 DEF Inv, Bounded, PollLocals, TwiceOnlyAfterFailure, PausedSoFar,
       StoppedMeansPaused
<1> QED
  BY <1>4, <1>5, <1>6, <1>7 DEF Inv

\* Adding any part of the batch.
LEMMA AddInv ==
  ASSUME Inv, ScoreAndAdd \/ \E k \in New : ScoreFails(k)
  PROVE  Inv'
<1> DEFINE s == poll.symbol
<1>1. PICK S \in SUBSET New : AddAll(S)
  BY DEF ScoreAndAdd, ScoreFails, Valid
<1>2. /\ phase = "scoring" /\ phase' \in {"cycle", "sleep"}
      /\ todo' \subseteq todo
      /\ UNCHANGED <<listed, monitors, cursor, poll, api, exposed, pauseFailed>>
  BY DEF ScoreAndAdd, ScoreFails, AddAll
<1>3. s \in monitors /\ s \in Symbols /\ New \subseteq Nat /\ New \subseteq 1 .. captured[s]
  BY <1>2 DEF Inv, TypeOK, PollLocals, New
<1>4. /\ scored' = [scored EXCEPT ![s] = @ \union S]
      /\ again' = [again EXCEPT ![s] = @ \union (S \intersect scored[s])]
  BY <1>1 DEF AddAll
<1>5. TypeOK' /\ Bounded'
  BY <1>1, <1>2, <1>3, <1>4 DEF Inv, TypeOK, Bounded, Phase, Loop
<1>6. Guarded(s)'
  BY <1>1, <1>2, <1>3, <1>4 DEF Inv, TypeOK, BatchIsNew, CursorGuards, Guarded, Loop
<1>7. CursorGuards'
  BY <1>2, <1>3, <1>4, <1>6 DEF Inv, TypeOK, CursorGuards, Guarded, Loop
<1>8. TwiceOnlyAfterFailure'
  BY <1>1, <1>2, <1>3, <1>4 DEF Inv, TypeOK, BatchIsNew, TwiceOnlyAfterFailure
<1>9. PollLocals' /\ BatchIsNew' /\ PausedSoFar' /\ StoppedMeansPaused'
  BY <1>2 DEF PollLocals, BatchIsNew, PausedSoFar, StoppedMeansPaused
<1> QED
  BY <1>5, <1>7, <1>8, <1>9 DEF Inv

LEMMA EndInv ==
  ASSUME Inv,
         \/ Cancel \/ Kill \/ Restart \/ PausingDone
         \/ \E s \in Symbols : Pause(s) \/ PauseFails(s)
  PROVE  Inv'
<1>1. TypeOK'
  BY ConstantsAssumption, NoPollTyped
  DEF Inv, TypeOK, Cancel, Kill, Restart, Forget, PausingDone, Pause, PauseFails,
      Phase, Loop, Ended, Zero
<1>2. Bounded'
  BY DEF Inv, TypeOK, Bounded, Cancel, Kill, Restart, Forget, PausingDone, Pause, PauseFails, Zero
<1>3. /\ phase' \in {"aborted", "stopped", "pausing", "listing"}
      /\ UNCHANGED <<scored, again, exposed>>
  BY DEF Cancel, Kill, Restart, Forget, PausingDone, Pause, PauseFails
<1>4. PollLocals' /\ CursorGuards' /\ BatchIsNew' /\ TwiceOnlyAfterFailure'
  BY <1>3 DEF Inv, PollLocals, CursorGuards, BatchIsNew, TwiceOnlyAfterFailure, Loop
<1>5. PausedSoFar' /\ StoppedMeansPaused'
  <2>1. CASE Cancel
    BY <2>1 DEF Cancel, PausedSoFar, StoppedMeansPaused
  <2>2. CASE Kill \/ Restart
    BY <2>2 DEF Kill, Restart, PausedSoFar, StoppedMeansPaused
  <2>3. CASE PausingDone
    BY <2>3 DEF Inv, PausedSoFar, StoppedMeansPaused, PausingDone
  <2>4. ASSUME NEW s \in Symbols, Pause(s) \/ PauseFails(s)
        PROVE  PausedSoFar' /\ StoppedMeansPaused'
    BY <2>4 DEF Inv, TypeOK, PausedSoFar, StoppedMeansPaused, Pause, PauseFails
  <2> QED
    BY <2>1, <2>2, <2>3, <2>4
<1> QED
  BY <1>1, <1>2, <1>4, <1>5 DEF Inv

LEMMA CaptureInv ==
  ASSUME Inv, NEW s \in Symbols, Capture(s)
  PROVE  Inv'
<1>1. /\ captured' \in [Symbols -> Nat]
      /\ \A t \in Symbols : captured[t] <= captured'[t]
      /\ UNCHANGED <<phase, todo, listed, monitors, server, cursor, poll, history>>
  BY DEF Inv, TypeOK, Capture
<1>2. TypeOK'
  BY <1>1 DEF Inv, TypeOK
<1>3. Bounded'
  BY <1>1 DEF Inv, TypeOK, Bounded
<1>4. PollLocals'
  BY <1>1 DEF Inv, TypeOK, PollLocals
<1>5. CursorGuards' /\ BatchIsNew' /\ TwiceOnlyAfterFailure' /\ PausedSoFar' /\ StoppedMeansPaused'
  BY <1>1 DEF Inv, CursorGuards, Guarded, BatchIsNew, New, TwiceOnlyAfterFailure, PausedSoFar,
       StoppedMeansPaused
<1> QED
  BY <1>2, <1>3, <1>4, <1>5 DEF Inv

LEMMA StutterInv == Inv /\ UNCHANGED vars => Inv'
BY DEF vars, Inv, TypeOK, Bounded, PollLocals, CursorGuards, Guarded, BatchIsNew, New,
       TwiceOnlyAfterFailure, PausedSoFar, StoppedMeansPaused

LEMMA NextInv == Inv /\ [Next]_vars => Inv'
BY SetupInv, FastForwardInv, FastForwardFailsInv, BeginInv, FetchPageInv, FetchFailsInv,
   AddInv, EndInv, CaptureInv, StutterInv
DEF Next, Setup, Cycle, Pausing

LEMMA Invariance == Spec => []Inv
<1> QED
  BY InitInv, NextInv, PTL DEF Spec

-----------------------------------------------------------------------------
(* Theorems.                                                               *)

\* Every reachable state is well typed; a poll never reads more than MaxPages.
THEOREM TypeCorrect == Spec => []TypeOK
<1>1. Inv => TypeOK
  BY DEF Inv
<1> QED
  BY <1>1, Invariance, PTL

\* Only what a failure exposed is counted twice, whatever the faults, over any
\* number of cycles and runs of the program.
THEOREM CountedTwiceOnlyAfterFailure == Spec => []TwiceOnlyAfterFailure
<1>1. Inv => TwiceOnlyAfterFailure
  BY DEF Inv
<1> QED
  BY <1>1, Invariance, PTL

\* A stream that was stopped in its loop left no monitor active but those whose
\* pause was refused.
THEOREM StopPausesMonitors == Spec => []StoppedMeansPaused
<1>1. Inv => StoppedMeansPaused
  BY DEF Inv
<1> QED
  BY <1>1, Invariance, PTL

\* A step moves no cursor to an older event, unless the program ends.
THEOREM CursorMonotone == Spec => CursorNeverGoesBack
<1>1. ASSUME Inv, [Next]_vars, phase \notin Ended, phase' \notin Ended, NEW s \in Symbols
      PROVE  cursor[s] <= cursor'[s]
  <2>1. cursor[s] \in Nat /\ captured[s] \in Nat /\ cursor[s] <= captured[s]
    BY <1>1 DEF Inv, TypeOK, Bounded
  <2>2. CASE FetchPage
    <3>1. PICK t, top, below, last : PageFetched(t, top, below, last)
      BY <1>1, <2>2, FetchPageFacts
    <3> QED
      BY <2>1, <3>1 DEF PageFetched, Inv, TypeOK
  <2>3. CASE \E t \in Symbols : FastForward(t)
    BY <2>1, <2>3 DEF FastForward, Inv, TypeOK
  <2>4. CASE cursor' = cursor
    BY <2>1, <2>4
  <2>5. CASE Kill \/ Restart
    BY <1>1, <2>5 DEF Kill, Restart, Ended
  <2> QED
    BY <1>1, <2>2, <2>3, <2>4, <2>5
    DEF Next, Setup, Cycle, Pausing, List, Existing, UnpauseFails, Create, CreateConflict,
        CreateRefused, SetupRaises, SetupDone, FastForwardFails, StartStream, BeginPoll,
        FetchFails, ScoreAndAdd, ScoreFails, CycleDone, Wake, Pause, PauseFails,
        PausingDone, Cancel, Capture, CreatedElsewhere, vars
<1>2. Inv /\ [Next]_vars => [phase \notin Ended /\ phase' \notin Ended =>
                              \A s \in Symbols : cursor[s] <= cursor'[s]]_vars
  BY <1>1
<1> QED
  BY <1>2, Invariance, PTL DEF Spec, CursorNeverGoesBack

\* A page moves the cursor over what it returned and, at the limit, over what
\* comes after MaxPages full pages.
LEMMA FetchPageMissesNothing ==
  ASSUME Inv, FetchPage, NEW s \in Symbols,
         ~(captured[s] > cursor[s] + MaxPages * PageSize)
  PROVE  Missed(s)' \subseteq Missed(s)
<1>1. PICK t, top, below, last : PageFetched(t, top, below, last)
  BY FetchPageFacts
<1>2. /\ t \in Symbols /\ phase = "polling" /\ scored' = scored
      /\ top \in Nat /\ below \in Nat /\ cursor[t] \in Nat /\ captured[t] \in Nat
      /\ cursor[t] <= below /\ below <= top /\ top <= captured[t]
      /\ poll'.symbol = t /\ New' = below + 1 .. top
      /\ cursor' = [cursor EXCEPT ![t] = IF last THEN top ELSE @]
  BY <1>1 DEF PageFetched, New, Inv, TypeOK
<1>3. CASE s # t \/ ~last
  BY <1>2, <1>3 DEF Missed, Valid, Inv, TypeOK
<1>4. CASE s = t /\ last
  <2>1. below \in {0, cursor[s]}
    <3>1. MaxPages * PageSize \in Nat
      BY ConstantsAssumption
    <3>2. top = below + MaxPages * PageSize => below <= cursor[s]
      BY <1>2, <1>4, <3>1
    <3> QED
      BY <1>1, <1>2, <1>4, <3>2 DEF PageFetched
  <2>2. cursor'[s] = top
    BY <1>2, <1>4 DEF Inv, TypeOK
  <2>3. ASSUME NEW e \in Missed(s)'
        PROVE  e \in Missed(s)
    <3>1. e \in Valid(s, 1 .. top) /\ e \notin scored[s]
      BY <2>2, <2>3, <1>2 DEF Missed
    <3>2. e \notin below + 1 .. top
      <4>1. SUFFICES ASSUME e \in below + 1 .. top
                     PROVE  FALSE
        OBVIOUS
      <4>2. e \in Valid(s, below + 1 .. top)
        BY <4>1, <3>1 DEF Valid
      <4>3. phase' = "scoring"
        BY <4>2, <1>1, <1>4 DEF PageFetched, AfterPoll
      <4> QED
        BY <4>1, <4>3, <1>2, <1>4, <2>3 DEF Missed
    <3>3. e \in Valid(s, 1 .. cursor[s])
      BY <3>1, <3>2, <2>1, <1>2, <1>4 DEF Valid
    <3> QED
      BY <3>1, <3>3, <1>2 DEF Missed
  <2> QED
    BY <2>3
<1> QED
  BY <1>3, <1>4

\* No event falls behind the cursor unnoticed, except as MissedOnlyKnowingly says.
THEOREM NothingMissedUnknowingly == Spec => MissedOnlyKnowingly
<1> DEFINE Known(s) ==
      \/ Missed(s)' \subseteq Missed(s)
      \/ phase = "forward"
      \/ captured[s] > cursor[s] + MaxPages * PageSize
      \/ phase = "scoring" /\ phase' # "cycle"
<1>1. ASSUME Inv, [Next]_vars, NEW s \in Symbols
      PROVE  Known(s)
  <2>1. CASE FetchPage
    BY <1>1, <2>1, FetchPageMissesNothing
  <2>2. CASE ScoreAndAdd
    BY <2>2, <1>1 DEF ScoreAndAdd, AddAll, Missed, Valid, Inv, TypeOK
  <2>3. CASE phase = "scoring" /\ phase' # "cycle"
    BY <2>3
  <2>4. CASE phase = "forward"
    BY <2>4
  <2>5. CASE Kill \/ Restart
    BY <2>5 DEF Kill, Restart, Forget, Missed, Valid, Zero
  <2>6. CASE phase # "scoring" /\ UNCHANGED <<cursor, scored>>
    BY <2>6 DEF Missed, Valid
  <2>7. CASE UNCHANGED <<phase, poll, cursor, scored>>
    BY <2>7 DEF Missed, Valid, New
  <2> QED
    BY <1>1, <2>1, <2>2, <2>3, <2>4, <2>5, <2>6, <2>7
    DEF Next, Setup, Cycle, Pausing, List, Existing, UnpauseFails, Create, CreateConflict,
        CreateRefused, SetupRaises, SetupDone, FastForward, FastForwardFails, StartStream,
        BeginPoll, FetchFails, ScoreFails, CycleDone, Wake, Pause, PauseFails,
        PausingDone, Cancel, Capture, CreatedElsewhere, vars
<1>2. Inv /\ [Next]_vars => [\A s \in Symbols : Known(s)]_vars
  BY <1>1
<1> QED
  BY <1>2, Invariance, PTL DEF Spec, MissedOnlyKnowingly
=============================================================================
