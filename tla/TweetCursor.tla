------------------------------ MODULE TweetCursor ------------------------------
(***************************************************************************)
(* The coroutine that polls XQuik: it sets up one keyword monitor per coin,*)
(* moves each cursor past the backlog, then in cycles asks for the events  *)
(* behind the cursor, scores them and adds them to the aggregator.  When   *)
(* the program stops, main cancels it and it pauses the monitors.          *)
(*                                                                         *)
(* A monitor's events are numbered in the order of their capture, and the  *)
(* API hands them out newest first.  Every HTTP call is one step: the API  *)
(* captures events and the cancellation arrives between any two of them.   *)
(* The order in which a loop takes the coins is left open.                 *)
(***************************************************************************)
EXTENDS Integers

CONSTANTS
  Symbols,     \* tracked coins, the keys of KEYWORD_QUERIES
  MaxEvents,   \* bounds the events of each monitor
  PageSize,    \* events on a page, "limit"
  MaxPages,    \* max_pages
  Filtered,    \* <<coin, event>>: retweets, off-topic or not English
  Faults       \* what may go wrong: see Fault

\* Calls of the API by purpose, the scoring, another instance of the program
\* that creates the same monitor, and the process itself.
Fault == {"setup", "forward", "page", "score", "pause", "conflict", "kill"}

ASSUME ConstantsAssumption ==
  /\ Symbols # {}
  /\ MaxEvents \in [Symbols -> Nat]
  /\ PageSize \in Nat \ {0}
  /\ MaxPages \in Nat \ {0}
  /\ Filtered \subseteq Symbols \X Nat
  /\ Faults \subseteq Fault

VARIABLES
  phase,       \* where the coroutine stands
  todo,        \* coins the current loop has not come to yet
  listed,      \* existing_queries: coins with a monitor when setup began
  monitors,    \* symbol_monitors: coins that are polled
  server,      \* the monitors at XQuik
  captured,    \* number of events each monitor has captured
  cursor,      \* _last_seen_event_id, 0 when there is none
  poll,        \* the locals of _poll_events
  scored,      \* history: events added to the aggregator
  again,       \* history: events added more than once
  exposed,     \* history: events returned, or skipped, without a cursor
  pauseFailed  \* history: coins whose last pause was refused

api == <<server, captured>>
history == <<scored, again, exposed, pauseFailed>>
vars == <<phase, todo, listed, monitors, cursor, poll, api, history>>

Ended == {"aborted",   \* returned early, cancelled early, or killed
          "stopped"}   \* left through the finally clause

Loop == {"cycle", "polling", "scoring", "sleep"}

Phase == {"listing", "setup", "forward", "pausing"} \union Loop \union Ended

\* new_events: the events above poll.below, up to poll.top.
New == poll.below + 1 .. poll.top

Valid(s, S) == {e \in S : <<s, e>> \notin Filtered}

NoPoll == [symbol |-> CHOOSE s \in Symbols : TRUE, top |-> 0, below |-> 0, page |-> 0]

Nothing == [s \in Symbols |-> {}]

Zero == [s \in Symbols |-> 0]

Init ==
  /\ phase = "listing"
  /\ todo = {}
  /\ listed = {}
  /\ monitors = {}
  /\ server \in [Symbols -> {"none", "paused", "active"}]
  /\ captured = Zero
  /\ cursor = Zero
  /\ poll = NoPoll
  /\ scored = Nothing
  /\ again = Nothing
  /\ exposed = Nothing
  /\ pauseFailed = {}

-----------------------------------------------------------------------------
(* ensure_keyword_monitors.                                                *)

List ==
  /\ phase = "listing"
  /\ listed' = {s \in Symbols : server[s] # "none"}
  /\ todo' = Symbols
  /\ phase' = "setup"
  /\ UNCHANGED <<monitors, cursor, poll, api, history>>

SetUp(s) == phase = "setup" /\ s \in todo /\ todo' = todo \ {s}

Use(s) == monitors' = monitors \union {s}

Activate(s) == server' = [server EXCEPT ![s] = "active"]

\* The monitor exists and is unpaused if need be.
Existing(s) ==
  /\ SetUp(s)
  /\ s \in listed
  /\ Use(s)
  /\ Activate(s)
  /\ UNCHANGED <<phase, listed, captured, cursor, poll, history>>

\* It is used although it stays paused.
UnpauseFails(s) ==
  /\ "setup" \in Faults
  /\ SetUp(s)
  /\ s \in listed
  /\ server[s] = "paused"
  /\ Use(s)
  /\ UNCHANGED <<phase, listed, cursor, poll, api, history>>

Create(s) ==
  /\ SetUp(s)
  /\ s \notin listed
  /\ server[s] = "none"
  /\ Use(s)
  /\ Activate(s)
  /\ UNCHANGED <<phase, listed, captured, cursor, poll, history>>

\* 409, and the second list has it.
CreateConflict(s) ==
  /\ SetUp(s)
  /\ s \notin listed
  /\ server[s] # "none"
  /\ Use(s)
  /\ UNCHANGED <<phase, listed, cursor, poll, api, history>>

\* Any other HTTP status: the coin is left out.
CreateRefused(s) ==
  /\ "setup" \in Faults
  /\ SetUp(s)
  /\ s \notin listed
  /\ UNCHANGED <<phase, listed, monitors, cursor, poll, api, history>>

\* The first list or a connection fails, and the stream returns.
SetupRaises ==
  /\ "setup" \in Faults
  /\ \/ phase = "listing"
     \/ phase = "setup" /\ todo \ listed # {}
  /\ phase' = "aborted"
  /\ todo' = {}
  /\ listed' = {}
  /\ UNCHANGED <<monitors, cursor, poll, api, history>>

SetupDone ==
  /\ phase = "setup"
  /\ todo = {}
  /\ phase' = IF monitors = {} THEN "aborted" ELSE "forward"
  /\ todo' = monitors
  /\ listed' = {}
  /\ UNCHANGED <<monitors, cursor, poll, api, history>>

-----------------------------------------------------------------------------
(* _fast_forward_cursors.                                                  *)

\* No event, no cursor: with captured[s] = 0 it stays 0.
FastForward(s) ==
  /\ phase = "forward"
  /\ s \in todo
  /\ todo' = todo \ {s}
  /\ cursor' = [cursor EXCEPT ![s] = captured[s]]
  /\ UNCHANGED <<phase, listed, monitors, poll, api, history>>

\* Logged, and the backlog is still to come.
FastForwardFails(s) ==
  /\ "forward" \in Faults
  /\ phase = "forward"
  /\ s \in todo
  /\ todo' = todo \ {s}
  /\ exposed' = [exposed EXCEPT ![s] = @ \union 1 .. captured[s]]
  /\ UNCHANGED <<phase, listed, monitors, cursor, poll, api, scored, again, pauseFailed>>

StartStream ==
  /\ phase = "forward"
  /\ todo = {}
  /\ phase' = "cycle"
  /\ todo' = monitors
  /\ UNCHANGED <<listed, monitors, cursor, poll, api, history>>

-----------------------------------------------------------------------------
(* _poll_and_score_cycle and _poll_events.                                 *)

BeginPoll(s) ==
  /\ phase = "cycle"
  /\ s \in todo
  /\ todo' = todo \ {s}
  /\ poll' = [symbol |-> s, top |-> 0, below |-> 0, page |-> 0]
  /\ phase' = "polling"
  /\ UNCHANGED <<listed, monitors, cursor, api, history>>

\* The first event after a page that starts with e.
Older(e) == IF e > PageSize THEN e - PageSize ELSE 0

\* Fault: the list is already reversed when its first event is taken.
MovedToOldest(last, below, top) == IF top > below THEN below + 1 ELSE last

\* The cursor follows the newest of the new events, if there is one.
Moved(last, below, top) == IF top > below THEN top ELSE last

\* What comes after the poll returned: filters, then scoring if anything is left.
AfterPoll(s, below, top) ==
  IF Valid(s, below + 1 .. top) = {} THEN "cycle" ELSE "scoring"

\* last is on the page that starts with from.
Seen(last, from) == 0 < last /\ last > Older(from)

FetchPage ==
  LET s     == poll.symbol
      from  == IF poll.page = 0 THEN captured[s] ELSE poll.below
      top   == IF poll.page = 0 THEN captured[s] ELSE poll.top
      below == IF Seen(cursor[s], from) THEN cursor[s] ELSE Older(from)
      last  == Seen(cursor[s], from) \/ below = 0 \/ poll.page + 1 = MaxPages
  IN
  /\ phase = "polling"
  /\ poll' = [poll EXCEPT !.top = top, !.below = below,
                          !.page = IF last THEN @ ELSE @ + 1]
  /\ cursor' = IF last THEN [cursor EXCEPT ![s] = Moved(@, below, top)] ELSE cursor
  /\ phase' = IF last THEN AfterPoll(s, below, top) ELSE "polling"
  /\ UNCHANGED <<todo, listed, monitors, api, history>>

\* Fault: the cursor is moved in a finally clause.
FetchFailsMoving ==
  /\ "page" \in Faults
  /\ phase = "polling"
  /\ phase' = AfterPoll(poll.symbol, poll.below, poll.top)
  /\ cursor' = [cursor EXCEPT ![poll.symbol] = Moved(@, poll.below, poll.top)]
  /\ UNCHANGED <<todo, listed, monitors, poll, api, history>>

\* The events of the earlier pages are returned, and the cursor is not moved.
FetchFails ==
  /\ "page" \in Faults
  /\ phase = "polling"
  /\ phase' = AfterPoll(poll.symbol, poll.below, poll.top)
  /\ exposed' = [exposed EXCEPT ![poll.symbol] = @ \union New]
  /\ UNCHANGED <<todo, listed, monitors, cursor, poll, api, scored, again, pauseFailed>>

\* aggregator.add for each event of S.
AddAll(S) ==
  LET s == poll.symbol IN
  /\ scored' = [scored EXCEPT ![s] = @ \union S]
  /\ again' = [again EXCEPT ![s] = @ \union (S \intersect scored[s])]
  /\ UNCHANGED <<exposed, pauseFailed>>

ScoreAndAdd ==
  /\ phase = "scoring"
  /\ AddAll(Valid(poll.symbol, New))
  /\ phase' = "cycle"
  /\ UNCHANGED <<todo, listed, monitors, cursor, poll, api>>

\* The scoring, or a malformed event between the adds, raises out of the cycle:
\* only what is older than k has been added, the other coins are not polled.
ScoreFails(k) ==
  /\ "score" \in Faults
  /\ phase = "scoring"
  /\ AddAll({e \in Valid(poll.symbol, New) : e < k})
  /\ phase' = "sleep"
  /\ todo' = {}
  /\ UNCHANGED <<listed, monitors, cursor, poll, api>>

CycleDone ==
  /\ phase = "cycle"
  /\ todo = {}
  /\ phase' = "sleep"
  /\ UNCHANGED <<todo, listed, monitors, cursor, poll, api, history>>

Wake ==
  /\ phase = "sleep"
  /\ phase' = "cycle"
  /\ todo' = monitors
  /\ UNCHANGED <<listed, monitors, cursor, poll, api, history>>

-----------------------------------------------------------------------------
(* The end, and the next run of the program.                               *)

\* Fault: the finally clause takes the coins the cycle had left.
CancelPausingRest ==
  /\ phase \notin Ended \union {"pausing"}
  /\ phase' = IF phase \in Loop THEN "pausing" ELSE "aborted"
  /\ UNCHANGED <<todo, listed, monitors, cursor, poll, api, history>>

\* main cancels the task once, at whichever await it stands.  Only the loop is
\* inside the try statement.
Cancel ==
  /\ phase \notin Ended \union {"pausing"}
  /\ phase' = IF phase \in Loop THEN "pausing" ELSE "aborted"
  /\ todo' = IF phase \in Loop THEN monitors ELSE {}
  /\ listed' = {}
  /\ UNCHANGED <<monitors, cursor, poll, api, history>>

Pause(s) ==
  /\ phase = "pausing"
  /\ s \in todo
  /\ todo' = todo \ {s}
  /\ server' = [server EXCEPT ![s] = "paused"]
  /\ UNCHANGED <<phase, listed, monitors, captured, cursor, poll, history>>

PauseFails(s) ==
  /\ "pause" \in Faults
  /\ phase = "pausing"
  /\ s \in todo
  /\ todo' = todo \ {s}
  /\ pauseFailed' = pauseFailed \union {s}
  /\ UNCHANGED <<phase, listed, monitors, cursor, poll, api, scored, again, exposed>>

\* Fault: the program waits until every monitor is paused.
PausingDoneIfPaused ==
  /\ phase = "pausing"
  /\ todo = {}
  /\ pauseFailed = {}
  /\ phase' = "stopped"
  /\ UNCHANGED <<todo, listed, monitors, cursor, poll, api, history>>

PausingDone ==
  /\ phase = "pausing"
  /\ todo = {}
  /\ phase' = "stopped"
  /\ UNCHANGED <<todo, listed, monitors, cursor, poll, api, history>>

\* The cursors, too, are in the memory of the process only.
Forget ==
  /\ todo' = {}
  /\ listed' = {}
  /\ monitors' = {}
  /\ cursor' = Zero
  /\ poll' = NoPoll
  /\ pauseFailed' = {}
  /\ UNCHANGED <<api, scored, again, exposed>>

Kill ==
  /\ "kill" \in Faults
  /\ phase \notin Ended
  /\ phase' = "aborted"
  /\ Forget

\* A new process.
Restart ==
  /\ phase \in Ended
  /\ phase' = "listing"
  /\ Forget

-----------------------------------------------------------------------------
(* XQuik.                                                                  *)

Capture(s) ==
  /\ server[s] = "active"
  /\ captured[s] < MaxEvents[s]
  /\ captured' = [captured EXCEPT ![s] = @ + 1]
  /\ UNCHANGED <<phase, todo, listed, monitors, server, cursor, poll, history>>

\* Between the list and the creation another instance creates the monitor.
CreatedElsewhere(s) ==
  /\ "conflict" \in Faults
  /\ phase = "setup"
  /\ s \in todo
  /\ server[s] = "none"
  /\ Activate(s)
  /\ UNCHANGED <<phase, todo, listed, monitors, captured, cursor, poll, history>>

Setup ==
  \/ List
  \/ \E s \in Symbols : Existing(s) \/ UnpauseFails(s) \/ Create(s)
  \/ \E s \in Symbols : CreateConflict(s) \/ CreateRefused(s)
  \/ SetupRaises
  \/ SetupDone
  \/ \E s \in Symbols : FastForward(s) \/ FastForwardFails(s)
  \/ StartStream

Cycle ==
  \/ \E s \in Symbols : BeginPoll(s)
  \/ FetchPage
  \/ FetchFails
  \/ ScoreAndAdd
  \/ \E k \in New : ScoreFails(k)
  \/ CycleDone
  \/ Wake

Pausing ==
  \/ \E s \in Symbols : Pause(s) \/ PauseFails(s)
  \/ PausingDone

Next ==
  \/ Setup
  \/ Cycle
  \/ Pausing
  \/ Cancel
  \/ Kill
  \/ Restart
  \/ \E s \in Symbols : Capture(s) \/ CreatedElsewhere(s)

Spec == Init /\ [][Next]_vars

\* The coroutine is scheduled and every call ends, with an answer, an error or
\* a timeout of the client.  Nothing makes the API, main or the user act.
FairSpec == Spec /\ WF_vars(Setup) /\ WF_vars(Cycle) /\ WF_vars(Pausing)

-----------------------------------------------------------------------------
(* Properties.                                                             *)

TypeOK ==
  /\ phase \in Phase
  /\ todo \subseteq Symbols
  /\ listed \subseteq Symbols
  /\ monitors \subseteq Symbols
  /\ server \in [Symbols -> {"none", "paused", "active"}]
  /\ captured \in [Symbols -> Nat]
  /\ cursor \in [Symbols -> Nat]
  /\ poll \in [symbol : Symbols, top : Nat, below : Nat, page : Nat]
  /\ poll.page < MaxPages
  /\ scored \in [Symbols -> SUBSET Nat]
  /\ again \in [Symbols -> SUBSET Nat]
  /\ exposed \in [Symbols -> SUBSET Nat]
  /\ pauseFailed \subseteq Symbols

\* An event is added twice only if it was returned by a poll that failed, or if
\* a fast-forward failed: over pages, cycles and runs of the program the cursor
\* keeps every other event from being counted again.
TwiceOnlyAfterFailure == \A s \in Symbols : again[s] \subseteq exposed[s]

\* Within one run of the program a cursor never moves to an older event.
CursorNeverGoesBack ==
  [][phase \notin Ended /\ phase' \notin Ended => \A s \in Symbols : cursor[s] <= cursor'[s]]_vars

\* Events behind the cursor that will never be in the aggregator.
Missed(s) ==
  {e \in Valid(s, 1 .. cursor[s]) :
     /\ e \notin scored[s]
     /\ ~(phase = "scoring" /\ poll.symbol = s /\ e \in New)}

\* The cursor passes an event that is neither filtered nor added only in the
\* fast-forward, when more events wait than a poll takes, and when the scoring
\* of a batch is cut short; never because a page failed, events came between
\* two pages, or the cursor's event was the first or last of a page.
MissedOnlyKnowingly ==
  [][\A s \in Symbols :
       \/ Missed(s)' \subseteq Missed(s)
       \/ phase = "forward"
       \/ captured[s] > cursor[s] + MaxPages * PageSize
       \/ phase = "scoring" /\ phase' # "cycle"]_vars

\* A stream that was stopped in its loop leaves no monitor of its own active,
\* hence spending credits, unless the API refused the pause.
StoppedMeansPaused ==
  phase = "stopped" =>
    \A s \in monitors \ pauseFailed : server[s] # "active"

\* Once it is cancelled the stream ends, whatever the API answers.
CancelledStreamEnds == phase = "pausing" ~> phase \in Ended
=============================================================================
