------------------------------ MODULE NewsPolling ------------------------------
(***************************************************************************)
(* The coroutine that polls the RSS feeds.  It remembers the titles it has *)
(* seen, in a memory of bounded size; what is new is scored in a thread    *)
(* and added to the row of the current bucket.  Feeds change at any time,  *)
(* and several may carry the same title.                                   *)
(*                                                                         *)
(* The articles of one answer are taken one by one, in any order: nothing  *)
(* else looks at what a loop without an await changes.                     *)
(***************************************************************************)
EXTENDS Integers, FiniteSets

CONSTANTS
  Feeds,     \* RSS_FEEDS
  Titles,    \* articles, by title
  Limit,     \* titles that are remembered, 1000
  Faults     \* what may go wrong: see Fault

\* The first answer of a feed, a later one, the score of an article, the batch.
Fault == {"prefill", "fetch", "score", "store"}

ASSUME ConstantsAssumption ==
  /\ IsFiniteSet(Feeds) /\ IsFiniteSet(Titles)
  /\ Limit \in Nat \ {0}
  /\ Faults \subseteq Fault

VARIABLES
  live,       \* what each feed carries
  phase,      \* where the coroutine stands
  todo,       \* feeds the current loop has not come to yet
  page,       \* titles of the last answer that are still to be looked at
  seen,       \* _last_seen_titles
  fresh,      \* new_articles of this cycle, by title
  counted,    \* titles added to news_sentiment_5m
  backlog,    \* history: titles that were remembered before the first cycle
  lost,       \* history: new titles that were never stored
  again,      \* history: titles added more than once
  forgotten   \* history: titles that were remembered when the memory was cleared

history == <<backlog, lost, again, forgotten>>
vars == <<live, phase, todo, page, seen, fresh, counted, history>>

Init ==
  /\ live \in [Feeds -> SUBSET Titles]
  /\ phase = "prefill"
  /\ todo = Feeds
  /\ page = {}
  /\ seen = {}
  /\ fresh = {}
  /\ counted = {}
  /\ backlog = {}
  /\ lost = {}
  /\ again = {}
  /\ forgotten = {}

Publish(f, t) ==
  /\ t \notin live[f]
  /\ live' = [live EXCEPT ![f] = @ \union {t}]
  /\ UNCHANGED <<phase, todo, page, seen, fresh, counted, history>>

Expire(f, t) ==
  /\ t \in live[f]
  /\ live' = [live EXCEPT ![f] = @ \ {t}]
  /\ UNCHANGED <<phase, todo, page, seen, fresh, counted, history>>

-----------------------------------------------------------------------------
(* start_news_rss_stream and _fetch_new_articles.                          *)

\* What the feeds carry at the start is remembered and not scored.
Prefill(f) ==
  /\ phase = "prefill" /\ f \in todo
  /\ todo' = todo \ {f}
  /\ \E titles \in {live[f]} \union (IF "prefill" \in Faults THEN {{}} ELSE {}) :
       /\ seen' = seen \union titles
       /\ backlog' = backlog \union titles
  /\ UNCHANGED <<live, phase, page, fresh, counted, lost, again, forgotten>>

StartCycle ==
  /\ phase = "sleep" \/ (phase = "prefill" /\ todo = {})
  /\ phase' = "fetch"
  /\ todo' = Feeds
  /\ UNCHANGED <<live, page, seen, fresh, counted, history>>

Fetch(f) ==
  /\ phase = "fetch" /\ page = {} /\ f \in todo
  /\ todo' = todo \ {f}
  /\ page' = live[f]
  /\ UNCHANGED <<live, phase, seen, fresh, counted, history>>

\* Fault: the exception of one feed leaves the loop over all.
FetchFailsForAll(f) ==
  /\ "fetch" \in Faults
  /\ phase = "fetch" /\ page = {} /\ f \in todo
  /\ todo' = {}
  /\ fresh' = {}
  /\ UNCHANGED <<live, phase, page, seen, counted, history>>

FetchFails(f) ==
  /\ "fetch" \in Faults
  /\ phase = "fetch" /\ page = {} /\ f \in todo
  /\ todo' = todo \ {f}
  /\ UNCHANGED <<live, phase, page, seen, fresh, counted, history>>

\* Fault: the memory is not added to while it is full.
RememberUntilFull(t) ==
  /\ seen' = IF Cardinality(seen) < Limit THEN seen \union {t} ELSE seen
  /\ UNCHANGED forgotten

\* A title that is not remembered is new; the memory is cleared when it is full.
Remember(t) ==
  LET more == seen \union {t}
      full == Cardinality(more) > Limit
  IN /\ seen' = IF full THEN {} ELSE more
     /\ forgotten' = IF full THEN forgotten \union more ELSE forgotten

\* Fault: a full memory takes nothing in any more.
TakeWhileRoom(t) ==
  /\ t \in page
  /\ page' = page \ {t}
  /\ IF t \in seen \/ Cardinality(seen) >= Limit
       THEN UNCHANGED <<seen, fresh>>
       ELSE seen' = seen \union {t} /\ fresh' = fresh \union {t}
  /\ UNCHANGED <<live, phase, todo, counted, history>>

Take(t) ==
  /\ t \in page
  /\ page' = page \ {t}
  /\ IF t \in seen
       THEN UNCHANGED <<seen, fresh, again, forgotten>>
       ELSE /\ Remember(t)
            /\ fresh' = fresh \union {t}
            /\ again' = IF t \in fresh THEN again \union {t} ELSE again
  /\ UNCHANGED <<live, phase, todo, counted, backlog, lost>>

-----------------------------------------------------------------------------
(* fetch_and_process_rss: scoring and storing what is new.                 *)

EndFetch ==
  /\ phase = "fetch" /\ page = {} /\ todo = {}
  /\ phase' = IF fresh = {} THEN "sleep" ELSE "score"
  /\ UNCHANGED <<live, todo, page, seen, fresh, counted, history>>

\* A model that fails is replaced by neutral scores; an article that raises is
\* left out.
Score ==
  /\ phase = "score"
  /\ \E left \in IF "score" \in Faults THEN SUBSET fresh ELSE {{}} :
       /\ fresh' = fresh \ left
       /\ lost' = lost \union left
  /\ phase' = "store"
  /\ UNCHANGED <<live, todo, page, seen, counted, backlog, again, forgotten>>

Store ==
  /\ phase = "store"
  /\ counted' = counted \union fresh
  /\ again' = again \union (counted \intersect fresh)
  /\ fresh' = {}
  /\ phase' = "sleep"
  /\ UNCHANGED <<live, todo, page, seen, backlog, lost, forgotten>>

\* The batch raises: the articles are gone.
StoreFails ==
  /\ "store" \in Faults
  /\ phase = "store"
  /\ lost' = lost \union fresh
  /\ fresh' = {}
  /\ phase' = "sleep"
  /\ UNCHANGED <<live, todo, page, seen, counted, backlog, again, forgotten>>

Poller ==
  \/ StartCycle \/ EndFetch \/ Score \/ Store \/ StoreFails
  \/ \E f \in Feeds : Prefill(f) \/ Fetch(f) \/ FetchFails(f)
  \/ \E t \in Titles : Take(t)

World == \E f \in Feeds, t \in Titles : Publish(f, t) \/ Expire(f, t)

Next == World \/ Poller

Spec == Init /\ [][Next]_vars

\* asyncio runs what can run, and a feed that is asked again and again answers.
FairSpec ==
  /\ Spec
  /\ WF_vars(Poller)
  /\ \A f \in Feeds : SF_vars(Fetch(f))

-----------------------------------------------------------------------------
(* Properties.                                                             *)

TypeOK ==
  /\ live \in [Feeds -> SUBSET Titles]
  /\ phase \in {"prefill", "fetch", "score", "store", "sleep"}
  /\ todo \subseteq Feeds
  /\ {page, seen, fresh, counted, backlog, lost, again, forgotten} \subseteq SUBSET Titles

\* An article is counted twice only after the memory that held its title was
\* cleared, however often and in however many feeds it appears.
TwiceOnlyIfForgotten == again \subseteq forgotten

\* Every title that is remembered was in a feed before the first cycle, or its
\* article is stored, on its way or lost by a failure: none is skipped silently.
SeenMeansHandled == seen \subseteq backlog \union fresh \union counted \union lost

\* The memory exceeds its limit only with titles from before the first cycle,
\* which are not counted against it: one new title more and it is cleared.
MemoryIsBounded == Cardinality(seen) <= Limit \/ seen \subseteq backlog

\* An article that stays in a feed is taken in the end, whatever failed before.
NewsIsTaken ==
  \A f \in Feeds, t \in Titles :
    t \in live[f] ~> \/ t \in backlog \union fresh \union counted \union lost
                     \/ t \notin live[f]
=============================================================================
