------------------------------ MODULE CandleLedger ------------------------------
(***************************************************************************)
(* What a 5-minute aggregator promises, without buckets, locks or threads: *)
(* every event that counts is settled at most once.  Settling a set of     *)
(* events either loses all of them or replaces, for each (symbol, bucket)  *)
(* they belong to, the row of the table by exactly those events.           *)
(***************************************************************************)
CONSTANTS Events,       \* everything that can be counted
          KeyOf(_)      \* the (symbol, bucket start) an event belongs to

VARIABLES seen,         \* events counted so far
          pending,      \* seen, neither in the table nor lost yet
          table         \* key -> the events its row was computed from

vars == <<seen, pending, table>>

RowsOf(S) == [k \in {KeyOf(e) : e \in S} |-> {e \in S : KeyOf(e) = k}]

Init ==
  /\ seen = {}
  /\ pending = {}
  /\ table = [k \in {} |-> {}]

Count(e) ==
  /\ e \notin seen
  /\ seen' = seen \union {e}
  /\ pending' = pending \union {e}
  /\ UNCHANGED table

\* One committed batch: its rows take the place of the rows with the same key.
Commit(S) ==
  /\ S # {}
  /\ pending' = pending \ S
  /\ table' = [k \in DOMAIN table \union DOMAIN RowsOf(S) |->
                 IF k \in DOMAIN RowsOf(S) THEN RowsOf(S)[k] ELSE table[k]]
  /\ UNCHANGED seen

\* A failed batch: its events will never be in the table.
Lose(S) ==
  /\ S # {}
  /\ pending' = pending \ S
  /\ UNCHANGED <<seen, table>>

Next ==
  \/ \E e \in Events : Count(e)
  \/ \E S \in SUBSET pending : Commit(S) \/ Lose(S)

Spec == Init /\ [][Next]_vars
=============================================================================
