--------------------------------- MODULE DbPool ---------------------------------
(***************************************************************************)
(* db.py: the lazily created global connection pool, the threads that      *)
(* borrow connections from it, and close_pool at the end of main.          *)
(*                                                                         *)
(* A job is one call of execute_query, execute_batch or                    *)
(* execute_query_fetch in a thread of its own.  Threads may switch between *)
(* any two reads of the global _pool, so each read outside the lock is a   *)
(* step; what runs under _pool_lock is split only where an unlocked reader *)
(* could look in.                                                          *)
(***************************************************************************)
EXTENDS Naturals, FiniteSets

CONSTANTS
  Guarded,   \* jobs of the async wrappers (pollers, engines)
  Direct,    \* jobs of other threads: bucket writers, sentiment writers, training
  Fetching,  \* the jobs that run execute_query_fetch, which commits nothing
  Permits,   \* the value of the semaphore
  MaxConn    \* MAX_CONNECTIONS

ASSUME ConstantsAssumption ==
  /\ IsFiniteSet(Guarded) /\ IsFiniteSet(Direct)
  /\ Guarded \intersect Direct = {}
  /\ Fetching \subseteq Guarded \union Direct
  /\ Permits \in Nat
  /\ MaxConn \in Nat
  /\ Permits <= MaxConn

VARIABLES
  pool,     \* _pool: the number of a pool, or NoPool
  made,     \* how many pools were created
  closed,   \* pools on which closeall was called
  lock,     \* _pool_lock
  main,     \* how far the shutdown of main is
  pc,       \* where each job is
  mine,     \* the pool get_pool returned to the job
  conn,     \* the pool whose connection is out for the job, or NoPool
  stuck,    \* the jobs whose connection putconn did not take back
  result    \* how the job ended

vars == <<pool, made, closed, lock, main, pc, mine, conn, stuck, result>>

Jobs == Guarded \union Direct

NoPool == 0

Lock == {"free", "held"}

Main == {"running", "stopping",  \* every task is cancelled
         "closing",              \* between closeall and _pool = None
         "closed"}

PC == {"idle", "check", "checkClosed", "return",  \* get_pool, without the lock
       "lock",                                    \* get_pool, for the lock
       "getconn", "using", "putconn", "done"}

Result == {"none", "ok", "failed",
           "nopool",      \* AttributeError: None where a pool was expected
           "poolclosed",  \* PoolError: connection pool is closed
           "exhausted"}   \* PoolError: connection pool exhausted

Init ==
  /\ pool = NoPool
  /\ made = 0
  /\ closed = {}
  /\ lock = "free"
  /\ main = "running"
  /\ pc = [j \in Jobs |-> "idle"]
  /\ mine = [j \in Jobs |-> NoPool]
  /\ conn = [j \in Jobs |-> NoPool]
  /\ stuck = {}
  /\ result = [j \in Jobs |-> "none"]

Active(S) == {j \in S : pc[j] \notin {"idle", "done"}}

InUse(p) == {j \in Jobs : conn[j] = p}

OpenPools == (1 .. made) \ closed

Goto(j, l) == pc' = [pc EXCEPT ![j] = l]

\* The job ends with an exception, which its caller logs.
Fail(j, r) == Goto(j, "done") /\ result' = [result EXCEPT ![j] = r]

-----------------------------------------------------------------------------
(* Starting a job.                                                         *)

\* Fault: one permit too many.
BeginGuardedOneMore(j) ==
  /\ pc[j] = "idle"
  /\ main = "running"
  /\ Cardinality(Active(Guarded)) <= Permits
  /\ Goto(j, "check")
  /\ UNCHANGED <<pool, made, closed, lock, main, mine, conn, stuck, result>>

\* A wrapper holds a permit while its thread runs.  A cancelled wrapper gives
\* the permit back and leaves the thread running, but main cancels all tasks at
\* once and none of them starts another job.
BeginGuarded(j) ==
  /\ pc[j] = "idle"
  /\ main = "running"
  /\ Cardinality(Active(Guarded)) < Permits
  /\ Goto(j, "check")
  /\ UNCHANGED <<pool, made, closed, lock, main, mine, conn, stuck, result>>

\* The other threads ask nobody, also while main shuts down.
BeginDirect(j) ==
  /\ pc[j] = "idle"
  /\ Goto(j, "check")
  /\ UNCHANGED <<pool, made, closed, lock, main, mine, conn, stuck, result>>

-----------------------------------------------------------------------------
(* get_pool.                                                               *)

\* if _pool is not None ...
CheckNone(j) ==
  /\ pc[j] = "check"
  /\ Goto(j, IF pool = NoPool THEN "lock" ELSE "checkClosed")
  /\ UNCHANGED <<pool, made, closed, lock, main, mine, conn, stuck, result>>

\* ... and not _pool.closed: _pool is read again.
CheckClosed(j) ==
  /\ pc[j] = "checkClosed"
  /\ \/ /\ pool = NoPool
        /\ Fail(j, "nopool")
     \/ /\ pool # NoPool
        /\ Goto(j, IF pool \in closed THEN "lock" ELSE "return")
        /\ UNCHANGED result
  /\ UNCHANGED <<pool, made, closed, lock, main, mine, conn, stuck>>

\* return _pool: and again.
ReturnPool(j) ==
  /\ pc[j] = "return"
  /\ mine' = [mine EXCEPT ![j] = pool]
  /\ Goto(j, "getconn")
  /\ UNCHANGED <<pool, made, closed, lock, main, conn, stuck, result>>

\* Fault: under the lock the pool is not looked at a second time.
CreateUnchecked(j) ==
  /\ pc[j] = "lock"
  /\ lock = "free"
  /\ made' = made + 1
  /\ pool' = made + 1
  /\ mine' = [mine EXCEPT ![j] = made + 1]
  /\ Goto(j, "getconn")
  /\ UNCHANGED <<closed, lock, main, conn, stuck, result>>

\* Under the lock: the pool that is there, or a new one; the database may be
\* out of reach, then nothing changes but the job's fate.
LockedGet(j) ==
  /\ pc[j] = "lock"
  /\ lock = "free"
  /\ \/ /\ pool # NoPool /\ pool \notin closed
        /\ mine' = [mine EXCEPT ![j] = pool]
        /\ Goto(j, "getconn")
        /\ UNCHANGED <<pool, made, result>>
     \/ /\ pool = NoPool \/ pool \in closed
        /\ made' = made + 1
        /\ pool' = made + 1
        /\ mine' = [mine EXCEPT ![j] = made + 1]
        /\ Goto(j, "getconn")
        /\ UNCHANGED result
     \/ /\ pool = NoPool \/ pool \in closed
        /\ Fail(j, "failed")
        /\ UNCHANGED <<pool, made, mine>>
  /\ UNCHANGED <<closed, lock, main, conn, stuck>>

-----------------------------------------------------------------------------
(* get_connection and the statement.                                       *)

\* psycopg2's getconn raises on a closed and on an exhausted pool, and when it
\* has to connect anew and the database is out of reach.
GetConn(j) ==
  /\ pc[j] = "getconn"
  /\ \/ /\ mine[j] = NoPool
        /\ Fail(j, "nopool")
        /\ UNCHANGED conn
     \/ /\ mine[j] \in closed
        /\ Fail(j, "poolclosed")
        /\ UNCHANGED conn
     \/ /\ mine[j] \in OpenPools
        /\ Cardinality(InUse(mine[j])) >= MaxConn
        /\ Fail(j, "exhausted")
        /\ UNCHANGED conn
     \/ /\ mine[j] \in OpenPools
        /\ Cardinality(InUse(mine[j])) < MaxConn
        /\ Fail(j, "failed")
        /\ UNCHANGED conn
     \/ /\ mine[j] \in OpenPools
        /\ Cardinality(InUse(mine[j])) < MaxConn
        /\ conn' = [conn EXCEPT ![j] = mine[j]]
        /\ Goto(j, "using")
        /\ UNCHANGED result
  /\ UNCHANGED <<pool, made, closed, lock, main, mine, stuck>>

\* The statement and its commit; closeall closed the connections in use, too.
Execute(j) ==
  /\ pc[j] = "using"
  /\ \/ /\ conn[j] \notin closed
        /\ result' = [result EXCEPT ![j] = "ok"]
     \/ result' = [result EXCEPT ![j] = "failed"]
  /\ Goto(j, "putconn")
  /\ UNCHANGED <<pool, made, closed, lock, main, mine, conn, stuck>>

\* Fault: the connection is returned only after success.
PutConnIfOk(j) ==
  /\ pc[j] = "putconn"
  /\ conn' = [conn EXCEPT ![j] = IF result[j] = "ok" THEN NoPool ELSE @]
  /\ Goto(j, "done")
  /\ UNCHANGED <<pool, made, closed, lock, main, mine, stuck, result>>

\* finally: putconn.  On a closed pool it raises, which is logged; closeall has
\* closed the connection by then.
PutConn(j) ==
  /\ pc[j] = "putconn"
  /\ conn' = [conn EXCEPT ![j] = NoPool]
  /\ Goto(j, "done")
  /\ UNCHANGED <<pool, made, closed, lock, main, mine, stuck, result>>

\* A transaction is open, or aborted, unless a write was committed.
InTransaction(j) == j \in Fetching \/ result[j] # "ok"

\* putconn on an open pool rolls an open transaction back before it forgets the
\* connection.  A rollback that raises is logged, too, and the connection counts
\* as used until closeall.
RollbackFails(j) ==
  /\ pc[j] = "putconn"
  /\ conn[j] \notin closed
  /\ InTransaction(j)
  /\ stuck' = stuck \union {j}
  /\ Goto(j, "done")
  /\ UNCHANGED <<pool, made, closed, lock, main, mine, conn, result>>

-----------------------------------------------------------------------------
(* main.                                                                   *)

\* The tasks are cancelled.
Shutdown ==
  /\ main = "running"
  /\ main' = "stopping"
  /\ UNCHANGED <<pool, made, closed, lock, pc, mine, conn, stuck, result>>

\* Fault: returns with the lock when there is no pool.
CloseAllKeepsLock ==
  /\ main = "stopping"
  /\ lock = "free"
  /\ lock' = "held"
  /\ main' = IF pool = NoPool THEN "closed" ELSE "closing"
  /\ closed' = closed \union ({pool} \ {NoPool})
  /\ UNCHANGED <<pool, made, pc, mine, conn, stuck, result>>

\* close_pool takes the lock and closes the pool, if there is one ...
CloseAll ==
  /\ main = "stopping"
  /\ lock = "free"
  /\ \/ /\ pool # NoPool
        /\ closed' = closed \union {pool}
        /\ lock' = "held"
        /\ main' = "closing"
     \/ /\ pool = NoPool
        /\ main' = "closed"
        /\ UNCHANGED <<closed, lock>>
  /\ UNCHANGED <<pool, made, pc, mine, conn, stuck, result>>

\* ... and forgets it.
ForgetPool ==
  /\ main = "closing"
  /\ pool' = NoPool
  /\ lock' = "free"
  /\ main' = "closed"
  /\ UNCHANGED <<made, closed, pc, mine, conn, stuck, result>>

JobStep(j) ==
  \/ CheckNone(j) \/ CheckClosed(j) \/ ReturnPool(j) \/ LockedGet(j)
  \/ GetConn(j) \/ Execute(j) \/ PutConn(j) \/ RollbackFails(j)

CloseStep == CloseAll \/ ForgetPool

Next ==
  \/ \E j \in Guarded : BeginGuarded(j)
  \/ \E j \in Direct : BeginDirect(j)
  \/ \E j \in Jobs : JobStep(j)
  \/ Shutdown
  \/ CloseStep

Spec == Init /\ [][Next]_vars

\* Threads run; when a job begins is up to the environment.
Fairness == WF_vars(CloseStep) /\ \A j \in Jobs : WF_vars(JobStep(j))

FairSpec == Spec /\ Fairness
-----------------------------------------------------------------------------
(* Properties.                                                             *)

\* Types; the second pool is the one created after close_pool, the last.
TypeOK ==
  /\ made \in 0 .. 2
  /\ pool \in 0 .. made
  /\ closed \subseteq 1 .. made
  /\ lock \in Lock
  /\ main \in Main
  /\ pc \in [Jobs -> PC]
  /\ mine \in [Jobs -> 0 .. made]
  /\ conn \in [Jobs -> 0 .. made]
  /\ stuck \subseteq Jobs
  /\ result \in [Jobs -> Result]

\* A pool that is open is the global one: two threads that find no pool never
\* create two, and close_pool never leaves one behind that nobody can reach.
OpenPoolIsGlobal == \A p \in OpenPools : p = pool

\* The program never has more than MAX_CONNECTIONS connections in use, also when
\* a late writer creates a second pool after close_pool: the connections of the
\* first are closed by then.
ConnectionsBounded == Cardinality({j \in Jobs : conn[j] \in OpenPools}) <= MaxConn

\* A connection is out exactly for the jobs between getconn and putconn and for
\* those whose rollback raised inside putconn: a statement or commit that raises,
\* a cancelled wrapper and the shutdown leak none.
NoLeak ==
  \A j \in Jobs : conn[j] # NoPool <=> pc[j] \in {"using", "putconn"} \/ j \in stuck

\* "Guarded by an asyncio.Semaphore(10) matched to database pool limits"
\* (README): among themselves the wrappers never exhaust the pool.  When one
\* finds it exhausted, the threads that asked nobody and the connections putconn
\* did not take back have more of it than the permits leave over.
OnlyOutsidersExhaust ==
  [][\A j \in Guarded : result[j] # "exhausted" /\ result'[j] = "exhausted" =>
       Cardinality({i \in Direct \union stuck : conn[i] = mine[j]}) > MaxConn - Permits]_vars

\* A job that has begun ends, whatever the shutdown does with the lock.
JobsEnd == \A j \in Jobs : pc[j] = "check" ~> pc[j] = "done"
=============================================================================
