------------------------------ MODULE DbPoolProofs ------------------------------
(***************************************************************************)
(* DbPool for any jobs, number of permits and size of the pool.            *)
(***************************************************************************)
EXTENDS DbPool, FiniteSetTheorems, TLAPS

\* The life of the pools, by the phase of the shutdown.  This is the invariant:
\* a pool is created only under the lock and only when there is none, and the
\* lock is held from closeall until the pool is forgotten.
PoolLife ==
  \/ /\ main \in {"running", "stopping", "closed"}
     /\ lock = "free"
     /\ closed = {}
     /\ made \in {0, 1} /\ pool = made
  \/ /\ main = "closing"
     /\ lock = "held"
     /\ made = 1 /\ pool = 1 /\ closed = {1}
  \/ /\ main = "closed"
     /\ lock = "free"
     /\ closed = {1}
     /\ \/ made = 1 /\ pool = 0
        \/ made = 2 /\ pool = 2

Bounded == \A p \in 1 .. made : Cardinality(InUse(p)) <= MaxConn

Permitted == Cardinality(Active(Guarded)) <= Permits

\* A job whose rollback raised is over: it never comes back to its connection.
StuckDone == \A j \in stuck : pc[j] = "done"

Inv ==
  /\ TypeOK
  /\ PoolLife
  /\ NoLeak
  /\ StuckDone
  /\ Bounded
  /\ Permitted

-----------------------------------------------------------------------------
LEMMA FiniteJobs ==
  /\ IsFiniteSet(Jobs)
  /\ \A S : S \subseteq Jobs => IsFiniteSet(S) /\ Cardinality(S) \in Nat
<1>1. IsFiniteSet(Jobs)
  BY ConstantsAssumption, FS_Union DEF Jobs
<1> QED
  BY <1>1, FS_Subset, FS_CardinalityType

\* Fewer jobs count for no more.
LEMMA FewerJobs ==
  ASSUME NEW S, NEW T, S \subseteq T, T \subseteq Jobs
  PROVE  Cardinality(S) <= Cardinality(T)
BY FiniteJobs, FS_Subset

LEMMA OneMoreJob ==
  ASSUME NEW S, S \subseteq Jobs, NEW j \in Jobs
  PROVE  Cardinality(S \union {j}) <= Cardinality(S) + 1
BY FiniteJobs, FS_AddElement

LEMMA InvInit == Init => Inv
<1> SUFFICES ASSUME Init PROVE Inv
  OBVIOUS
<1>1. TypeOK
  BY DEF Init, TypeOK, NoPool, Lock, Main, PC, Result
<1>2. PoolLife /\ NoLeak /\ StuckDone /\ Bounded
  BY DEF Init, PoolLife, NoLeak, StuckDone, Bounded, NoPool
<1>3. Active(Guarded) = {}
  BY DEF Init, Active, Jobs
<1>4. Permitted
  BY <1>3, FS_EmptySet, ConstantsAssumption DEF Permitted
<1> QED
  BY <1>1, <1>2, <1>4 DEF Inv

\* A job goes on: the guarded jobs that are active are those that were.
LEMMA StillPermitted ==
  ASSUME Inv, NEW j \in Jobs, pc[j] \notin {"idle", "done"}, NEW l, Goto(j, l)
  PROVE  Permitted'
<1>1. Active(Guarded)' \subseteq Active(Guarded)
  <2>1. \A x \in Guarded \ {j} : pc'[x] = pc[x]
    BY DEF Goto, Jobs, Inv, TypeOK
  <2> QED
    BY <2>1 DEF Active
<1>2. Active(Guarded) \subseteq Jobs /\ Active(Guarded)' \subseteq Jobs
  BY <1>1 DEF Active, Jobs
<1> QED
  BY <1>1, <1>2, FewerJobs, FiniteJobs, ConstantsAssumption DEF Inv, Permitted

\* Pools and connections as they were.
LEMMA StillBounded ==
  ASSUME Inv, UNCHANGED <<made, conn>>
  PROVE  Bounded'
BY DEF Inv, Bounded, InUse

-----------------------------------------------------------------------------
(* The actions.                                                            *)

LEMMA BeginStep ==
  ASSUME Inv, NEW j \in Jobs,
         \/ j \in Guarded /\ BeginGuarded(j)
         \/ j \in Direct /\ BeginDirect(j)
  PROVE  Inv'
<1>1. /\ pc[j] = "idle" /\ Goto(j, "check")
      /\ UNCHANGED <<pool, made, closed, lock, main, mine, conn, stuck, result>>
  BY DEF BeginGuarded, BeginDirect
<1>2. TypeOK' /\ NoLeak' /\ StuckDone' /\ PoolLife'
  BY <1>1 DEF Inv, TypeOK, NoLeak, StuckDone, PoolLife, Goto, PC
<1>3. Permitted'
  <2>1. CASE j \in Guarded /\ BeginGuarded(j)
    <3>1. Active(Guarded)' \subseteq Active(Guarded) \union {j}
      BY <1>1 DEF Goto, Active, Jobs, Inv, TypeOK
    <3>2. Active(Guarded) \subseteq Jobs
      BY DEF Active, Jobs
    <3>3. Cardinality(Active(Guarded)) < Permits
      BY <2>1 DEF BeginGuarded
    <3>4. Cardinality(Active(Guarded)') <= Cardinality(Active(Guarded) \union {j})
      BY <3>1, <3>2, FewerJobs
    <3>5. Cardinality(Active(Guarded) \union {j}) <= Cardinality(Active(Guarded)) + 1
      BY <3>2, OneMoreJob
    <3>6. /\ Cardinality(Active(Guarded)) \in Nat
          /\ Cardinality(Active(Guarded) \union {j}) \in Nat
          /\ Cardinality(Active(Guarded)') \in Nat
      BY <3>1, <3>2, FiniteJobs
    <3> QED
      BY <3>3, <3>4, <3>5, <3>6, ConstantsAssumption DEF Permitted
  <2>2. CASE j \in Direct /\ BeginDirect(j)
    <3>1. Active(Guarded)' = Active(Guarded)
      BY <1>1, <2>2, ConstantsAssumption DEF Goto, Active, Jobs, Inv, TypeOK
    <3> QED
      BY <3>1 DEF Inv, Permitted
  <2> QED
    BY <2>1, <2>2
<1> QED
  BY <1>1, <1>2, <1>3, StillBounded DEF Inv

LEMMA GetPoolStep ==
  ASSUME Inv, NEW j \in Jobs, CheckNone(j) \/ CheckClosed(j) \/ ReturnPool(j)
  PROVE  Inv'
<1> DEFINE Kept == UNCHANGED <<pool, made, closed, lock, main, conn>>
<1>1. CASE CheckNone(j)
  <2>1. TypeOK' /\ NoLeak' /\ StuckDone' /\ PoolLife' /\ Kept
    BY <1>1 DEF CheckNone, Goto, Inv, TypeOK, NoLeak, StuckDone, PoolLife, PC
  <2> QED
    BY <1>1, <2>1, StillBounded, StillPermitted DEF CheckNone, Inv
<1>2. CASE CheckClosed(j)
  <2>1. TypeOK' /\ NoLeak' /\ StuckDone' /\ PoolLife' /\ Kept
    BY <1>2 DEF CheckClosed, Goto, Fail, Inv, TypeOK, NoLeak, StuckDone, PoolLife, PC, Result
  <2>2. \E l : Goto(j, l)
    BY <1>2 DEF CheckClosed, Fail
  <2> QED
    BY <1>2, <2>1, <2>2, StillBounded, StillPermitted DEF CheckClosed, Inv
<1>3. CASE ReturnPool(j)
  <2>1. TypeOK' /\ NoLeak' /\ StuckDone' /\ PoolLife' /\ Kept
    BY <1>3 DEF ReturnPool, Goto, Inv, TypeOK, NoLeak, StuckDone, PoolLife, PC
  <2> QED
    BY <1>3, <2>1, StillBounded, StillPermitted DEF ReturnPool, Inv
<1> QED
  BY <1>1, <1>2, <1>3

LEMMA LockedGetStep ==
  ASSUME Inv, NEW j \in Jobs, LockedGet(j)
  PROVE  Inv'
<1>1. /\ pc[j] = "lock" /\ lock = "free"
      /\ UNCHANGED <<closed, lock, main, conn, stuck>>
      /\ \E l : Goto(j, l)
  BY DEF LockedGet, Fail
<1>2. Permitted'
  BY <1>1, StillPermitted
<1>3. CASE UNCHANGED <<pool, made>>
  <2>1. TypeOK' /\ NoLeak' /\ StuckDone' /\ PoolLife'
    BY <1>1, <1>3 DEF LockedGet, Goto, Fail, Inv, TypeOK, NoLeak, StuckDone, PoolLife, PC, Result
  <2> QED
    BY <1>1, <1>2, <1>3, <2>1, StillBounded DEF Inv
<1>4. CASE /\ pool = NoPool \/ pool \in closed
           /\ made' = made + 1
           /\ pool' = made + 1
           /\ mine' = [mine EXCEPT ![j] = made + 1]
           /\ Goto(j, "getconn")
           /\ UNCHANGED result
  <2>1. PoolLife' /\ made + 1 \in 1 .. 2
    BY <1>1, <1>4 DEF Inv, PoolLife, NoPool
  <2>2. TypeOK' /\ NoLeak' /\ StuckDone'
    BY <1>1, <1>4, <2>1 DEF Goto, Inv, TypeOK, NoLeak, StuckDone, PC
  <2>3. Bounded'
    <3>1. InUse(made + 1) = {}
      BY DEF InUse, Inv, TypeOK
    <3>2. \A p : InUse(p)' = InUse(p)
      BY <1>1 DEF InUse
    <3>3. \A p \in 1 .. made' : p \in 1 .. made \/ p = made + 1
      BY <1>4 DEF Inv, TypeOK
    <3>4. Cardinality(InUse(made + 1)) <= MaxConn
      BY <3>1, FS_EmptySet, ConstantsAssumption
    <3>5. \A p \in 1 .. made : Cardinality(InUse(p)) <= MaxConn
      BY DEF Inv, Bounded
    <3> QED
      BY <3>2, <3>3, <3>4, <3>5 DEF Bounded
  <2> QED
    BY <1>2, <2>1, <2>2, <2>3 DEF Inv
<1> QED
  BY <1>3, <1>4 DEF LockedGet

LEMMA GetConnStep ==
  ASSUME Inv, NEW j \in Jobs, GetConn(j)
  PROVE  Inv'
<1>1. /\ pc[j] = "getconn"
      /\ UNCHANGED <<pool, made, closed, lock, main, mine, stuck>>
      /\ \E l : Goto(j, l)
  BY DEF GetConn, Fail
<1>2. Permitted'
  BY <1>1, StillPermitted
<1>3. PoolLife'
  BY <1>1 DEF Inv, PoolLife
<1>4. CASE UNCHANGED conn
  <2>1. TypeOK' /\ NoLeak' /\ StuckDone'
    BY <1>1, <1>4 DEF GetConn, Goto, Fail, Inv, TypeOK, NoLeak, StuckDone, PC, Result, NoPool, OpenPools
  <2> QED
    BY <1>1, <1>2, <1>3, <1>4, <2>1, StillBounded DEF Inv
<1>5. CASE /\ mine[j] \in OpenPools
           /\ Cardinality(InUse(mine[j])) < MaxConn
           /\ conn' = [conn EXCEPT ![j] = mine[j]]
           /\ Goto(j, "using")
           /\ UNCHANGED result
  <2>1. mine[j] \in 1 .. made
    BY <1>5 DEF OpenPools
  <2>2. TypeOK' /\ NoLeak' /\ StuckDone'
    BY <1>1, <1>5, <2>1 DEF Goto, Inv, TypeOK, NoLeak, StuckDone, PC, NoPool
  <2>3. Bounded'
    <3> SUFFICES ASSUME NEW p \in 1 .. made PROVE Cardinality(InUse(p)') <= MaxConn
      BY <1>1 DEF Bounded
    <3>1. InUse(p) \subseteq Jobs /\ Cardinality(InUse(p)) \in Nat
      BY FiniteJobs DEF InUse
    <3>2. CASE p = mine[j]
      <4>1. InUse(p)' \subseteq InUse(p) \union {j}
        BY <1>5 DEF InUse, Inv, TypeOK
      <4>2. InUse(p) \union {j} \subseteq Jobs
        BY <3>1
      <4>3. Cardinality(InUse(p)') <= Cardinality(InUse(p) \union {j})
        BY <4>1, <4>2, FewerJobs
      <4>4. Cardinality(InUse(p) \union {j}) <= Cardinality(InUse(p)) + 1
        BY <3>1, OneMoreJob
      <4>5. Cardinality(InUse(p)') \in Nat /\ Cardinality(InUse(p) \union {j}) \in Nat
        BY <4>1, <4>2, FiniteJobs
      <4> QED
        BY <1>5, <3>1, <3>2, <4>3, <4>4, <4>5, ConstantsAssumption
    <3>3. CASE p # mine[j]
      <4>1. InUse(p)' \subseteq InUse(p)
        BY <1>5, <3>3 DEF InUse, Inv, TypeOK
      <4>2. Cardinality(InUse(p)') <= Cardinality(InUse(p)) /\ Cardinality(InUse(p)') \in Nat
        BY <3>1, <4>1, FewerJobs, FiniteJobs
      <4> QED
        BY <3>1, <4>2, ConstantsAssumption DEF Inv, Bounded
    <3> QED
      BY <3>2, <3>3
  <2> QED
    BY <1>2, <1>3, <2>2, <2>3 DEF Inv
<1> QED
  BY <1>4, <1>5 DEF GetConn

LEMMA UseStep ==
  ASSUME Inv, NEW j \in Jobs, Execute(j) \/ PutConn(j) \/ RollbackFails(j)
  PROVE  Inv'
<1>1. CASE Execute(j)
  <2>1. TypeOK' /\ NoLeak' /\ StuckDone' /\ PoolLife'
    BY <1>1 DEF Execute, Goto, Inv, TypeOK, NoLeak, StuckDone, PoolLife, PC, Result
  <2> QED
    BY <1>1, <2>1, StillBounded, StillPermitted DEF Execute, Inv
<1>2. CASE PutConn(j)
  <2>1. TypeOK' /\ NoLeak' /\ StuckDone' /\ PoolLife'
    BY <1>2 DEF PutConn, Goto, Inv, TypeOK, NoLeak, StuckDone, PoolLife, PC, NoPool
  <2>2. ASSUME NEW p \in 1 .. made PROVE Cardinality(InUse(p)') <= MaxConn
    <3>1. InUse(p)' \subseteq InUse(p) /\ InUse(p) \subseteq Jobs
      BY <1>2 DEF PutConn, InUse, Inv, TypeOK, NoPool
    <3>2. /\ Cardinality(InUse(p)') <= Cardinality(InUse(p))
          /\ Cardinality(InUse(p)') \in Nat /\ Cardinality(InUse(p)) \in Nat
      BY <3>1, FewerJobs, FiniteJobs
    <3> QED
      BY <3>2, ConstantsAssumption DEF Inv, Bounded
  <2>3. Bounded'
    BY <1>2, <2>2 DEF Bounded, PutConn
  <2> QED
    BY <1>2, <2>1, <2>3, StillPermitted DEF PutConn, Inv
<1>3. CASE RollbackFails(j)
  <2>1. TypeOK' /\ NoLeak' /\ StuckDone' /\ PoolLife'
    BY <1>3 DEF RollbackFails, Goto, Inv, TypeOK, NoLeak, StuckDone, PoolLife, PC
  <2> QED
    BY <1>3, <2>1, StillBounded, StillPermitted DEF RollbackFails, Inv
<1> QED
  BY <1>1, <1>2, <1>3

LEMMA MainStep ==
  ASSUME Inv, Shutdown \/ CloseStep
  PROVE  Inv'
<1>1. UNCHANGED <<made, pc, mine, conn, stuck, result>>
  BY DEF Shutdown, CloseStep, CloseAll, ForgetPool
<1>2. PoolLife'
  BY DEF Shutdown, CloseStep, CloseAll, ForgetPool, Inv, PoolLife, NoPool
<1>3. TypeOK'
  BY <1>1, <1>2 DEF Inv, TypeOK, PoolLife, Main, Lock
<1>4. NoLeak' /\ StuckDone' /\ Permitted'
  BY <1>1 DEF Inv, NoLeak, StuckDone, Permitted, Active
<1> QED
  BY <1>1, <1>2, <1>3, <1>4, StillBounded DEF Inv

LEMMA InvStep == Inv /\ [Next]_vars => Inv'
<1> SUFFICES ASSUME Inv, [Next]_vars PROVE Inv'
  OBVIOUS
<1>1. CASE UNCHANGED vars
  BY <1>1, StillBounded DEF vars, Inv, TypeOK, PoolLife, NoLeak, StuckDone, Permitted, Active
<1>2. \A j \in Guarded : BeginGuarded(j) => Inv'
  BY BeginStep DEF Jobs
<1>3. \A j \in Direct : BeginDirect(j) => Inv'
  BY BeginStep DEF Jobs
<1>4. \A j \in Jobs : JobStep(j) => Inv'
  BY GetPoolStep, LockedGetStep, GetConnStep, UseStep DEF JobStep
<1> QED
  BY <1>1, <1>2, <1>3, <1>4, MainStep DEF Next

LEMMA InvAlways == Spec => []Inv
<1> QED
  BY InvInit, InvStep, PTL DEF Spec

-----------------------------------------------------------------------------
\* Types; at most two pools are created in the life of the program.
THEOREM TypeCorrect == Spec => []TypeOK
<1>1. Inv => TypeOK
  BY DEF Inv
<1> QED
  BY <1>1, InvAlways, PTL

\* get_pool's second look under the lock: no pool is open but the global one.
THEOREM OneOpenPool == Spec => []OpenPoolIsGlobal
<1>1. Inv => OpenPoolIsGlobal
  BY DEF Inv, PoolLife, OpenPoolIsGlobal, OpenPools
<1> QED
  BY <1>1, InvAlways, PTL

\* No connection is leaked but by a rollback that raises inside putconn.
THEOREM ConnectionsReturned == Spec => []NoLeak
<1>1. Inv => NoLeak
  BY DEF Inv
<1> QED
  BY <1>1, InvAlways, PTL

\* The program never uses more connections than a pool has.
THEOREM NeverTooManyConnections == Spec => []ConnectionsBounded
<1>1. Inv => ConnectionsBounded
  <2> SUFFICES ASSUME Inv PROVE ConnectionsBounded
    OBVIOUS
  <2> DEFINE S == {j \in Jobs : conn[j] \in OpenPools}
  <2>1. OpenPools \subseteq {pool} /\ OpenPools \subseteq 1 .. made
    BY DEF Inv, PoolLife, OpenPools
  <2>2. CASE OpenPools = {}
    <3>1. S = {}
      BY <2>2
    <3> QED
      BY <3>1, FS_EmptySet, ConstantsAssumption DEF ConnectionsBounded
  <2>3. CASE pool \in OpenPools
    <3>1. S \subseteq InUse(pool) /\ InUse(pool) \subseteq Jobs /\ S \subseteq Jobs
      BY <2>1 DEF InUse
    <3>2. Cardinality(S) <= Cardinality(InUse(pool))
      BY <3>1, FewerJobs
    <3>3. Cardinality(InUse(pool)) <= MaxConn
      BY <2>1, <2>3 DEF Inv, Bounded
    <3>4. Cardinality(S) \in Nat /\ Cardinality(InUse(pool)) \in Nat
      BY <3>1, FiniteJobs
    <3> QED
      BY <3>2, <3>3, <3>4, ConstantsAssumption DEF ConnectionsBounded
  <2> QED
    BY <2>1, <2>2, <2>3
<1> QED
  BY <1>1, InvAlways, PTL

\* A wrapper finds the pool exhausted only when the outsiders and the connections
\* putconn did not take back have more of it than the permits leave over.
THEOREM WrappersNeverExhaust == Spec => OnlyOutsidersExhaust
<1> DEFINE Others(j) == {i \in Direct \union stuck : conn[i] = mine[j]}
<1>1. ASSUME Inv, NEW j \in Guarded, pc[j] = "getconn", mine[j] # NoPool,
             Cardinality(InUse(mine[j])) >= MaxConn
      PROVE  Cardinality(Others(j)) > MaxConn - Permits
  <2> DEFINE U == InUse(mine[j])
             G == Active(Guarded) \ {j}
  <2>1. /\ j \in Active(Guarded) /\ Active(Guarded) \subseteq Jobs
        /\ U \subseteq Jobs /\ Others(j) \subseteq Jobs
    BY <1>1 DEF Inv, TypeOK, InUse, Active, Jobs
  <2>2. U \subseteq G \union Others(j)
    <3> SUFFICES ASSUME NEW i \in Jobs, conn[i] = mine[j], i \notin Others(j)
                 PROVE  i \in G
      BY DEF InUse
    <3>1. i \in Guarded /\ pc[i] \in {"using", "putconn"}
      BY <1>1 DEF Inv, NoLeak, Jobs
    <3> QED
      BY <1>1, <3>1 DEF Active
  <2>3. /\ IsFiniteSet(G) /\ IsFiniteSet(Others(j))
        /\ Cardinality(G) \in Nat /\ Cardinality(Others(j)) \in Nat
        /\ Cardinality(U) \in Nat /\ Cardinality(Active(Guarded)) \in Nat
    BY <2>1, FiniteJobs
  <2>4. Cardinality(G) = Cardinality(Active(Guarded)) - 1
    BY <2>1, FiniteJobs, FS_RemoveElement
  <2>5. Cardinality(U) <= Cardinality(G) + Cardinality(Others(j))
    <3>1. /\ Cardinality(G \union Others(j)) =
               Cardinality(G) + Cardinality(Others(j)) - Cardinality(G \intersect Others(j))
          /\ Cardinality(G \intersect Others(j)) \in Nat
      BY <2>1, <2>3, FS_Union, FiniteJobs
    <3>2. Cardinality(U) <= Cardinality(G \union Others(j))
      BY <2>1, <2>2, FewerJobs
    <3> HIDE DEF U, G, Others
    <3> QED
      BY <2>3, <3>1, <3>2
  <2>6. Cardinality(U) >= MaxConn /\ Cardinality(Active(Guarded)) <= Permits
    BY <1>1 DEF Inv, Permitted
  <2> HIDE DEF U, G, Others
  <2> QED
    BY <2>3, <2>4, <2>5, <2>6, ConstantsAssumption
<1>2. ASSUME Inv, [Next]_vars, NEW j \in Guarded,
             result[j] # "exhausted", result'[j] = "exhausted"
      PROVE  Cardinality(Others(j)) > MaxConn - Permits
  <2>1. result \in [Jobs -> Result] /\ j \in Jobs
    BY <1>2 DEF Inv, TypeOK, Jobs
  <2>2. result' # result
    BY <1>2
  <2>3. ASSUME NEW i \in Jobs, NEW r, Fail(i, r), r # "exhausted"
        PROVE  FALSE
    BY <1>2, <2>1, <2>3 DEF Fail
  <2>4. \A i \in Jobs : ~Execute(i) /\ ~CheckClosed(i) /\ ~LockedGet(i)
    <3>1. \A i \in Jobs : ~Execute(i)
      BY <1>2, <2>1 DEF Execute
    <3>2. \A i \in Jobs : ~CheckClosed(i)
      BY <2>2, <2>3 DEF CheckClosed
    <3>3. \A i \in Jobs : ~LockedGet(i)
      BY <2>2, <2>3 DEF LockedGet
    <3> QED
      BY <3>1, <3>2, <3>3
  <2>5. PICK i \in Jobs : GetConn(i)
    BY <1>2, <2>2, <2>4 DEF Next, vars, BeginGuarded, BeginDirect, JobStep,
       CheckNone, ReturnPool, PutConn, RollbackFails, Shutdown, CloseStep, CloseAll,
       ForgetPool
  <2>6. Fail(i, "exhausted") /\ mine[i] \in OpenPools /\ Cardinality(InUse(mine[i])) >= MaxConn
    BY <2>2, <2>3, <2>5 DEF GetConn
  <2>7. i = j
    BY <1>2, <2>1, <2>6 DEF Fail
  <2>8. pc[j] = "getconn" /\ mine[j] # NoPool
    BY <2>5, <2>6, <2>7 DEF GetConn, OpenPools, NoPool
  <2> QED
    BY <1>1, <1>2, <2>6, <2>7, <2>8
<1>3. Inv /\ [Next]_vars =>
        [\A j \in Guarded : result[j] # "exhausted" /\ result'[j] = "exhausted" =>
           Cardinality({i \in Direct \union stuck : conn[i] = mine[j]}) > MaxConn - Permits]_vars
  BY <1>2
<1> QED
  BY <1>3, InvAlways, PTL DEF Spec, OnlyOutsidersExhaust
=============================================================================
