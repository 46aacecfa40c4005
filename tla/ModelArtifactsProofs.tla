-------------------------- MODULE ModelArtifactsProofs --------------------------
(***************************************************************************)
(* ModelArtifacts for any set of days and any number of trainings.         *)
(***************************************************************************)
EXTENDS ModelArtifacts, TLAPS

Numbers == 1 .. MaxTrainings

Released(n, d) == <<n, d>> \in released

\* What a trainer holds: its number while it runs, a whole version of its day as
\* a backup; only the job swaps, and only what it released.
TrainersInv ==
  \A t \in Trainers :
    /\ pc[t] # "idle" => training[t] \in Numbers
    /\ backup[t] # Nothing => \E n \in Numbers : Released(n, day[t]) /\ backup[t] = Of(n)
    /\ pc[t] \in {"swap", "swapping"} => t = "job" /\ Released(training[t], day[t])

\* Nobody swaps while the program loads, so the lock is free then; it is held
\* exactly while the job is between model and scaler.
LockInv ==
  /\ regLock = "held" => "job" \in Trainers /\ pc["job"] = "swapping"
  /\ "job" \in Trainers => (pc["job"] = "swapping" => regLock = "held")
  /\ "job" \in Trainers => (main \notin {"running", "dead"} => pc["job"] = "idle")

\* The scaler in hand is of the version directory that was picked.
LoaderInv ==
  main = "model" =>
    \E n \in Numbers : Released(n, pick) /\ read = [model |-> 0, scaler |-> n]

OneDay(p) == p = Nothing \/ \E d \in Days : Released(p.model, d) /\ Released(p.scaler, d)

\* Every pair that was registered is of one day; the registry is one of them
\* unless the job is about to complete it.
RegistryInv ==
  /\ \A p \in registered : OneDay(p)
  /\ used \in registered
  /\ regLock = "free" => registry \in registered
  /\ regLock = "held" => registry.model = training["job"]

Inv ==
  /\ TypeOK
  /\ VersionsAreWhole
  /\ OnlyCrashesLoseVersions
  /\ TrainersInv
  /\ LockInv
  /\ LoaderInv
  /\ RegistryInv

-----------------------------------------------------------------------------
LEMMA OfNumber ==
  ASSUME NEW n \in Numbers
  PROVE  Of(n) \in Pair /\ Of(n) # Nothing /\ Of(n).model = n /\ Of(n).scaler = n
BY ConstantsAssumption DEF Of, Nothing, Pair, Numbers

LEMMA NothingIsPair == Nothing \in Pair
BY ConstantsAssumption DEF Of, Nothing, Pair

LEMMA InvInit == Init => Inv
<1> SUFFICES ASSUME Init PROVE Inv
  OBVIOUS
<1> USE NothingIsPair
<1>1. TypeOK
  BY ConstantsAssumption DEF Init, TypeOK, PC, Main, Locks
<1>2. VersionsAreWhole /\ OnlyCrashesLoseVersions
  BY DEF Init, VersionsAreWhole, OnlyCrashesLoseVersions, Present
<1>3. TrainersInv /\ LockInv /\ LoaderInv /\ RegistryInv
  BY DEF Init, TrainersInv, LockInv, LoaderInv, RegistryInv, OneDay
<1> QED
  BY <1>1, <1>2, <1>3 DEF Inv

-----------------------------------------------------------------------------
(* What the parts of the invariant depend on.                              *)

\* Nothing becomes unreleased, so what was loaded and registered stays right.
LEMMA StillLive ==
  ASSUME Inv, UNCHANGED <<main, pick, read, registry, regLock, used, registered>>,
         released \subseteq released'
  PROVE  /\ LoaderInv'
         /\ (\A p \in registered : OneDay(p))' /\ (used \in registered)'
         /\ (regLock = "free" => registry \in registered)'
BY DEF Inv, LoaderInv, RegistryInv, OneDay, Released

LEMMA StillOnDisk ==
  ASSUME Inv, UNCHANGED <<disk, released, lost, day, backup>>
  PROVE  VersionsAreWhole' /\ OnlyCrashesLoseVersions'
BY DEF Inv, VersionsAreWhole, OnlyCrashesLoseVersions, Present

\* A trainer's step that does not swap.
LEMMA StillLocked ==
  ASSUME Inv, NEW t \in Trainers, NEW l, Goto(t, l), l # "swapping", pc[t] # "swapping",
         pc[t] # "idle" \/ (t = "job" => main \in {"running", "dead"}),
         UNCHANGED <<main, regLock>>
  PROVE  LockInv'
BY DEF Inv, TypeOK, LockInv, Goto

LEMMA StillHolding ==
  ASSUME Inv, NEW t \in Trainers, NEW l, Goto(t, l), l \notin {"swap", "swapping"},
         pc[t] # "idle", UNCHANGED <<training, day, backup, released>>
  PROVE  TrainersInv'
BY DEF Inv, TypeOK, TrainersInv, Goto, Released

LEMMA StillRegistered ==
  ASSUME Inv, UNCHANGED <<regLock, registry>>,
         "job" \in Trainers => (pc["job"] = "swapping" => training'["job"] = training["job"])
  PROVE  (regLock = "held" => registry.model = training["job"])'
BY DEF Inv, RegistryInv, LockInv

-----------------------------------------------------------------------------
(* The trainers.                                                           *)

LEMMA StartStep ==
  ASSUME Inv, NEW t \in Trainers, Start(t)
  PROVE  Inv'
<1>1. started' \in Numbers /\ started' = started + 1
  BY ConstantsAssumption DEF Start, Inv, TypeOK, Numbers
<1>2. TypeOK'
  BY <1>1 DEF Start, Inv, TypeOK, Goto, PC, diskVars, liveVars, Numbers
<1>3. OnlyCrashesLoseVersions' /\ VersionsAreWhole'
  BY DEF Start, Inv, TypeOK, VersionsAreWhole, OnlyCrashesLoseVersions, Present, diskVars
<1>4. TrainersInv'
  BY <1>1 DEF Start, Inv, TypeOK, TrainersInv, Goto, diskVars, Released
<1>5. LockInv' /\ LoaderInv'
  BY StillLocked, StillLive DEF Start, diskVars, liveVars
<1>6. RegistryInv'
  BY StillLive, StillRegistered DEF Start, diskVars, liveVars, RegistryInv, Inv, TypeOK
<1> QED
  BY <1>2, <1>3, <1>4, <1>5, <1>6 DEF Inv

\* A step that only moves the trainer.
LEMMA MoveStep ==
  ASSUME Inv, NEW t \in Trainers, GiveUp(t) \/ Prepare(t) \/ CheckExists(t)
  PROVE  Inv'
<1>1. PICK l \in {"idle", "exists", "failed", "moveAway", "publish"} : Goto(t, l)
  BY DEF GiveUp, Prepare, CheckExists
<1>2. /\ pc[t] \in {"training", "exists"}
      /\ UNCHANGED <<today, started, training, day, backup, diskVars, liveVars>>
  BY DEF GiveUp, Prepare, CheckExists
<1>3. TypeOK'
  BY <1>1, <1>2 DEF Inv, TypeOK, Goto, PC, diskVars, liveVars
<1>4. VersionsAreWhole' /\ OnlyCrashesLoseVersions'
  BY <1>2, StillOnDisk DEF diskVars
<1>5. TrainersInv' /\ LockInv' /\ LoaderInv'
  BY <1>1, <1>2, StillHolding, StillLocked, StillLive DEF diskVars, liveVars
<1>6. RegistryInv'
  BY <1>2, StillLive, StillRegistered DEF diskVars, liveVars, RegistryInv
<1> QED
  BY <1>3, <1>4, <1>5, <1>6 DEF Inv

LEMMA MoveAwayStep ==
  ASSUME Inv, NEW t \in Trainers, MoveAway(t)
  PROVE  Inv'
<1>1. PICK l \in {"failed", "publish"} : Goto(t, l)
  BY DEF MoveAway
<1>2. /\ pc[t] = "moveAway"
      /\ UNCHANGED <<today, started, training, day, released, lost, liveVars>>
  BY DEF MoveAway
<1>3. LockInv' /\ LoaderInv' /\ RegistryInv'
  BY <1>1, <1>2, StillLocked, StillLive, StillRegistered DEF liveVars, RegistryInv
<1>4. CASE UNCHANGED <<backup, disk>>
  <2>1. TypeOK'
    BY <1>1, <1>2, <1>4 DEF Inv, TypeOK, Goto, PC, liveVars
  <2>2. VersionsAreWhole' /\ OnlyCrashesLoseVersions' /\ TrainersInv'
    BY <1>1, <1>2, <1>4, StillOnDisk, StillHolding
  <2> QED
    BY <1>3, <2>1, <2>2 DEF Inv
<1>5. CASE /\ Present(day[t])
           /\ backup' = [backup EXCEPT ![t] = disk[day[t]]]
           /\ disk' = [disk EXCEPT ![day[t]] = Nothing]
           /\ Goto(t, "publish")
  <2>1. day[t] \in Days /\ disk[day[t]] \in Pair /\ backup[t] = Nothing
    BY <1>2 DEF Inv, TypeOK
  <2>2. TypeOK'
    BY <1>2, <1>5, <2>1, NothingIsPair DEF Inv, TypeOK, Goto, PC, liveVars
  <2>3. VersionsAreWhole'
    BY <1>2, <1>5, <2>1 DEF Inv, TypeOK, VersionsAreWhole, Present
  <2>4. OnlyCrashesLoseVersions'
    <3> SUFFICES ASSUME NEW n \in Numbers, NEW d \in Days, <<n, d>> \in released
                 PROVE  (Present(d) \/ d \in lost
                          \/ \E u \in Trainers : day[u] = d /\ backup[u] # Nothing)'
      BY <1>2 DEF OnlyCrashesLoseVersions, Numbers
    <3>1. CASE d = day[t]
      BY <1>2, <1>5, <3>1 DEF Inv, TypeOK, Present
    <3>2. CASE d # day[t]
      <4>1. \A u \in Trainers : day[u] = d => backup'[u] = backup[u]
        BY <1>5, <3>2 DEF Inv, TypeOK
      <4>2. disk'[d] = disk[d]
        BY <1>5, <3>2 DEF Inv, TypeOK
      <4> QED
        BY <1>2, <4>1, <4>2 DEF Inv, OnlyCrashesLoseVersions, Present, Numbers
    <3> QED
      BY <3>1, <3>2
  <2>5. TrainersInv'
    <3>1. \E n \in Numbers : Released(n, day[t]) /\ disk[day[t]] = Of(n)
      BY <1>5, <2>1 DEF Inv, VersionsAreWhole, Released, Numbers
    <3>2. pc'[t] = "publish" /\ backup'[t] = disk[day[t]]
      BY <1>5, <1>2 DEF Inv, TypeOK, Goto
    <3>3. \A u \in Trainers \ {t} : pc'[u] = pc[u] /\ backup'[u] = backup[u]
      BY <1>5 DEF Inv, TypeOK, Goto
    <3>4. training[t] \in Numbers
      BY <1>2 DEF Inv, TrainersInv
    <3> SUFFICES ASSUME NEW u \in Trainers
                 PROVE  (/\ pc[u] # "idle" => training[u] \in Numbers
                         /\ backup[u] # Nothing =>
                              \E n \in Numbers : Released(n, day[u]) /\ backup[u] = Of(n)
                         /\ pc[u] \in {"swap", "swapping"} =>
                              u = "job" /\ Released(training[u], day[u]))'
      BY DEF TrainersInv
    <3>5. CASE u = t
      BY <1>2, <3>1, <3>2, <3>4, <3>5 DEF Released
    <3>6. CASE u # t
      BY <1>2, <3>3, <3>6 DEF Inv, TrainersInv, Released
    <3> QED
      BY <3>5, <3>6
  <2> QED
    BY <1>3, <2>2, <2>3, <2>4, <2>5 DEF Inv
<1> QED
  BY <1>4, <1>5 DEF MoveAway

LEMMA PublishStep ==
  ASSUME Inv, NEW t \in Trainers, Publish(t)
  PROVE  Inv'
<1>1. /\ pc[t] = "publish"
      /\ UNCHANGED <<today, started, training, day, lost, liveVars>>
      /\ released \subseteq released'
  BY DEF Publish
<1>2. PICK l \in {"failed", "swap", "idle"} : Goto(t, l)
  BY DEF Publish, Written
<1>3. LockInv' /\ LoaderInv' /\ RegistryInv'
  BY <1>1, <1>2, StillLocked, StillLive, StillRegistered DEF liveVars, RegistryInv
<1>4. CASE Goto(t, "failed") /\ UNCHANGED <<disk, released, backup>>
  <2>1. TypeOK'
    BY <1>1, <1>4 DEF Inv, TypeOK, Goto, PC, liveVars
  <2>2. VersionsAreWhole' /\ OnlyCrashesLoseVersions' /\ TrainersInv'
    BY <1>1, <1>4, StillOnDisk, StillHolding
  <2> QED
    BY <1>3, <2>1, <2>2 DEF Inv
<1>5. CASE /\ ~Present(day[t])
           /\ disk' = [disk EXCEPT ![day[t]] = Of(training[t])]
           /\ released' = released \union {<<training[t], day[t]>>}
           /\ Written(t)
  <2>1. training[t] \in Numbers /\ day[t] \in Days /\ Of(training[t]) \in Pair
    BY <1>1, OfNumber DEF Inv, TypeOK, TrainersInv
  <2>2. TypeOK'
    BY <1>1, <1>5, <2>1, NothingIsPair
       DEF Inv, TypeOK, Written, Goto, PC, liveVars, Numbers
  <2>3. VersionsAreWhole'
    BY <1>1, <1>5, <2>1 DEF Inv, TypeOK, VersionsAreWhole, Present, Numbers
  <2>4. OnlyCrashesLoseVersions'
    <3> SUFFICES ASSUME NEW n \in Numbers, NEW d \in Days, <<n, d>> \in released'
                 PROVE  (Present(d) \/ d \in lost
                          \/ \E u \in Trainers : day[u] = d /\ backup[u] # Nothing)'
      BY DEF OnlyCrashesLoseVersions, Numbers
    <3>1. CASE d = day[t]
      BY <1>5, <2>1, <3>1, OfNumber DEF Inv, TypeOK, Present
    <3>2. CASE d # day[t]
      <4>1. \A u \in Trainers : day[u] = d => backup'[u] = backup[u]
        BY <1>5, <3>2 DEF Inv, TypeOK, Written
      <4>2. disk'[d] = disk[d] /\ <<n, d>> \in released
        BY <1>5, <3>2 DEF Inv, TypeOK
      <4> QED
        BY <1>1, <4>1, <4>2 DEF Inv, OnlyCrashesLoseVersions, Present, Numbers
    <3> QED
      BY <3>1, <3>2
  <2>5. TrainersInv'
    BY <1>1, <1>5, <2>1 DEF Inv, TypeOK, TrainersInv, Written, Goto, Released
  <2> QED
    BY <1>3, <2>2, <2>3, <2>4, <2>5 DEF Inv
<1> QED
  BY <1>4, <1>5 DEF Publish

LEMMA FailedStep ==
  ASSUME Inv, NEW t \in Trainers, Failed(t)
  PROVE  Inv'
<1>1. /\ pc[t] = "failed" /\ Goto(t, "idle")
      /\ backup' = [backup EXCEPT ![t] = Nothing]
      /\ UNCHANGED <<today, started, training, day, released, liveVars>>
      /\ disk' \in {disk, [disk EXCEPT ![day[t]] = backup[t]]}
      /\ lost' \in {lost, lost \union {day[t]}}
  BY DEF Failed
<1>2. LockInv' /\ LoaderInv' /\ RegistryInv'
  BY <1>1, StillLocked, StillLive, StillRegistered DEF liveVars, RegistryInv
<1>3. day[t] \in Days /\ backup[t] \in Pair
  BY DEF Inv, TypeOK
<1>4. disk' \in [Days -> Pair] /\ lost' \subseteq Days
  BY <1>1, <1>3 DEF Inv, TypeOK
<1>5. backup' \in [Trainers -> Pair] /\ pc' \in [Trainers -> PC]
  BY <1>1, <1>3, NothingIsPair DEF Inv, TypeOK, Goto, PC
<1>6. \A u \in Trainers : backup'[u] # Nothing => u # t /\ backup'[u] = backup[u] /\ pc'[u] = pc[u]
  BY <1>1 DEF Inv, TypeOK, Goto
<1>7. TypeOK'
  BY <1>1, <1>4, <1>5, <1>6 DEF Inv, TypeOK, liveVars
<1>8. TrainersInv'
  <2>1. \A u \in Trainers \ {t} : pc'[u] = pc[u]
    BY <1>1 DEF Inv, TypeOK, Goto
  <2>2. pc'[t] = "idle"
    BY <1>1 DEF Inv, TypeOK, Goto
  <2> SUFFICES ASSUME NEW u \in Trainers
               PROVE  (/\ pc[u] # "idle" => training[u] \in Numbers
                       /\ backup[u] # Nothing =>
                            \E n \in Numbers : Released(n, day[u]) /\ backup[u] = Of(n)
                       /\ pc[u] \in {"swap", "swapping"} =>
                            u = "job" /\ Released(training[u], day[u]))'
    BY DEF TrainersInv
  <2>3. CASE u = t
    BY <1>6, <2>2, <2>3
  <2>4. CASE u # t
    BY <1>1, <1>6, <2>1, <2>4 DEF Inv, TrainersInv, Released
  <2> QED
    BY <2>3, <2>4
<1>9. VersionsAreWhole'
  <2>1. CASE disk' = disk
    BY <1>1, <2>1 DEF Inv, VersionsAreWhole, Present
  <2>2. CASE disk' = [disk EXCEPT ![day[t]] = backup[t]]
    <3>1. backup[t] # Nothing => \E n \in Numbers : Released(n, day[t]) /\ backup[t] = Of(n)
      BY DEF Inv, TrainersInv
    <3> SUFFICES ASSUME NEW d \in Days, disk'[d] # Nothing
                 PROVE  \E n \in Numbers : <<n, d>> \in released' /\ disk'[d] = Of(n)
      BY DEF VersionsAreWhole, Present, Numbers
    <3>2. CASE d = day[t]
      BY <1>1, <2>2, <3>1, <3>2 DEF Inv, TypeOK, Released
    <3>3. CASE d # day[t]
      BY <1>1, <2>2, <3>3 DEF Inv, TypeOK, VersionsAreWhole, Present, Numbers
    <3> QED
      BY <3>2, <3>3
  <2> QED
    BY <1>1, <2>1, <2>2
<1>10. OnlyCrashesLoseVersions'
  <2> SUFFICES ASSUME NEW n \in Numbers, NEW d \in Days, <<n, d>> \in released
               PROVE  (Present(d) \/ d \in lost
                        \/ \E u \in Trainers : day[u] = d /\ backup[u] # Nothing)'
    BY <1>1 DEF OnlyCrashesLoseVersions, Numbers
  <2>1. Present(d) \/ d \in lost \/ \E u \in Trainers : day[u] = d /\ backup[u] # Nothing
    BY DEF Inv, OnlyCrashesLoseVersions, Numbers
  <2>2. CASE d # day[t]
    <3>1. disk'[d] = disk[d]
      BY <1>1, <2>2 DEF Inv, TypeOK
    <3>2. \A u \in Trainers : day[u] = d => backup'[u] = backup[u]
      BY <1>1, <2>2 DEF Inv, TypeOK
    <3> QED
      BY <1>1, <2>1, <3>1, <3>2 DEF Present
  <2>3. CASE d = day[t] /\ Present(d)'
    BY <2>3
  <2>4. CASE d = day[t] /\ ~Present(d)'
    <3>1. CASE backup[t] # Nothing /\ ~Present(day[t])
      <4>1. disk' = [disk EXCEPT ![day[t]] = backup[t]] \/ lost' = lost \union {day[t]}
        BY <3>1 DEF Failed
      <4>2. disk' # [disk EXCEPT ![day[t]] = backup[t]]
        BY <2>4, <3>1 DEF Inv, TypeOK, Present
      <4> QED
        BY <2>4, <4>1, <4>2
    <3>2. CASE backup[t] = Nothing \/ Present(day[t])
      <4>1. UNCHANGED <<disk, lost>>
        BY <3>2 DEF Failed
      <4>2. \A u \in Trainers : backup[u] # Nothing => u # t
        BY <2>4, <3>2, <4>1 DEF Present
      <4>3. \A u \in Trainers : u # t => backup'[u] = backup[u]
        BY <1>1 DEF Inv, TypeOK
      <4> QED
        BY <1>1, <2>1, <2>4, <4>1, <4>2, <4>3 DEF Present
    <3> QED
      BY <3>1, <3>2
  <2> QED
    BY <2>2, <2>3, <2>4
<1> QED
  BY <1>2, <1>7, <1>8, <1>9, <1>10 DEF Inv

-----------------------------------------------------------------------------
(* The registry.                                                           *)

LEMMA SwapModelStep ==
  ASSUME Inv, "job" \in Trainers, SwapModel
  PROVE  Inv'
<1>1. training["job"] \in 0 .. MaxTrainings
  BY DEF Inv, TypeOK
<1>2. TypeOK'
  BY <1>1 DEF SwapModel, Inv, TypeOK, Goto, PC, Locks, Pair, diskVars
<1>3. VersionsAreWhole' /\ OnlyCrashesLoseVersions'
  BY StillOnDisk DEF SwapModel, diskVars
<1>4. TrainersInv'
  BY DEF SwapModel, Inv, TypeOK, TrainersInv, Goto, Released, diskVars
<1>5. LockInv'
  BY DEF SwapModel, Inv, TypeOK, LockInv, Goto
<1>6. LoaderInv'
  BY DEF SwapModel, Inv, LoaderInv, Released, diskVars
<1>7. RegistryInv'
  BY DEF SwapModel, Inv, TypeOK, RegistryInv, OneDay, Released, diskVars, Pair
<1> QED
  BY <1>2, <1>3, <1>4, <1>5, <1>6, <1>7 DEF Inv

LEMMA SwapScalerStep ==
  ASSUME Inv, "job" \in Trainers, SwapScaler
  PROVE  Inv'
<1> DEFINE n == training["job"]
<1>1. n \in Numbers /\ Released(n, day["job"]) /\ day["job"] \in Days /\ Of(n) \in Pair
  BY OfNumber DEF SwapScaler, Inv, TypeOK, TrainersInv
<1>2. registry.model = n /\ registry \in Pair
  BY DEF SwapScaler, Inv, TypeOK, LockInv, RegistryInv
<1>3. registry' = Of(n) /\ registered' = registered \union {Of(n)}
  BY <1>2 DEF SwapScaler, Of, Pair
<1>4. TypeOK'
  BY <1>1, <1>3 DEF SwapScaler, Inv, TypeOK, Goto, PC, Locks, diskVars
<1>5. VersionsAreWhole' /\ OnlyCrashesLoseVersions'
  BY StillOnDisk DEF SwapScaler, diskVars
<1>6. TrainersInv'
  BY DEF SwapScaler, Inv, TypeOK, TrainersInv, Goto, Released, diskVars
<1>7. LockInv'
  BY DEF SwapScaler, Inv, TypeOK, LockInv, Goto
<1>8. LoaderInv'
  BY DEF SwapScaler, Inv, LoaderInv, Released, diskVars
<1>9. OneDay(Of(n))'
  BY <1>1, OfNumber DEF SwapScaler, OneDay, Released, diskVars
<1>10. RegistryInv'
  BY <1>3, <1>9 DEF SwapScaler, Inv, RegistryInv, OneDay, Released, diskVars
<1> QED
  BY <1>4, <1>5, <1>6, <1>7, <1>8, <1>10 DEF Inv

\* A step of the program that leaves trainers, disk and registry alone.
LEMMA StillTraining ==
  ASSUME Inv, UNCHANGED <<trainVars, diskVars, regLock>>,
         main' \in {"running", "dead", main} \/ main \notin {"running", "dead"}
  PROVE  VersionsAreWhole' /\ OnlyCrashesLoseVersions' /\ TrainersInv' /\ LockInv'
BY DEF Inv, VersionsAreWhole, OnlyCrashesLoseVersions, Present, TrainersInv, LockInv,
       Released, trainVars, diskVars

LEMMA GetStep ==
  ASSUME Inv, Get
  PROVE  Inv'
<1>1. TypeOK'
  BY DEF Get, Inv, TypeOK, trainVars, diskVars
<1>2. VersionsAreWhole' /\ OnlyCrashesLoseVersions' /\ TrainersInv' /\ LockInv'
  BY StillTraining DEF Get
<1>3. LoaderInv' /\ RegistryInv'
  BY DEF Get, Inv, LoaderInv, RegistryInv, OneDay, Released, trainVars, diskVars
<1> QED
  BY <1>1, <1>2, <1>3 DEF Inv

-----------------------------------------------------------------------------
(* Loading.                                                                *)

LEMMA LaunchStep ==
  ASSUME Inv, Launch
  PROVE  Inv'
<1>1. TypeOK'
  BY DEF Launch, Inv, TypeOK, trainVars, diskVars, Main
<1>2. VersionsAreWhole' /\ OnlyCrashesLoseVersions' /\ TrainersInv' /\ LockInv'
  BY StillTraining DEF Launch
<1>3. LoaderInv' /\ RegistryInv'
  BY DEF Launch, Inv, LoaderInv, RegistryInv, OneDay, Released, trainVars, diskVars
<1> QED
  BY <1>1, <1>2, <1>3 DEF Inv

LEMMA PickStep ==
  ASSUME Inv, Resolve \/ CheckFiles
  PROVE  Inv'
<1>1. /\ main \in {"resolve", "check"} /\ main' \in {"check", "scaler", "running", "dead"}
      /\ pick' \in Days
      /\ UNCHANGED <<today, trainVars, diskVars, read, registry, regLock, used, registered>>
  BY DEF Resolve, CheckFiles, Skip, Inv, TypeOK
<1>2. TypeOK'
  BY <1>1 DEF Inv, TypeOK, trainVars, diskVars, Main
<1>3. VersionsAreWhole' /\ OnlyCrashesLoseVersions' /\ TrainersInv' /\ LockInv'
  BY <1>1, StillTraining
<1>4. LoaderInv' /\ RegistryInv'
  BY <1>1 DEF Inv, LoaderInv, RegistryInv, OneDay, Released, trainVars, diskVars
<1> QED
  BY <1>2, <1>3, <1>4 DEF Inv

LEMMA ReadScalerStep ==
  ASSUME Inv, ReadScaler
  PROVE  Inv'
<1>1. /\ main = "scaler" /\ main' \in {"model", "dead"} /\ UNCHANGED pick
      /\ UNCHANGED <<today, trainVars, diskVars, registry, regLock, used, registered>>
  BY DEF ReadScaler, Raise
<1>2. VersionsAreWhole' /\ OnlyCrashesLoseVersions' /\ TrainersInv' /\ LockInv'
  BY <1>1, StillTraining
<1>3. RegistryInv'
  BY <1>1 DEF Inv, RegistryInv, OneDay, Released, trainVars, diskVars
<1>4. main' = "model" =>
        \E n \in Numbers : Released(n, pick) /\ read' = [model |-> 0, scaler |-> n]
  <2> SUFFICES ASSUME main' = "model"
               PROVE  \E n \in Numbers : Released(n, pick) /\ read' = [model |-> 0, scaler |-> n]
    OBVIOUS
  <2>1. Present(pick) /\ read' = [model |-> 0, scaler |-> disk[pick].scaler] /\ pick \in Days
    BY DEF ReadScaler, Raise, Inv, TypeOK
  <2>2. PICK n \in Numbers : <<n, pick>> \in released /\ disk[pick] = Of(n)
    BY <2>1 DEF Inv, VersionsAreWhole, Numbers
  <2> QED
    BY <2>1, <2>2, OfNumber DEF Released
<1>5. LoaderInv'
  BY <1>1, <1>4 DEF LoaderInv, Released, diskVars
<1>6. read' \in Pair
  <2>1. CASE main' = "model"
    BY <1>4, <2>1, ConstantsAssumption DEF Pair, Numbers
  <2>2. CASE main' = "dead"
    BY <2>2 DEF ReadScaler, Raise, Inv, TypeOK
  <2> QED
    BY <1>1, <2>1, <2>2
<1>7. TypeOK'
  BY <1>1, <1>6 DEF Inv, TypeOK, trainVars, diskVars, Main
<1> QED
  BY <1>2, <1>3, <1>5, <1>7 DEF Inv

LEMMA ReadModelStep ==
  ASSUME Inv, ReadModel
  PROVE  Inv'
<1>1. /\ main = "model" /\ main' \in {"running", "dead"} /\ UNCHANGED pick
      /\ UNCHANGED <<today, trainVars, diskVars, regLock, used>>
  BY DEF ReadModel, Raise
<1>2. VersionsAreWhole' /\ OnlyCrashesLoseVersions' /\ TrainersInv' /\ LockInv' /\ LoaderInv'
  BY <1>1, StillTraining DEF LoaderInv
<1>3. CASE UNCHANGED <<read, registry, registered>>
  <2>1. TypeOK'
    BY <1>1, <1>3 DEF Inv, TypeOK, trainVars, diskVars, Main
  <2>2. RegistryInv'
    BY <1>1, <1>3 DEF Inv, RegistryInv, OneDay, Released, trainVars, diskVars
  <2> QED
    BY <1>2, <2>1, <2>2 DEF Inv
<1>4. CASE /\ Present(pick)
           /\ read' = [read EXCEPT !.model = disk[pick].model]
           /\ registry' = read'
           /\ registered' = registered \union {read'}
  <2>1. pick \in Days /\ read \in Pair
    BY DEF Inv, TypeOK
  <2>2. PICK n \in Numbers : <<n, pick>> \in released /\ disk[pick] = Of(n)
    BY <1>4, <2>1 DEF Inv, VersionsAreWhole, Numbers
  <2>3. PICK k \in Numbers : Released(k, pick) /\ read = [model |-> 0, scaler |-> k]
    BY <1>1 DEF Inv, LoaderInv
  <2>4. read' = [model |-> n, scaler |-> k]
    BY <1>4, <2>2, <2>3, OfNumber
  <2>5. read' \in Pair /\ OneDay(read')
    BY <2>1, <2>2, <2>3, <2>4, ConstantsAssumption DEF Pair, Numbers, OneDay, Released
  <2>6. TypeOK'
    BY <1>1, <1>4, <2>5 DEF Inv, TypeOK, trainVars, diskVars, Main
  <2>7. regLock = "free"
    BY <1>1 DEF Inv, TypeOK, LockInv, Locks
  <2>8. RegistryInv'
    BY <1>1, <1>4, <2>5, <2>7 DEF Inv, RegistryInv, OneDay, Released, trainVars, diskVars
  <2> QED
    BY <1>2, <2>6, <2>8 DEF Inv
<1> QED
  BY <1>3, <1>4 DEF ReadModel, Raise

-----------------------------------------------------------------------------
(* Days and crashes.                                                       *)

LEMMA TickStep ==
  ASSUME Inv, NEW d \in Days, Tick(d)
  PROVE  Inv'
<1>1. TypeOK'
  BY DEF Tick, Inv, TypeOK, trainVars, diskVars, liveVars
<1>2. VersionsAreWhole' /\ OnlyCrashesLoseVersions' /\ TrainersInv' /\ LockInv'
  BY StillTraining DEF Tick, liveVars
<1>3. LoaderInv' /\ RegistryInv'
  BY DEF Tick, Inv, LoaderInv, RegistryInv, OneDay, Released, trainVars, diskVars, liveVars
<1> QED
  BY <1>1, <1>2, <1>3 DEF Inv

\* Types of what a crash of a trainer changes, and what holds whatever happens
\* to the registry.
LEMMA AbandonStep ==
  ASSUME Inv, NEW t \in Trainers, Abandon(t)
  PROVE  /\ pc' \in [Trainers -> PC] /\ backup' \in [Trainers -> Pair] /\ lost' \subseteq Days
         /\ \A u \in Trainers : backup'[u] # Nothing => pc'[u] \in {"publish", "failed"}
         /\ VersionsAreWhole' /\ OnlyCrashesLoseVersions' /\ TrainersInv'
<1>1. pc' \in [Trainers -> PC] /\ backup' \in [Trainers -> Pair] /\ lost' \subseteq Days
  BY NothingIsPair DEF Abandon, Inv, TypeOK, PC
<1>2. pc'[t] = "idle" /\ backup'[t] = Nothing
  BY DEF Abandon, Inv, TypeOK
<1>3. \A u \in Trainers \ {t} : pc'[u] = pc[u] /\ backup'[u] = backup[u]
  BY DEF Abandon, Inv, TypeOK
<1>4. \A u \in Trainers : backup'[u] # Nothing => pc'[u] \in {"publish", "failed"}
  BY <1>2, <1>3 DEF Inv, TypeOK
<1>5. VersionsAreWhole'
  BY DEF Abandon, Inv, VersionsAreWhole, Present
<1>6. OnlyCrashesLoseVersions'
  <2> SUFFICES ASSUME NEW n \in Numbers, NEW d \in Days, <<n, d>> \in released
               PROVE  (Present(d) \/ d \in lost
                        \/ \E u \in Trainers : day[u] = d /\ backup[u] # Nothing)'
    BY DEF OnlyCrashesLoseVersions, Numbers, Abandon
  <2>1. CASE Present(d) \/ d \in lost
    BY <2>1 DEF Abandon, Present
  <2>2. CASE \E u \in Trainers : day[u] = d /\ backup[u] # Nothing
    <3>1. PICK u \in Trainers : day[u] = d /\ backup[u] # Nothing
      BY <2>2
    <3>2. CASE u = t
      BY <3>1, <3>2 DEF Abandon
    <3>3. CASE u # t
      BY <1>3, <3>1, <3>3 DEF Abandon
    <3> QED
      BY <3>2, <3>3
  <2> QED
    BY <2>1, <2>2 DEF Inv, OnlyCrashesLoseVersions, Numbers
<1>7. TrainersInv'
  <2> SUFFICES ASSUME NEW u \in Trainers
               PROVE  (/\ pc[u] # "idle" => training[u] \in Numbers
                       /\ backup[u] # Nothing =>
                            \E n \in Numbers : Released(n, day[u]) /\ backup[u] = Of(n)
                       /\ pc[u] \in {"swap", "swapping"} =>
                            u = "job" /\ Released(training[u], day[u]))'
    BY DEF TrainersInv
  <2>1. CASE u = t
    BY <1>2, <2>1
  <2>2. CASE u # t
    BY <1>3, <2>2 DEF Abandon, Inv, TrainersInv, Released
  <2> QED
    BY <2>1, <2>2
<1> QED
  BY <1>1, <1>4, <1>5, <1>6, <1>7

LEMMA CrashScriptStep ==
  ASSUME Inv, CrashScript
  PROVE  Inv'
<1>1. "script" \in Trainers /\ Abandon("script") /\ UNCHANGED liveVars
  BY DEF CrashScript
<1>2. TypeOK'
  BY <1>1, AbandonStep DEF Abandon, Inv, TypeOK, liveVars
<1>3. LockInv'
  BY <1>1 DEF Abandon, Inv, TypeOK, LockInv, liveVars
<1>4. LoaderInv' /\ RegistryInv'
  BY <1>1 DEF Abandon, Inv, LoaderInv, RegistryInv, OneDay, Released, liveVars
<1> QED
  BY <1>1, <1>2, <1>3, <1>4, AbandonStep DEF Inv

LEMMA CrashMainStep ==
  ASSUME Inv, CrashMain
  PROVE  Inv'
<1>1. /\ main' = "down" /\ registry' = Nothing /\ regLock' = "free" /\ read' = Nothing
      /\ used' = Nothing /\ registered' = {Nothing} /\ UNCHANGED pick
  BY DEF CrashMain
<1>2. LoaderInv' /\ RegistryInv'
  BY <1>1 DEF LoaderInv, RegistryInv, OneDay
<1>3. CASE "job" \in Trainers /\ Abandon("job")
  <2>1. TypeOK'
    BY <1>1, <1>3, AbandonStep, NothingIsPair DEF Abandon, Inv, TypeOK, Main, Locks
  <2>2. LockInv'
    BY <1>1, <1>3 DEF Abandon, Inv, TypeOK, LockInv
  <2> QED
    BY <1>2, <1>3, <2>1, <2>2, AbandonStep DEF Inv
<1>4. CASE "job" \notin Trainers /\ UNCHANGED <<today, trainVars, diskVars>>
  <2>1. TypeOK'
    BY <1>1, <1>4, NothingIsPair DEF Inv, TypeOK, Main, Locks, trainVars, diskVars
  <2>2. LockInv'
    BY <1>1, <1>4 DEF LockInv
  <2>3. VersionsAreWhole' /\ OnlyCrashesLoseVersions' /\ TrainersInv'
    BY <1>4 DEF Inv, VersionsAreWhole, OnlyCrashesLoseVersions, Present, TrainersInv,
                Released, trainVars, diskVars
  <2> QED
    BY <1>2, <2>1, <2>2, <2>3 DEF Inv
<1> QED
  BY <1>3, <1>4 DEF CrashMain

LEMMA StutterStep ==
  ASSUME Inv, UNCHANGED vars
  PROVE  Inv'
<1>1. TypeOK'
  BY DEF Inv, TypeOK, vars
<1>2. VersionsAreWhole' /\ OnlyCrashesLoseVersions' /\ TrainersInv' /\ LockInv'
  BY StillTraining DEF vars, trainVars, diskVars, LockInv, Inv
<1>3. LoaderInv' /\ RegistryInv'
  BY DEF Inv, LoaderInv, RegistryInv, OneDay, Released, vars
<1> QED
  BY <1>1, <1>2, <1>3 DEF Inv

LEMMA InvStep == Inv /\ [Next]_vars => Inv'
<1> SUFFICES ASSUME Inv, [Next]_vars PROVE Inv'
  OBVIOUS
<1>1. ASSUME NEW t \in Trainers, Start(t) \/ TrainStep(t) PROVE Inv'
  BY <1>1, StartStep, MoveStep, MoveAwayStep, PublishStep, FailedStep DEF TrainStep
<1>2. CASE Swap
  BY <1>2, SwapModelStep, SwapScalerStep DEF Swap
<1>3. CASE Get \/ Launch
  BY <1>3, GetStep, LaunchStep
<1>4. CASE Load
  BY <1>4, PickStep, ReadScalerStep, ReadModelStep DEF Load
<1>5. ASSUME NEW d \in Days, Tick(d) PROVE Inv'
  BY <1>5, TickStep
<1>6. CASE CrashScript \/ CrashMain
  BY <1>6, CrashScriptStep, CrashMainStep
<1>7. CASE UNCHANGED vars
  BY <1>7, StutterStep
<1> QED
  BY <1>1, <1>2, <1>3, <1>4, <1>5, <1>6, <1>7 DEF Next

LEMMA InvAlways == Spec => []Inv
BY InvInit, InvStep, PTL DEF Spec

-----------------------------------------------------------------------------
(* The theorems.                                                           *)

\* Types; a backup directory is in use only between the two renames and in the
\* handler of train_symbol_model.
THEOREM TypeCorrect == Spec => []TypeOK
<1>1. Inv => TypeOK
  BY DEF Inv
<1> QED
  BY <1>1, InvAlways, PTL

\* A version directory never holds half a training or two halves, with any number
\* of days and trainings and either trainer failing or crashing anywhere.
THEOREM VersionsWhole == Spec => []VersionsAreWhole
<1>1. Inv => VersionsAreWhole
  BY DEF Inv
<1> QED
  BY <1>1, InvAlways, PTL

\* What was released stays, is in a trainer's hands, or was left by a crash (or by
\* a failing restore) between the two renames.
THEOREM VersionsOnlyLostByCrashes == Spec => []OnlyCrashesLoseVersions
<1>1. Inv => OnlyCrashesLoseVersions
  BY DEF Inv
<1> QED
  BY <1>1, InvAlways, PTL

\* The engine never sees a model with the scaler of a swap half done.
THEOREM EnginePairRegistered == Spec => []EngineUsesRegisteredPair
<1>1. Inv => EngineUsesRegisteredPair
  BY DEF Inv, RegistryInv, EngineUsesRegisteredPair
<1> QED
  BY <1>1, InvAlways, PTL

\* The engine never works with parts of two days.
THEOREM LivePairOneDay == Spec => []LivePairIsOfOneDay
<1>1. Inv => LivePairIsOfOneDay
  BY DEF Inv, RegistryInv, OneDay, Released, LivePairIsOfOneDay
<1> QED
  BY <1>1, InvAlways, PTL

\* No model is live that was not put on disk before.
THEOREM LiveWasReleased == Spec => []LiveModelWasReleased
<1>1. ASSUME Inv PROVE LiveModelWasReleased
  <2>1. ASSUME NEW p \in registered, p.model # 0
        PROVE  \E d \in Days : <<p.model, d>> \in released
    <3>1. OneDay(p)
      BY <1>1, <2>1 DEF Inv, RegistryInv
    <3>2. p # Nothing
      BY <2>1 DEF Nothing, Of
    <3> QED
      BY <3>1, <3>2 DEF OneDay, Released
  <2>2. CASE regLock = "free"
    BY <1>1, <2>1, <2>2 DEF Inv, RegistryInv, LiveModelWasReleased
  <2>3. CASE regLock = "held"
    <3>1. \E d \in Days : <<registry.model, d>> \in released
      BY <1>1, <2>3 DEF Inv, TypeOK, LockInv, RegistryInv, TrainersInv, Released
    <3> QED
      BY <1>1, <2>1, <3>1 DEF Inv, RegistryInv, LiveModelWasReleased
  <2> QED
    BY <1>1, <2>2, <2>3 DEF Inv, TypeOK, Locks
<1> QED
  BY <1>1, InvAlways, PTL
=============================================================================
