----------------------------- MODULE ModelArtifacts -----------------------------
(***************************************************************************)
(* The weights of one symbol: trainings write them to a directory per day, *)
(* the program loads the newest when it starts and swaps a model just      *)
(* trained into the registry, from which the anomaly engine takes it.      *)
(*                                                                         *)
(* Two trainers use the same directories: the scheduled job, a thread of   *)
(* the program, and scripts/train_anomaly_detector.py, a process of its    *)
(* own.  Each access to a directory the other one sees is a step; the      *)
(* temporary directory is a trainer's own.  Trainings are numbered in the  *)
(* order of their start; a model and its scaler are named by the number.   *)
(***************************************************************************)
EXTENDS Naturals

CONSTANTS
  Trainers,       \* "job", "script", or both
  Days,           \* dates of version directories: a later one sorts higher
  MaxTrainings    \* bound: trainings in a behaviour

ASSUME ConstantsAssumption ==
  /\ Trainers \subseteq {"job", "script"}
  /\ Days \subseteq Nat /\ Days # {}
  /\ MaxTrainings \in Nat

VARIABLES
  today,       \* datetime.now().date()
  disk,        \* the version directory of each day
  started,     \* trainings started so far
  pc,          \* where each trainer is
  training,    \* the number of the trainer's training
  day,         \* the day of its version directory
  backup,      \* what is in its backup directory
  main,        \* where the program is: loading, then the anomaly engine
  pick,        \* the version directory being loaded
  read,        \* what was loaded so far
  registry,    \* ModelRegistry
  regLock,     \* the symbol's lock in the registry
  used,        \* the pair the engine works with
  released,    \* history: trainings put in place, each with its day
  registered,  \* history: pairs passed to register
  lost         \* history: days of a backup nobody will put back

vars == <<today, disk, started, pc, training, day, backup, main, pick, read,
          registry, regLock, used, released, registered, lost>>

diskVars == <<disk, released, lost>>
trainVars == <<started, pc, training, day, backup>>
liveVars == <<main, pick, read, registry, regLock, used, registered>>

\* A model and a scaler, each by the number of its training; 0 is none.
Pair == [model : 0 .. MaxTrainings, scaler : 0 .. MaxTrainings]

Of(n) == [model |-> n, scaler |-> n]

Nothing == Of(0)

PC == {"idle", "training", "exists", "moveAway", "publish", "failed",
       "swap", "swapping"}

Main == {"down",                                 \* crashed, or not started
         "resolve", "check", "scaler", "model",  \* load_model_into_registry
         "running",                              \* the engine's loop
         "dead"}                                 \* its task ended

Locks == {"free", "held"}

Init ==
  /\ today \in Days
  /\ disk = [d \in Days |-> Nothing]
  /\ started = 0
  /\ pc = [t \in Trainers |-> "idle"]
  /\ training = [t \in Trainers |-> 0]
  /\ day = [t \in Trainers |-> today]
  /\ backup = [t \in Trainers |-> Nothing]
  /\ main = "down"
  /\ pick = today
  /\ read = Nothing
  /\ registry = Nothing
  /\ regLock = "free"
  /\ used = Nothing
  /\ released = {}
  /\ registered = {Nothing}
  /\ lost = {}

Present(d) == disk[d] # Nothing

Goto(t, l) == pc' = [pc EXCEPT ![t] = l]

-----------------------------------------------------------------------------
(* train_symbol_model.                                                     *)

\* The job runs in the program, one at a time, long after the start; the date
\* is taken before the training.
Start(t) ==
  /\ pc[t] = "idle"
  /\ started < MaxTrainings
  /\ t = "job" => main \in {"running", "dead"}
  /\ started' = started + 1
  /\ training' = [training EXCEPT ![t] = started + 1]
  /\ day' = [day EXCEPT ![t] = today]
  /\ Goto(t, "training")
  /\ UNCHANGED <<today, backup, diskVars, liveVars>>

\* No data, no continuous window, or an exception before anything was written.
GiveUp(t) ==
  /\ pc[t] = "training"
  /\ Goto(t, "idle")
  /\ UNCHANGED <<today, started, training, day, backup, diskVars, liveVars>>

\* Trained and calibrated: scaler and weights are in the temporary directory,
\* or writing them raised.
Prepare(t) ==
  /\ pc[t] = "training"
  /\ \/ Goto(t, "exists")
     \/ Goto(t, "failed")
  /\ UNCHANGED <<today, started, training, day, backup, diskVars, liveVars>>

\* Fault: an existing version directory is written to, file by file.
CheckExistsInPlace(t) ==
  /\ pc[t] = "exists"
  /\ Goto(t, "publish")
  /\ disk' = [disk EXCEPT ![day[t]].scaler = training[t]]
  /\ UNCHANGED <<today, started, training, day, backup, released, lost, liveVars>>

\* if version_dir.exists()
CheckExists(t) ==
  /\ pc[t] = "exists"
  /\ Goto(t, IF Present(day[t]) THEN "moveAway" ELSE "publish")
  /\ UNCHANGED <<today, started, training, day, backup, diskVars, liveVars>>

\* version_dir.replace(backup_dir); it raises when the directory is gone.
MoveAway(t) ==
  /\ pc[t] = "moveAway"
  /\ \/ /\ Present(day[t])
        /\ backup' = [backup EXCEPT ![t] = disk[day[t]]]
        /\ disk' = [disk EXCEPT ![day[t]] = Nothing]
        /\ Goto(t, "publish")
     \/ /\ Goto(t, "failed")
        /\ UNCHANGED <<backup, disk>>
  /\ UNCHANGED <<today, started, training, day, released, lost, liveVars>>

\* After the write: the backup is removed, and the job swaps the model in.
Written(t) ==
  /\ backup' = [backup EXCEPT ![t] = Nothing]
  /\ Goto(t, IF t = "job" THEN "swap" ELSE "idle")

\* tmp_dir.replace(version_dir); it raises when somebody put one there.
Publish(t) ==
  /\ pc[t] = "publish"
  /\ \/ /\ ~Present(day[t])
        /\ disk' = [disk EXCEPT ![day[t]] = Of(training[t])]
        /\ released' = released \union {<<training[t], day[t]>>}
        /\ Written(t)
     \/ /\ Goto(t, "failed")
        /\ UNCHANGED <<disk, released, backup>>
  /\ UNCHANGED <<today, started, training, day, lost, liveVars>>

\* Fault: the handler does not put the backup back.
FailedForgetful(t) ==
  /\ pc[t] = "failed"
  /\ backup' = [backup EXCEPT ![t] = Nothing]
  /\ Goto(t, "idle")
  /\ UNCHANGED <<today, started, training, day, diskVars, liveVars>>

\* The handler: the backup comes back unless there is a version directory; that
\* rename, too, may raise.
Failed(t) ==
  /\ pc[t] = "failed"
  /\ \/ /\ backup[t] # Nothing /\ ~Present(day[t])
        /\ \/ /\ disk' = [disk EXCEPT ![day[t]] = backup[t]]
              /\ UNCHANGED lost
           \/ /\ lost' = lost \union {day[t]}
              /\ UNCHANGED disk
     \/ /\ backup[t] = Nothing \/ Present(day[t])
        /\ UNCHANGED <<disk, lost>>
  /\ backup' = [backup EXCEPT ![t] = Nothing]
  /\ Goto(t, "idle")
  /\ UNCHANGED <<today, started, training, day, released, liveVars>>

Tick(d) ==
  /\ d > today
  /\ today' = d
  /\ UNCHANGED <<trainVars, diskVars, liveVars>>

-----------------------------------------------------------------------------
(* The registry.                                                           *)

\* register, under the symbol's lock: the model ...
SwapModel ==
  /\ pc["job"] = "swap"
  /\ regLock = "free"
  /\ regLock' = "held"
  /\ registry' = [registry EXCEPT !.model = training["job"]]
  /\ Goto("job", "swapping")
  /\ UNCHANGED <<today, started, training, day, backup, diskVars,
                 main, pick, read, used, registered>>

\* Fault: the lock is not released.
SwapScalerKeepsLock ==
  /\ pc["job"] = "swapping"
  /\ registry' = [registry EXCEPT !.scaler = training["job"]]
  /\ registered' = registered \union {Of(training["job"])}
  /\ Goto("job", "idle")
  /\ UNCHANGED <<today, started, training, day, backup, diskVars,
                 main, pick, read, regLock, used>>

\* ... and the scaler.
SwapScaler ==
  /\ pc["job"] = "swapping"
  /\ regLock' = "free"
  /\ registry' = [registry EXCEPT !.scaler = training["job"]]
  /\ registered' = registered \union {Of(training["job"])}
  /\ Goto("job", "idle")
  /\ UNCHANGED <<today, started, training, day, backup, diskVars,
                 main, pick, read, used>>

\* Fault: get without the lock.
GetUnlocked ==
  /\ main = "running"
  /\ used' = registry
  /\ UNCHANGED <<today, trainVars, diskVars, main, pick, read, registry, regLock, registered>>

\* The engine takes model and scaler once for a symbol's inference.
Get ==
  /\ main = "running"
  /\ regLock = "free"
  /\ used' = registry
  /\ UNCHANGED <<today, trainVars, diskVars, main, pick, read, registry, regLock, registered>>

-----------------------------------------------------------------------------
(* load_model_into_registry, when the program starts.                      *)

Launch ==
  /\ main = "down"
  /\ main' = "resolve"
  /\ UNCHANGED <<today, trainVars, diskVars, pick, read, registry, regLock, used, registered>>

\* Nothing was loaded: the engine goes on with the other symbols, or ends when
\* there is none.
Skip == main' \in {"running", "dead"} /\ UNCHANGED <<pick, read>>

Raise == main' = "dead" /\ UNCHANGED <<pick, read>>

\* The newest directory with both files.  (The files of the time before the
\* version directories are in the repository no more.)
Resolve ==
  /\ main = "resolve"
  /\ \/ \E d \in Days :
          /\ Present(d)
          /\ \A e \in Days : Present(e) => e <= d
          /\ pick' = d
          /\ main' = "check"
          /\ UNCHANGED read
     \/ /\ \A d \in Days : ~Present(d)
        /\ Skip
  /\ UNCHANGED <<today, trainVars, diskVars, registry, regLock, used, registered>>

\* The files are looked for once more.
CheckFiles ==
  /\ main = "check"
  /\ \/ /\ Present(pick)
        /\ main' = "scaler"
        /\ UNCHANGED <<pick, read>>
     \/ /\ ~Present(pick)
        /\ Skip
  /\ UNCHANGED <<today, trainVars, diskVars, registry, regLock, used, registered>>

\* scaler.json first; nobody catches the exception when it is gone.
ReadScaler ==
  /\ main = "scaler"
  /\ \/ /\ Present(pick)
        /\ read' = [model |-> 0, scaler |-> disk[pick].scaler]
        /\ main' = "model"
        /\ UNCHANGED pick
     \/ /\ ~Present(pick)
        /\ Raise
  /\ UNCHANGED <<today, trainVars, diskVars, registry, regLock, used, registered>>

\* Fault: the newest directory is looked up again for the model.
ReadModelAgain ==
  /\ main = "model"
  /\ \E d \in Days :
       /\ Present(d)
       /\ \A e \in Days : Present(e) => e <= d
       /\ read' = [read EXCEPT !.model = disk[d].model]
  /\ registry' = read'
  /\ registered' = registered \union {read'}
  /\ main' = "running"
  /\ UNCHANGED <<today, trainVars, diskVars, pick, regLock, used>>

\* Then model.pt, and both are registered; weights of another scaler's shape
\* raise.
ReadModel ==
  /\ main = "model"
  /\ \/ /\ Present(pick)
        /\ read' = [read EXCEPT !.model = disk[pick].model]
        /\ registry' = read'
        /\ registered' = registered \union {read'}
        /\ main' = "running"
        /\ UNCHANGED pick
     \/ /\ ~Present(pick) \/ disk[pick].model # read.scaler
        /\ Raise
        /\ UNCHANGED <<registry, registered>>
  /\ UNCHANGED <<today, trainVars, diskVars, regLock, used>>

-----------------------------------------------------------------------------
(* Crashes.                                                                *)

\* A trainer is gone; what it had in its backup directory stays there.
Abandon(t) ==
  /\ pc' = [pc EXCEPT ![t] = "idle"]
  /\ backup' = [backup EXCEPT ![t] = Nothing]
  /\ lost' = IF backup[t] # Nothing THEN lost \union {day[t]} ELSE lost
  /\ UNCHANGED <<today, started, training, day, disk, released>>

CrashScript ==
  /\ "script" \in Trainers
  /\ pc["script"] # "idle"
  /\ Abandon("script")
  /\ UNCHANGED liveVars

\* The program's crash ends the job's thread and empties the registry.
CrashMain ==
  /\ main # "down"
  /\ main' = "down"
  /\ registry' = Nothing
  /\ regLock' = "free"
  /\ read' = Nothing
  /\ used' = Nothing
  /\ registered' = {Nothing}
  /\ \/ "job" \in Trainers /\ Abandon("job")
     \/ "job" \notin Trainers /\ UNCHANGED <<today, trainVars, diskVars>>
  /\ UNCHANGED pick

TrainStep(t) ==
  \/ GiveUp(t) \/ Prepare(t) \/ CheckExists(t) \/ MoveAway(t) \/ Publish(t)
  \/ Failed(t)

Swap == "job" \in Trainers /\ (SwapModel \/ SwapScaler)

Load == Resolve \/ CheckFiles \/ ReadScaler \/ ReadModel

Next ==
  \/ \E t \in Trainers : Start(t) \/ TrainStep(t)
  \/ Swap
  \/ Get
  \/ Launch
  \/ Load
  \/ \E d \in Days : Tick(d)
  \/ CrashScript
  \/ CrashMain

Spec == Init /\ [][Next]_vars

\* Threads and processes run until they crash.
Fairness ==
  /\ \A t \in Trainers : WF_vars(TrainStep(t))
  /\ WF_vars(Swap)

FairSpec == Spec /\ Fairness
-----------------------------------------------------------------------------
(* Properties.                                                             *)

\* Types; a backup directory is in use only between the two renames and in the
\* handler.
TypeOK ==
  /\ today \in Days
  /\ disk \in [Days -> Pair]
  /\ started \in 0 .. MaxTrainings
  /\ pc \in [Trainers -> PC]
  /\ training \in [Trainers -> 0 .. MaxTrainings]
  /\ day \in [Trainers -> Days]
  /\ backup \in [Trainers -> Pair]
  /\ \A t \in Trainers : backup[t] # Nothing => pc[t] \in {"publish", "failed"}
  /\ main \in Main
  /\ pick \in Days
  /\ read \in Pair
  /\ registry \in Pair
  /\ regLock \in Locks
  /\ used \in Pair
  /\ released \subseteq (1 .. MaxTrainings) \X Days
  /\ registered \subseteq Pair
  /\ lost \subseteq Days

\* A version directory holds the model and the scaler of one training that was
\* released for its day, whichever trainer replaced, failed, restored or crashed
\* meanwhile.
VersionsAreWhole ==
  \A d \in Days : Present(d) => \E n \in 1 .. MaxTrainings :
    <<n, d>> \in released /\ disk[d] = Of(n)

\* A day that had a version directory has one, or a trainer is between its two
\* renames and holds the old one, or died there, or could not put it back: a
\* failed write, or two trainers in each other's way, never cost the last version
\* by themselves; it takes a crash or a restoring rename that raises, too.
OnlyCrashesLoseVersions ==
  \A n \in 1 .. MaxTrainings, d \in Days : <<n, d>> \in released =>
    \/ Present(d)
    \/ d \in lost
    \/ \E t \in Trainers : day[t] = d /\ backup[t] # Nothing

\* Nothing is live that was not on disk first: a training whose write failed is
\* neither in the registry nor with the engine.
LiveModelWasReleased ==
  \A p \in {registry, used} :
    p.model # 0 => \E d \in Days : <<p.model, d>> \in released

\* The engine works with a pair that was registered as a pair, although a swap
\* in the job's thread may come between any two steps of the event loop.
EngineUsesRegisteredPair == used \in registered

\* The parts of a live pair belong to version directories of one day: a script
\* that replaces the directory under the loader can mix two trainings of that
\* day, but nothing else.
LivePairIsOfOneDay ==
  used # Nothing => \E d \in Days :
    <<used.model, d>> \in released /\ <<used.scaler, d>> \in released

\* A training ends, with or without a release, or with its process.
TrainingsEnd == \A t \in Trainers : pc[t] # "idle" ~> pc[t] = "idle"
=============================================================================
