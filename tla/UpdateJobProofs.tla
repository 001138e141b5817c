---------------------------- MODULE UpdateJobProofs ----------------------------
(***************************************************************************)
(* The safety of UpdateJob, proved for any sets of threads and any bounds. *)
(*                                                                         *)
(* The argument: the running flag has one owner at most                    *)
(* (FlagCoversHandler) and ids are never reused (Fresh), so a worker       *)
(* nobody abandoned belongs to the owner that waits for it                 *)
(* (AttendedByOwner), and the timer is down while the owner is between the *)
(* quiesce and the restore (TimerDown).  A kill is preceded by a mark      *)
(* (KillerMarked, KilledIsMarked), and an outcome is read only after the   *)
(* worker ended (ReadAfterEnd).                                            *)
(***************************************************************************)
EXTENDS UpdateJob, TLAPS

\* The handler has registered its job and spawned nothing yet.
BeforeSpawn == {"stopService", "stopTimer", "restoreService", "unregister", "spawn"}

\* The handler has a worker and has not seen it end.
WithWorker == {"attach", "kill", "join"}

\* The timer was stopped and is not restored yet.
Quiesced == {"spawn", "attach", "kill", "join", "check", "record", "restoreTimer"}

\* The outcome of the worker is known.
Judging == {"record", "restoreTimer", "clear"}

\* No thread, cancel or worker knows an id that was not handed out yet.
Fresh ==
    /\ job.id < nextId
    /\ \A h \in Handlers : jid[h] < nextId
    /\ \A c \in Cancellers : victim[c] < nextId
    /\ \A i \in JobIds : nextId <= i => worker[i] = "none"

\* A job has no worker before its owner spawns one.
NotSpawned == \A h \in Handlers : pc[h] \in BeforeSpawn => worker[jid[h]] = "none"

\* A running worker that nobody abandoned has an owner waiting for it.
AttendedByOwner ==
    \A i \in JobIds : Attended(i) =>
        \E h \in Handlers : pc[h] \in WithWorker /\ jid[h] = i

\* Nobody starts the timer while an owner is between the quiesce and the restore.
TimerDown == \A h \in Handlers : pc[h] \in Quiesced => timer = "inactive"

\* Outside of that the timer is down only if it is known to be lost.
TimerKnown ==
    (\A h \in Handlers : pc[h] \notin Quiesced) => (timer = "inactive" => timerLost)

\* A cancel that kills the registered job has marked it.
KillerMarked ==
    \A c \in Cancellers : victim[c] # 0 /\ victim[c] = job.id => job.terminated

\* So the owner that finds its worker killed finds the mark as well.
KilledIsMarked ==
    \A h \in Handlers :
        pc[h] \in {"attach", "join", "check"} /\ worker[jid[h]] = "killed"
            => job.terminated

\* The exit code is read from a worker that ended and gives a verdict.
ReadAfterEnd ==
    \A h \in Handlers :
        /\ pc[h] \in Judging => outcome[h] # "none"
        /\ pc[h] = "check" => worker[jid[h]] # "running"
        /\ pc[h] \in Judging /\ outcome[h] # "cancelled" => worker[jid[h]] # "running"

\* The inductive invariant.
IInv ==
    /\ TypeOK
    /\ FlagCoversHandler /\ Fresh /\ NotSpawned /\ AttendedByOwner
    /\ TimerDown /\ TimerKnown
    /\ KillerMarked /\ KilledIsMarked /\ ReadAfterEnd /\ KilledIsCancelled
-----------------------------------------------------------------------------
(* Types.                                                                  *)

\* _terminate_process changes one worker's state or leaves it behind.
LEMMA TerminateTypes ==
    ASSUME TypeOK, NEW i \in JobIds, Terminate(i)
    PROVE  worker' \in [JobIds -> WorkerStates] /\ abandoned' \in SUBSET JobIds
  BY DEF TypeOK, Terminate, WorkerStates

\* Every step of Next leaves the globals, the locals of the threads and the
\* state of the workers and units within their types.
LEMMA TypeStep == TypeOK /\ FlagCoversHandler /\ [Next]_vars => TypeOK'
<1>. SUFFICES ASSUME TypeOK, FlagCoversHandler, [Next]_vars PROVE TypeOK'
  OBVIOUS
<1>. USE BoundsAssumption DEF TypeOK, JobIds, NoJob, Outcomes, UnitStates,
         WorkerStates, Steps, Goto, unitVars
<1>1. ASSUME NEW h \in Handlers, Register(h) PROVE TypeOK'
  BY <1>1 DEF Register, Busy
<1>2. ASSUME NEW h \in Handlers, StopService(h) PROVE TypeOK'
  BY <1>2 DEF StopService
<1>3. ASSUME NEW h \in Handlers, StopTimer(h) PROVE TypeOK'
  BY <1>3 DEF StopTimer
<1>4. ASSUME NEW h \in Handlers, RestoreService(h) PROVE TypeOK'
  BY <1>4 DEF RestoreService
<1>5. ASSUME NEW h \in Handlers, Unregister(h) PROVE TypeOK'
  BY <1>5 DEF Unregister, ClearJob
<1>6. ASSUME NEW h \in Handlers, Spawn(h) PROVE TypeOK'
  BY <1>6 DEF Spawn
<1>7. ASSUME NEW h \in Handlers, ForkFails(h) PROVE TypeOK'
  BY <1>7 DEF ForkFails
<1>8. ASSUME NEW h \in Handlers, Attach(h) PROVE TypeOK'
  BY <1>8 DEF Attach
<1>9. ASSUME NEW h \in Handlers, KillOwn(h) PROVE TypeOK'
  <2>1. jid[h] \in 1 .. MaxJobs
    BY <1>9 DEF KillOwn, FlagCoversHandler, Owns
  <2>2. worker' \in [JobIds -> WorkerStates] /\ abandoned' \in SUBSET JobIds
    BY <1>9, <2>1, TerminateTypes DEF KillOwn
  <2>. QED
    BY <1>9, <2>2 DEF KillOwn
<1>10. ASSUME NEW h \in Handlers, Join(h) PROVE TypeOK'
  BY <1>10 DEF Join
<1>11. ASSUME NEW h \in Handlers, Check(h) PROVE TypeOK'
  BY <1>11 DEF Check
<1>12. ASSUME NEW h \in Handlers, Record(h) PROVE TypeOK'
  BY <1>12 DEF Record
<1>13. ASSUME NEW h \in Handlers, RestoreTimer(h) PROVE TypeOK'
  BY <1>13 DEF RestoreTimer
<1>14. ASSUME NEW h \in Handlers, Clear(h) PROVE TypeOK'
  BY <1>14 DEF Clear, ClearJob
<1>15. ASSUME NEW c \in Cancellers, CancelMark(c) PROVE TypeOK'
  BY <1>15 DEF CancelMark
<1>16. ASSUME NEW c \in Cancellers, CancelKill(c) PROVE TypeOK'
  <2>1. victim[c] \in 1 .. MaxJobs
    BY <1>16 DEF CancelKill
  <2>2. worker' \in [JobIds -> WorkerStates] /\ abandoned' \in SUBSET JobIds
    BY <1>16, <2>1, TerminateTypes DEF CancelKill
  <2>. QED
    BY <1>16, <2>2 DEF CancelKill
<1>17. ASSUME NEW i \in JobIds, WorkerExits(i) PROVE TypeOK'
  BY <1>17 DEF WorkerExits
<1>18. CASE TimerFires
  BY <1>18 DEF TimerFires
<1>19. CASE ServiceEnds
  BY <1>19 DEF ServiceEnds
<1>20. CASE ServerDies
  BY <1>20 DEF ServerDies
<1>21. CASE UNCHANGED vars
  BY <1>21 DEF vars
<1>. QED
  BY <1>1, <1>2, <1>3, <1>4, <1>5, <1>6, <1>7, <1>8, <1>9, <1>10, <1>11,
     <1>12, <1>13, <1>14, <1>15, <1>16, <1>17, <1>18, <1>19, <1>20, <1>21
     DEF Next, HandlerStep
-----------------------------------------------------------------------------
(* The inductive step.                                                     *)

\* Every step of a thread, a worker, a unit or the server keeps the invariant.
LEMMA InvStep == IInv /\ [Next]_vars => IInv'
<1>. SUFFICES ASSUME IInv, [Next]_vars PROVE IInv'
  OBVIOUS
<1>t. TypeOK'
  BY TypeStep DEF IInv
<1>. USE <1>t DEF IInv, TypeOK, FlagCoversHandler, Owns, JobIds, NoJob, Goto, unitVars
<1>1. ASSUME NEW h \in Handlers, Register(h) PROVE IInv'
  <2>1. FlagCoversHandler' /\ Fresh'
    BY <1>1 DEF Register, Busy, Fresh
  <2>2. NotSpawned' /\ AttendedByOwner'
    <3>1. \A g \in Handlers : pc[g] = "idle"
      BY <1>1 DEF Register, Busy
    <3>2. worker[nextId] = "none"
      BY <1>1 DEF Register, Busy, Fresh
    <3>3. NotSpawned'
      BY <1>1, <3>1, <3>2 DEF Register, Busy, NotSpawned, BeforeSpawn
    <3>4. AttendedByOwner'
      BY <1>1, <3>1 DEF Register, Busy, AttendedByOwner, Attended, WithWorker
    <3>. QED
      BY <3>3, <3>4
  <2>3. TimerDown' /\ TimerKnown'
    BY <1>1 DEF Register, Busy, TimerDown, TimerKnown, Quiesced, UnitStates
  <2>4. KillerMarked' /\ KilledIsMarked'
    BY <1>1 DEF Register, Busy, KillerMarked, KilledIsMarked, Fresh, NotSpawned,
       BeforeSpawn
  <2>5. ReadAfterEnd' /\ KilledIsCancelled'
    BY <1>1 DEF Register, Busy, ReadAfterEnd, KilledIsCancelled, KilledIsMarked,
       Judging
  <2>. QED
    BY <2>1, <2>2, <2>3, <2>4, <2>5
<1>2. ASSUME NEW h \in Handlers, StopService(h) PROVE IInv'
  <2>1. FlagCoversHandler' /\ Fresh'
    BY <1>2 DEF StopService, Fresh
  <2>2. NotSpawned' /\ AttendedByOwner'
    BY <1>2 DEF StopService, NotSpawned, Fresh, AttendedByOwner, Attended,
       BeforeSpawn, WithWorker
  <2>3. TimerDown' /\ TimerKnown'
    BY <1>2 DEF StopService, TimerDown, TimerKnown, Quiesced, UnitStates
  <2>4. KillerMarked' /\ KilledIsMarked'
    BY <1>2 DEF StopService, KillerMarked, KilledIsMarked, Fresh,
       NotSpawned, BeforeSpawn
  <2>5. ReadAfterEnd' /\ KilledIsCancelled'
    BY <1>2 DEF StopService, ReadAfterEnd, KilledIsCancelled,
       KilledIsMarked, Judging
  <2>. QED
    BY <2>1, <2>2, <2>3, <2>4, <2>5
<1>3. ASSUME NEW h \in Handlers, StopTimer(h) PROVE IInv'
  <2>1. FlagCoversHandler' /\ Fresh'
    BY <1>3 DEF StopTimer, Fresh
  <2>2. NotSpawned' /\ AttendedByOwner'
    BY <1>3 DEF StopTimer, NotSpawned, Fresh, AttendedByOwner, Attended,
       BeforeSpawn, WithWorker
  <2>3. TimerDown' /\ TimerKnown'
    BY <1>3 DEF StopTimer, TimerDown, TimerKnown, Quiesced, UnitStates
  <2>4. KillerMarked' /\ KilledIsMarked'
    BY <1>3 DEF StopTimer, KillerMarked, KilledIsMarked, Fresh, NotSpawned,
       BeforeSpawn
  <2>5. ReadAfterEnd' /\ KilledIsCancelled'
    BY <1>3 DEF StopTimer, ReadAfterEnd, KilledIsCancelled, KilledIsMarked,
       Judging
  <2>. QED
    BY <2>1, <2>2, <2>3, <2>4, <2>5
<1>4. ASSUME NEW h \in Handlers, Unregister(h) PROVE IInv'
  <2>1. FlagCoversHandler' /\ Fresh'
    BY <1>4 DEF Unregister, ClearJob, Fresh
  <2>2. NotSpawned' /\ AttendedByOwner'
    BY <1>4 DEF Unregister, ClearJob, NotSpawned, Fresh, AttendedByOwner,
       Attended, BeforeSpawn, WithWorker
  <2>3. TimerDown' /\ TimerKnown'
    BY <1>4 DEF Unregister, ClearJob, TimerDown, TimerKnown, Quiesced,
       UnitStates
  <2>4. KillerMarked' /\ KilledIsMarked'
    BY <1>4 DEF Unregister, ClearJob, KillerMarked, KilledIsMarked, Fresh,
       NotSpawned, BeforeSpawn
  <2>5. ReadAfterEnd' /\ KilledIsCancelled'
    BY <1>4 DEF Unregister, ClearJob, ReadAfterEnd, KilledIsCancelled,
       KilledIsMarked, Judging
  <2>. QED
    BY <2>1, <2>2, <2>3, <2>4, <2>5
<1>5. ASSUME NEW h \in Handlers, Spawn(h) PROVE IInv'
  <2>1. FlagCoversHandler' /\ Fresh'
    BY <1>5 DEF Spawn, Fresh
  <2>2. NotSpawned' /\ AttendedByOwner'
    BY <1>5 DEF Spawn, NotSpawned, Fresh, AttendedByOwner, Attended,
       BeforeSpawn, WithWorker
  <2>3. TimerDown' /\ TimerKnown'
    BY <1>5 DEF Spawn, TimerDown, TimerKnown, Quiesced, UnitStates
  <2>4. KillerMarked' /\ KilledIsMarked'
    BY <1>5 DEF Spawn, KillerMarked, KilledIsMarked, Fresh, NotSpawned,
       BeforeSpawn
  <2>5. ReadAfterEnd' /\ KilledIsCancelled'
    BY <1>5 DEF Spawn, ReadAfterEnd, KilledIsCancelled, KilledIsMarked,
       Judging
  <2>. QED
    BY <2>1, <2>2, <2>3, <2>4, <2>5
<1>6. ASSUME NEW h \in Handlers, ForkFails(h) PROVE IInv'
  <2>1. FlagCoversHandler' /\ Fresh'
    BY <1>6 DEF ForkFails, Fresh
  <2>2. NotSpawned' /\ AttendedByOwner'
    BY <1>6 DEF ForkFails, NotSpawned, Fresh, AttendedByOwner, Attended,
       BeforeSpawn, WithWorker
  <2>3. TimerDown' /\ TimerKnown'
    BY <1>6 DEF ForkFails, TimerDown, TimerKnown, Quiesced, UnitStates
  <2>4. KillerMarked' /\ KilledIsMarked'
    BY <1>6 DEF ForkFails, KillerMarked, KilledIsMarked, Fresh, NotSpawned,
       BeforeSpawn
  <2>5. ReadAfterEnd' /\ KilledIsCancelled'
    BY <1>6 DEF ForkFails, ReadAfterEnd, KilledIsCancelled, KilledIsMarked,
       Judging
  <2>. QED
    BY <2>1, <2>2, <2>3, <2>4, <2>5
<1>7. ASSUME NEW h \in Handlers, Attach(h) PROVE IInv'
  <2>1. FlagCoversHandler' /\ Fresh'
    BY <1>7 DEF Attach, Fresh
  <2>2. NotSpawned' /\ AttendedByOwner'
    BY <1>7 DEF Attach, NotSpawned, Fresh, AttendedByOwner, Attended,
       BeforeSpawn, WithWorker
  <2>3. TimerDown' /\ TimerKnown'
    BY <1>7 DEF Attach, TimerDown, TimerKnown, Quiesced, UnitStates
  <2>4. KillerMarked' /\ KilledIsMarked'
    BY <1>7 DEF Attach, KillerMarked, KilledIsMarked, Fresh, NotSpawned,
       BeforeSpawn
  <2>5. ReadAfterEnd' /\ KilledIsCancelled'
    BY <1>7 DEF Attach, ReadAfterEnd, KilledIsCancelled, KilledIsMarked,
       Judging
  <2>. QED
    BY <2>1, <2>2, <2>3, <2>4, <2>5
<1>8. ASSUME NEW h \in Handlers, KillOwn(h) PROVE IInv'
  <2>1. FlagCoversHandler' /\ Fresh'
    BY <1>8 DEF KillOwn, Terminate, Fresh
  <2>2. NotSpawned' /\ AttendedByOwner'
    BY <1>8 DEF KillOwn, Terminate, NotSpawned, Fresh, AttendedByOwner,
       Attended, BeforeSpawn, WithWorker
  <2>3. TimerDown' /\ TimerKnown'
    BY <1>8 DEF KillOwn, Terminate, TimerDown, TimerKnown, Quiesced,
       UnitStates
  <2>4. KillerMarked' /\ KilledIsMarked'
    BY <1>8 DEF KillOwn, Terminate, KillerMarked, KilledIsMarked, Fresh,
       NotSpawned, BeforeSpawn
  <2>5. ReadAfterEnd' /\ KilledIsCancelled'
    BY <1>8 DEF KillOwn, Terminate, ReadAfterEnd, KilledIsCancelled,
       KilledIsMarked, Judging
  <2>. QED
    BY <2>1, <2>2, <2>3, <2>4, <2>5
<1>9. ASSUME NEW h \in Handlers, Check(h) PROVE IInv'
  <2>1. FlagCoversHandler' /\ Fresh'
    BY <1>9 DEF Check, Fresh
  <2>2. NotSpawned' /\ AttendedByOwner'
    BY <1>9 DEF Check, NotSpawned, Fresh, AttendedByOwner, Attended,
       BeforeSpawn, WithWorker
  <2>3. TimerDown' /\ TimerKnown'
    BY <1>9 DEF Check, TimerDown, TimerKnown, Quiesced, UnitStates
  <2>4. KillerMarked' /\ KilledIsMarked'
    BY <1>9 DEF Check, KillerMarked, KilledIsMarked, Fresh, NotSpawned,
       BeforeSpawn
  <2>5. ReadAfterEnd' /\ KilledIsCancelled'
    BY <1>9 DEF Check, ReadAfterEnd, KilledIsCancelled, KilledIsMarked,
       Judging
  <2>. QED
    BY <2>1, <2>2, <2>3, <2>4, <2>5
<1>10. ASSUME NEW h \in Handlers, Record(h) PROVE IInv'
  <2>1. FlagCoversHandler' /\ Fresh'
    BY <1>10 DEF Record, Fresh
  <2>2. NotSpawned' /\ AttendedByOwner'
    BY <1>10 DEF Record, NotSpawned, Fresh, AttendedByOwner, Attended,
       BeforeSpawn, WithWorker
  <2>3. TimerDown' /\ TimerKnown'
    BY <1>10 DEF Record, TimerDown, TimerKnown, Quiesced, UnitStates
  <2>4. KillerMarked' /\ KilledIsMarked'
    BY <1>10 DEF Record, KillerMarked, KilledIsMarked, Fresh, NotSpawned,
       BeforeSpawn
  <2>5. ReadAfterEnd' /\ KilledIsCancelled'
    BY <1>10 DEF Record, ReadAfterEnd, KilledIsCancelled, KilledIsMarked,
       Judging
  <2>. QED
    BY <2>1, <2>2, <2>3, <2>4, <2>5
<1>11. ASSUME NEW h \in Handlers, RestoreTimer(h) PROVE IInv'
  <2>1. FlagCoversHandler' /\ Fresh'
    BY <1>11 DEF RestoreTimer, Fresh
  <2>2. NotSpawned' /\ AttendedByOwner'
    BY <1>11 DEF RestoreTimer, NotSpawned, Fresh, AttendedByOwner, Attended,
       BeforeSpawn, WithWorker
  <2>3. TimerDown' /\ TimerKnown'
    BY <1>11 DEF RestoreTimer, TimerDown, TimerKnown, Quiesced, UnitStates
  <2>4. KillerMarked' /\ KilledIsMarked'
    BY <1>11 DEF RestoreTimer, KillerMarked, KilledIsMarked, Fresh,
       NotSpawned, BeforeSpawn
  <2>5. ReadAfterEnd' /\ KilledIsCancelled'
    BY <1>11 DEF RestoreTimer, ReadAfterEnd, KilledIsCancelled,
       KilledIsMarked, Judging
  <2>. QED
    BY <2>1, <2>2, <2>3, <2>4, <2>5
<1>12. ASSUME NEW h \in Handlers, Clear(h) PROVE IInv'
  <2>1. FlagCoversHandler' /\ Fresh'
    BY <1>12 DEF Clear, ClearJob, Fresh
  <2>2. NotSpawned' /\ AttendedByOwner'
    BY <1>12 DEF Clear, ClearJob, NotSpawned, Fresh, AttendedByOwner,
       Attended, BeforeSpawn, WithWorker
  <2>3. TimerDown' /\ TimerKnown'
    BY <1>12 DEF Clear, ClearJob, TimerDown, TimerKnown, Quiesced,
       UnitStates
  <2>4. KillerMarked' /\ KilledIsMarked'
    BY <1>12 DEF Clear, ClearJob, KillerMarked, KilledIsMarked, Fresh,
       NotSpawned, BeforeSpawn
  <2>5. ReadAfterEnd' /\ KilledIsCancelled'
    BY <1>12 DEF Clear, ClearJob, ReadAfterEnd, KilledIsCancelled,
       KilledIsMarked, Judging
  <2>. QED
    BY <2>1, <2>2, <2>3, <2>4, <2>5
<1>13. ASSUME NEW c \in Cancellers, CancelMark(c) PROVE IInv'
  <2>1. FlagCoversHandler' /\ Fresh'
    BY <1>13 DEF CancelMark, Fresh
  <2>2. NotSpawned' /\ AttendedByOwner'
    BY <1>13 DEF CancelMark, NotSpawned, Fresh, AttendedByOwner, Attended,
       BeforeSpawn, WithWorker
  <2>3. TimerDown' /\ TimerKnown'
    BY <1>13 DEF CancelMark, TimerDown, TimerKnown, Quiesced, UnitStates
  <2>4. KillerMarked' /\ KilledIsMarked'
    BY <1>13 DEF CancelMark, KillerMarked, KilledIsMarked, Fresh,
       NotSpawned, BeforeSpawn
  <2>5. ReadAfterEnd' /\ KilledIsCancelled'
    BY <1>13 DEF CancelMark, ReadAfterEnd, KilledIsCancelled,
       KilledIsMarked, Judging
  <2>. QED
    BY <2>1, <2>2, <2>3, <2>4, <2>5
<1>14. ASSUME NEW c \in Cancellers, CancelKill(c) PROVE IInv'
  <2>1. FlagCoversHandler' /\ Fresh'
    BY <1>14 DEF CancelKill, Terminate, Fresh
  <2>2. NotSpawned' /\ AttendedByOwner'
    BY <1>14 DEF CancelKill, Terminate, NotSpawned, Fresh, AttendedByOwner,
       Attended, BeforeSpawn, WithWorker
  <2>3. TimerDown' /\ TimerKnown'
    BY <1>14 DEF CancelKill, Terminate, TimerDown, TimerKnown, Quiesced,
       UnitStates
  <2>4. KillerMarked' /\ KilledIsMarked'
    BY <1>14 DEF CancelKill, Terminate, KillerMarked, KilledIsMarked, Fresh,
       NotSpawned, BeforeSpawn
  <2>5. ReadAfterEnd' /\ KilledIsCancelled'
    BY <1>14 DEF CancelKill, Terminate, ReadAfterEnd, KilledIsCancelled,
       KilledIsMarked, Judging
  <2>. QED
    BY <2>1, <2>2, <2>3, <2>4, <2>5
<1>15. CASE ServerDies
  <2>1. FlagCoversHandler' /\ Fresh'
    BY <1>15 DEF ServerDies, Fresh
  <2>2. NotSpawned' /\ AttendedByOwner'
    BY <1>15 DEF ServerDies, NotSpawned, Fresh, AttendedByOwner, Attended,
       BeforeSpawn, WithWorker
  <2>3. TimerDown' /\ TimerKnown'
    BY <1>15 DEF ServerDies, TimerDown, TimerKnown, Quiesced, UnitStates
  <2>4. KillerMarked' /\ KilledIsMarked'
    BY <1>15 DEF ServerDies, KillerMarked, KilledIsMarked, Fresh,
       NotSpawned, BeforeSpawn
  <2>5. ReadAfterEnd' /\ KilledIsCancelled'
    BY <1>15 DEF ServerDies, ReadAfterEnd, KilledIsCancelled,
       KilledIsMarked, Judging
  <2>. QED
    BY <2>1, <2>2, <2>3, <2>4, <2>5
\* The remaining steps touch little of what the invariant speaks of.
<1>. USE DEF Fresh, NotSpawned, AttendedByOwner, Attended, TimerDown, TimerKnown,
       KillerMarked, KilledIsMarked, ReadAfterEnd, KilledIsCancelled,
       BeforeSpawn, WithWorker, Quiesced, Judging
<1>16. ASSUME NEW h \in Handlers, RestoreService(h) PROVE IInv'
  BY <1>16 DEF RestoreService
<1>17. ASSUME NEW h \in Handlers, Join(h) PROVE IInv'
  BY <1>17 DEF Join
<1>18. ASSUME NEW i \in JobIds, WorkerExits(i) PROVE IInv'
  BY <1>18 DEF WorkerExits
<1>19. CASE TimerFires
  BY <1>19 DEF TimerFires
<1>20. CASE ServiceEnds
  BY <1>20 DEF ServiceEnds
<1>21. CASE UNCHANGED vars
  BY <1>21 DEF vars
<1>. HIDE DEF IInv, TypeOK
<1>. QED
  BY <1>1, <1>2, <1>3, <1>4, <1>5, <1>6, <1>7, <1>8, <1>9, <1>10, <1>11,
     <1>12, <1>13, <1>14, <1>15, <1>16, <1>17, <1>18, <1>19, <1>20, <1>21
     DEF Next, HandlerStep

-----------------------------------------------------------------------------
(* The invariants of the runs, for every number of threads and jobs.       *)

\* A freshly started server satisfies the invariant.
LEMMA InitInv == Init => IInv
<1>. SUFFICES ASSUME Init PROVE IInv
  OBVIOUS
<1>. USE DEF Init, NoJob, JobIds
<1>1. TypeOK
  BY BoundsAssumption DEF TypeOK, UnitStates, Outcomes, WorkerStates, Steps
<1>2. FlagCoversHandler /\ Fresh /\ NotSpawned /\ AttendedByOwner
  BY DEF FlagCoversHandler, Owns, Fresh, NotSpawned, AttendedByOwner, Attended, BeforeSpawn
<1>3. TimerDown /\ TimerKnown
  BY DEF TimerDown, TimerKnown, Quiesced
<1>4. KillerMarked /\ KilledIsMarked /\ ReadAfterEnd /\ KilledIsCancelled
  BY DEF KillerMarked, KilledIsMarked, ReadAfterEnd, KilledIsCancelled, Judging
<1>. QED
  BY <1>1, <1>2, <1>3, <1>4 DEF IInv

\* The invariant holds in every state the server can reach.
LEMMA Invariance == Spec => []IInv
  BY InitInv, InvStep, PTL DEF Spec

\* The globals of serve.py, the locals of its threads and the states of the
\* workers and units stay within their types.
THEOREM TypeCorrect == Spec => []TypeOK
<1>. IInv => TypeOK
  BY DEF IInv
<1>. QED
  BY Invariance, PTL

\* At most one endpoint-triggered update runs per server process, however many
\* threads answer posts: a worker nobody abandoned has the one owner of the flag.
THEOREM OneUpdate == Spec => []AtMostOneUpdate
<1>. IInv => AtMostOneUpdate
  BY DEF IInv, AtMostOneUpdate, AttendedByOwner, FlagCoversHandler, Owns, WithWorker
<1>. QED
  BY Invariance, PTL

\* A thread that works on an update holds the flag alone and under its own id.
THEOREM FlagOwned == Spec => []FlagCoversHandler
<1>. IInv => FlagCoversHandler
  BY DEF IInv, FlagCoversHandler, FlagCoversHandler
<1>. QED
  BY Invariance, PTL

\* While an attended worker runs, the timer is down.
THEOREM Quiescence == Spec => []QuiescedWhileRunning
<1>. IInv => QuiescedWhileRunning
  BY DEF IInv, QuiescedWhileRunning, AttendedByOwner, TimerDown, WithWorker, Quiesced
<1>. QED
  BY Invariance, PTL

\* A worker that a cancel killed is reported as cancelled.
THEOREM KillReported == Spec => []KilledIsCancelled
<1>. IInv => KilledIsCancelled
  BY DEF IInv
<1>. QED
  BY Invariance, PTL

\* With the flag clear the timer is up, unless a failure lost it.
THEOREM TimerRestored == Spec => []TimerBackWhenIdle
<1>. IInv => TimerBackWhenIdle
  BY DEF IInv, TimerBackWhenIdle, TimerKnown, FlagCoversHandler, Owns, Quiesced, NoJob
<1>. QED
  BY Invariance, PTL

-----------------------------------------------------------------------------
(* The refinement of UpdateSlot.                                           *)

\* A server without a job has the slot free and no verdict.
LEMMA SlotInitial == Init => Slot!SlotInit
  BY DEF Init, Slot!SlotInit, NoJob

\* Registration grants the slot, recording judges, clearing releases, and a new
\* server forgets; every other step leaves the slot alone.
LEMMA SlotStep == IInv /\ [Next]_vars => [Slot!SlotNext]_(Slot!slotVars)
<1>. SUFFICES ASSUME IInv, [Next]_vars
              PROVE  Slot!SlotNext \/ UNCHANGED Slot!slotVars
  OBVIOUS
<1>. DEFINE Judged == \E h \in Handlers : pc[h] \in {"restoreTimer", "clear"}
<1>. USE DEF IInv, TypeOK, FlagCoversHandler, Owns, NoJob, JobIds, Outcomes, Steps, Goto
<1>. USE BoundsAssumption
<1>1. ASSUME NEW h \in Handlers, Register(h) PROVE Slot!Grant
  <2>1. /\ job.id = 0 /\ nextId - 1 < MaxJobs
        /\ (nextId - 1)' = (nextId - 1) + 1
        /\ job'.id = (nextId - 1) + 1
        /\ last' = last
    BY <1>1 DEF Register, Busy
  <2>2. Judged' = Judged
    BY <1>1, Zenon DEF Register, Busy
  <2>. QED
    BY <2>1, <2>2 DEF Slot!Grant
<1>2. ASSUME NEW h \in Handlers, Record(h) PROVE Slot!Judge
  <2>1. /\ job.id # 0 /\ ~Judged /\ Judged'
        /\ last' \in {"ok", "failed", "cancelled"}
        /\ UNCHANGED <<job, nextId>>
    BY <1>2 DEF Record, ReadAfterEnd, Judging
  <2>2. Judged = FALSE /\ Judged' = TRUE
    BY <2>1, Zenon
  <2>. QED
    BY <2>1, <2>2 DEF Slot!Judge
<1>3. ASSUME NEW h \in Handlers, Unregister(h) \/ Clear(h) PROVE Slot!Release
  <2>1. job.id # 0 /\ job'.id = 0 /\ ~Judged' /\ UNCHANGED <<nextId, last>>
    <3>1. CASE Unregister(h)
      BY <3>1 DEF Unregister, ClearJob
    <3>2. CASE Clear(h)
      BY <3>2 DEF Clear, ClearJob
    <3>. QED
      BY <1>3, <3>1, <3>2
  <2>2. Judged' = FALSE
    BY <2>1, Zenon
  <2>. QED
    BY <2>1, <2>2 DEF Slot!Release
<1>4. CASE ServerDies
  <2>1. job'.id = 0 /\ ~Judged' /\ last' = "none" /\ UNCHANGED nextId
    BY <1>4 DEF ServerDies
  <2>2. Judged' = FALSE
    BY <2>1, Zenon
  <2>. QED
    BY <2>1, <2>2 DEF Slot!Forget, Slot!SlotNext
<1>. USE DEF Slot!slotVars
<1>5. ASSUME NEW h \in Handlers,
             StopService(h) \/ StopTimer(h) \/ RestoreService(h) \/ Spawn(h)
             \/ ForkFails(h) \/ Attach(h)
      PROVE  UNCHANGED Slot!slotVars
  BY <1>5 DEF StopService, StopTimer, RestoreService, Spawn, ForkFails, Attach
<1>6. ASSUME NEW h \in Handlers,
             KillOwn(h) \/ Join(h) \/ Check(h) \/ RestoreTimer(h)
      PROVE  UNCHANGED Slot!slotVars
  BY <1>6 DEF KillOwn, Join, Check, RestoreTimer
<1>7. ASSUME NEW c \in Cancellers, CancelMark(c) \/ CancelKill(c)
      PROVE  UNCHANGED Slot!slotVars
  BY <1>7 DEF CancelMark, CancelKill
<1>8. ASSUME NEW i \in JobIds, WorkerExits(i) PROVE UNCHANGED Slot!slotVars
  BY <1>8 DEF WorkerExits
<1>9. CASE TimerFires \/ ServiceEnds \/ UNCHANGED vars
  BY <1>9 DEF TimerFires, ServiceEnds, vars
<1>. HIDE DEF IInv, TypeOK
<1>. QED
  BY <1>1, <1>2, <1>3, <1>4, <1>5, <1>6, <1>7, <1>8, <1>9
     DEF Next, HandlerStep, Slot!SlotNext

\* Threads, workers and units together hand out one slot at a time and at most
\* one verdict for each grant, whatever the number of threads.
THEOREM SlotRefinement == Spec => ImplementsSlot
  BY SlotInitial, SlotStep, Invariance, PTL DEF Spec, ImplementsSlot, Slot!SlotSpec
=============================================================================
