------------------------------- MODULE UpdateJob -------------------------------
(***************************************************************************)
(* The life cycle of an endpoint-triggered update in the dashboard server  *)
(* (visual/web/backend/serve.py): the threads serving POST /api/update,    *)
(* the threads serving POST /api/cancel, the spawned worker processes, the *)
(* systemd update service and its timer, and the death of the server.      *)
(*                                                                         *)
(* The module globals are job (_update_job), last (_update_last) and       *)
(* nextId (the next value of _update_ids).  One action is one critical     *)
(* section under _update_lock, one systemctl call or one call that blocks: *)
(* between two of them every other thread may run.                         *)
(***************************************************************************)
EXTENDS Naturals

CONSTANTS
    Handlers,   \* threads that may serve POST /api/update
    Cancellers, \* threads that may serve POST /api/cancel
    MaxJobs,    \* bound: jobs registered in one behaviour
    MaxDeaths   \* bound: deaths (and restarts) of the server process

ASSUME BoundsAssumption == MaxJobs \in Nat /\ MaxDeaths \in Nat

VARIABLES
    job,        \* _update_job; id = 0 stands for None
    last,       \* _update_last, its error text reduced to the kind of outcome
    nextId,     \* the id the next registered job gets
    pc,         \* what each update thread does next
    jid,        \* its local job_id; 0 outside the handler
    outcome,    \* what it is going to record
    victim,     \* the process each cancel thread is killing; 0 when none
    worker,     \* the state of each job's worker process
    timer,      \* asalloc-update.timer
    service,    \* asalloc-update.service (a oneshot: active while it runs)
    deaths,     \* server deaths so far
    abandoned,  \* history: workers no thread of the server waits for
    timerLost   \* history: the timer is stopped and nobody will restart it

unitVars == <<timer, service>>
vars == <<job, last, nextId, pc, jid, outcome, victim, worker,
          timer, service, deaths, abandoned, timerLost>>

JobIds == 1 .. MaxJobs
NoJob == [id |-> 0, process |-> FALSE, terminated |-> FALSE]
Outcomes == {"none", "ok", "failed", "cancelled"}
UnitStates == {"active", "inactive"}
WorkerStates == {"none", "running", "ok", "failed", "killed"}

\* The steps of _run_update; every step but "idle" runs with a registered job.
Steps == {"idle", "stopService", "stopTimer", "restoreService", "unregister",
          "spawn", "attach", "kill", "join", "check", "record",
          "restoreTimer", "clear"}

Goto(h, step) == pc' = [pc EXCEPT ![h] = step]

Init ==
    /\ job = NoJob
    /\ last = "none"
    /\ nextId = 1
    /\ pc = [h \in Handlers |-> "idle"]
    /\ jid = [h \in Handlers |-> 0]
    /\ outcome = [h \in Handlers |-> "none"]
    /\ victim = [c \in Cancellers |-> 0]
    /\ worker = [i \in JobIds |-> "none"]
    /\ timer \in UnitStates
    /\ service \in UnitStates
    /\ deaths = 0
    /\ abandoned = {}
    /\ timerLost = (timer = "inactive")

-----------------------------------------------------------------------------
(* POST /api/update: registration and the quiesce of the systemd units.    *)

\* Mutant: no update is refused.
MutNeverBusy == FALSE

\* A thread that finds a job registered answers 409 and changes nothing.
Busy == job # NoJob

\* Under _update_lock.
Register(h) ==
    /\ pc[h] = "idle"
    /\ ~Busy
    /\ nextId \in JobIds
    /\ job' = [id |-> nextId, process |-> FALSE, terminated |-> FALSE]
    /\ jid' = [jid EXCEPT ![h] = nextId]
    /\ nextId' = nextId + 1
    /\ Goto(h, "stopService")
    /\ UNCHANGED <<last, outcome, victim, worker, unitVars, deaths, abandoned, timerLost>>

\* Mutant: only the service is stopped.
MutStopServiceOnly(h) ==
    /\ pc[h] = "stopService"
    /\ service' = "inactive"
    /\ Goto(h, "spawn")
    /\ UNCHANGED <<job, last, nextId, jid, outcome, victim, worker, timer,
                   deaths, abandoned, timerLost>>

\* The first stop.  A systemctl that fails or times out after 60 s may or may
\* not have stopped the unit.
StopService(h) ==
    /\ pc[h] = "stopService"
    /\ \/ service' = "inactive" /\ Goto(h, "stopTimer")
       \/ service' \in {service, "inactive"} /\ Goto(h, "unregister")
    /\ UNCHANGED <<job, last, nextId, jid, outcome, victim, worker, timer,
                   deaths, abandoned, timerLost>>

StopTimer(h) ==
    /\ pc[h] = "stopTimer"
    /\ \/ /\ timer' = "inactive"
          /\ Goto(h, "spawn")
          /\ UNCHANGED timerLost
       \/ /\ timer' \in {timer, "inactive"}
          /\ Goto(h, "restoreService")
          /\ timerLost' = (timer' = "inactive")
    /\ UNCHANGED <<job, last, nextId, jid, outcome, victim, worker, service,
                   deaths, abandoned>>

\* The best-effort start of the service after a failed stop of the timer.
RestoreService(h) ==
    /\ pc[h] = "restoreService"
    /\ service' \in {service, "active"}
    /\ Goto(h, "unregister")
    /\ UNCHANGED <<job, last, nextId, jid, outcome, victim, worker, timer,
                   deaths, abandoned, timerLost>>

\* _clear_update_job: under _update_lock, and only the job of that id.
ClearJob(h) == job' = IF job.id = jid[h] THEN NoJob ELSE job

\* The quiesce failed: forget the job, answer 500, record no outcome.
Unregister(h) ==
    /\ pc[h] = "unregister"
    /\ ClearJob(h)
    /\ jid' = [jid EXCEPT ![h] = 0]
    /\ Goto(h, "idle")
    /\ UNCHANGED <<last, nextId, outcome, victim, worker, unitVars, deaths, abandoned, timerLost>>

-----------------------------------------------------------------------------
(* POST /api/update: the worker process.                                   *)

Spawn(h) ==
    /\ pc[h] = "spawn"
    /\ worker' = [worker EXCEPT ![jid[h]] = "running"]
    /\ Goto(h, "attach")
    /\ UNCHANGED <<job, last, nextId, jid, outcome, victim, unitVars,
                   deaths, abandoned, timerLost>>

\* Starting systemctl or the worker raises an OSError (no memory, no process
\* slot): the outermost handler answers 500 and returns, with the job still
\* registered and the timer as it is.
ForkFails(h) ==
    /\ pc[h] \in {"stopService", "stopTimer", "restoreService", "spawn"}
    /\ jid' = [jid EXCEPT ![h] = 0]
    /\ Goto(h, "idle")
    /\ timerLost' = (timer = "inactive")
    /\ UNCHANGED <<job, last, nextId, outcome, victim, worker, unitVars,
                   deaths, abandoned>>

\* Mutant: a cancel that came before the process is forgotten.
MutAttachBlind(h) ==
    /\ pc[h] = "attach"
    /\ job' = IF job.id = jid[h] THEN [job EXCEPT !.process = TRUE] ELSE job
    /\ Goto(h, "join")
    /\ UNCHANGED <<last, nextId, jid, outcome, victim, worker, unitVars,
                   deaths, abandoned, timerLost>>

\* Under _update_lock: publish the process, notice a cancel that came first.
Attach(h) ==
    /\ pc[h] = "attach"
    /\ job' = IF job.id = jid[h] THEN [job EXCEPT !.process = TRUE] ELSE job
    /\ Goto(h, IF job.id # jid[h] \/ job.terminated THEN "kill" ELSE "join")
    /\ UNCHANGED <<last, nextId, jid, outcome, victim, worker, unitVars,
                   deaths, abandoned, timerLost>>

\* _terminate_process: SIGTERM, then SIGKILL; a process already gone is left
\* alone, and one that outlives both signals is left behind.
Terminate(i) ==
    \/ /\ worker[i] = "running"
       /\ worker' = [worker EXCEPT ![i] = "killed"]
       /\ UNCHANGED abandoned
    \/ /\ worker[i] = "running"
       /\ abandoned' = abandoned \union {i}
       /\ UNCHANGED worker
    \/ /\ worker[i] # "running"
       /\ UNCHANGED <<worker, abandoned>>

KillOwn(h) ==
    /\ pc[h] = "kill"
    /\ Terminate(jid[h])
    /\ outcome' = [outcome EXCEPT ![h] = "cancelled"]
    /\ Goto(h, "record")
    /\ UNCHANGED <<job, last, nextId, jid, victim, unitVars, deaths, timerLost>>

Join(h) ==
    /\ pc[h] = "join"
    /\ worker[jid[h]] # "running"
    /\ Goto(h, "check")
    /\ UNCHANGED <<job, last, nextId, jid, outcome, victim, worker, unitVars,
                   deaths, abandoned, timerLost>>

\* Mutant: a failed worker is waited for again.
MutCheckAgain(h) ==
    /\ pc[h] = "check"
    /\ outcome' = [outcome EXCEPT ![h] = worker[jid[h]]]
    /\ Goto(h, IF worker[jid[h]] = "ok" THEN "record" ELSE "join")
    /\ UNCHANGED <<job, last, nextId, jid, victim, worker, unitVars,
                   deaths, abandoned, timerLost>>

\* _job_terminated under _update_lock, then the exit code and the result pipe.
Check(h) ==
    /\ pc[h] = "check"
    /\ outcome' = [outcome EXCEPT ![h] =
                     IF job.id = jid[h] /\ job.terminated THEN "cancelled"
                     ELSE IF worker[jid[h]] = "ok" THEN "ok" ELSE "failed"]
    /\ Goto(h, "record")
    /\ UNCHANGED <<job, last, nextId, jid, victim, worker, unitVars,
                   deaths, abandoned, timerLost>>

-----------------------------------------------------------------------------
(* _finish_update_job: record the outcome, restore the timer, clear.       *)

\* Mutant: the worker's state is recorded instead of the outcome.
MutRecordState(h) ==
    /\ pc[h] = "record"
    /\ last' = worker[jid[h]]
    /\ Goto(h, "restoreTimer")
    /\ UNCHANGED <<job, nextId, jid, outcome, victim, worker, unitVars,
                   deaths, abandoned, timerLost>>

\* Mutant: the timer is not restored.
MutRecordOnly(h) ==
    /\ pc[h] = "record"
    /\ last' = outcome[h]
    /\ Goto(h, "clear")
    /\ UNCHANGED <<job, nextId, jid, outcome, victim, worker, unitVars,
                   deaths, abandoned, timerLost>>

Record(h) ==
    /\ pc[h] = "record"
    /\ last' = outcome[h]
    /\ Goto(h, "restoreTimer")
    /\ UNCHANGED <<job, nextId, jid, outcome, victim, worker, unitVars,
                   deaths, abandoned, timerLost>>

\* Mutant: a failed restore starts _finish_update_job over.
MutRestoreTimerRetry(h) ==
    /\ pc[h] = "restoreTimer"
    /\ timer' \in {timer, "active"}
    /\ timerLost' = (timer' = "inactive")
    /\ Goto(h, IF timer' = "active" THEN "clear" ELSE "record")
    /\ UNCHANGED <<job, last, nextId, jid, outcome, victim, worker, service,
                   deaths, abandoned>>

\* A failed restore is logged and does not change the outcome.
RestoreTimer(h) ==
    /\ pc[h] = "restoreTimer"
    /\ timer' \in {timer, "active"}
    /\ timerLost' = (timer' = "inactive")
    /\ Goto(h, "clear")
    /\ UNCHANGED <<job, last, nextId, jid, outcome, victim, worker, service,
                   deaths, abandoned>>

Clear(h) ==
    /\ pc[h] = "clear"
    /\ ClearJob(h)
    /\ jid' = [jid EXCEPT ![h] = 0]
    /\ outcome' = [outcome EXCEPT ![h] = "none"]
    /\ Goto(h, "idle")
    /\ UNCHANGED <<last, nextId, victim, worker, unitVars, deaths, abandoned, timerLost>>

-----------------------------------------------------------------------------
(* POST /api/cancel.                                                       *)

\* Mutant: a cancel clears the flag itself.
MutCancelClears(c) ==
    /\ victim[c] = 0
    /\ job # NoJob
    /\ job' = NoJob
    /\ victim' = [victim EXCEPT ![c] = IF job.process THEN job.id ELSE 0]
    /\ UNCHANGED <<last, nextId, pc, jid, outcome, worker, unitVars,
                   deaths, abandoned, timerLost>>

\* Mutant: a cancel kills without a mark.
MutCancelUnmarked(c) ==
    /\ victim[c] = 0
    /\ job.process
    /\ victim' = [victim EXCEPT ![c] = job.id]
    /\ UNCHANGED <<job, last, nextId, pc, jid, outcome, worker, unitVars,
                   deaths, abandoned, timerLost>>

\* Under _update_lock: mark the job and pick up its process, if it has one.
\* Without a process the thread answers {"cancelled": false} at once.
CancelMark(c) ==
    /\ victim[c] = 0
    /\ job # NoJob
    /\ job' = [job EXCEPT !.terminated = TRUE]
    /\ victim' = [victim EXCEPT ![c] = IF job.process THEN job.id ELSE 0]
    /\ UNCHANGED <<last, nextId, pc, jid, outcome, worker, unitVars,
                   deaths, abandoned, timerLost>>

\* The kill, outside the lock, and the answer {"cancelled": true}.
CancelKill(c) ==
    /\ victim[c] # 0
    /\ Terminate(victim[c])
    /\ victim' = [victim EXCEPT ![c] = 0]
    /\ UNCHANGED <<job, last, nextId, pc, jid, outcome, unitVars, deaths, timerLost>>

-----------------------------------------------------------------------------
(* The environment: workers, systemd, the end of the server process.       *)

\* The worker sends its result and exits with code 0, or exits with another
\* code or without a result ("failed" covers both, and UpdateCancelled).
WorkerExits(i) ==
    /\ worker[i] = "running"
    /\ \E end \in {"ok", "failed"} : worker' = [worker EXCEPT ![i] = end]
    /\ UNCHANGED <<job, last, nextId, pc, jid, outcome, victim, unitVars,
                   deaths, abandoned, timerLost>>

TimerFires ==
    /\ timer = "active"
    /\ service = "inactive"
    /\ service' = "active"
    /\ UNCHANGED <<job, last, nextId, pc, jid, outcome, victim, worker, timer,
                   deaths, abandoned, timerLost>>

ServiceEnds ==
    /\ service = "active"
    /\ service' = "inactive"
    /\ UNCHANGED <<job, last, nextId, pc, jid, outcome, victim, worker, timer,
                   deaths, abandoned, timerLost>>

\* cmd_stop's SIGTERM (or a kill) ends the server at any point and a new one
\* starts: its globals are fresh and its threads gone.  A running worker may
\* survive.  Ids go on where they were, to keep the workers apart.
ServerDies ==
    /\ deaths < MaxDeaths
    /\ deaths' = deaths + 1
    /\ job' = NoJob
    /\ last' = "none"
    /\ pc' = [h \in Handlers |-> "idle"]
    /\ jid' = [h \in Handlers |-> 0]
    /\ outcome' = [h \in Handlers |-> "none"]
    /\ victim' = [c \in Cancellers |-> 0]
    /\ \E survivors \in SUBSET {i \in JobIds : worker[i] = "running"} :
         /\ worker' = [i \in JobIds |->
                         IF worker[i] = "running" /\ i \notin survivors
                         THEN "killed" ELSE worker[i]]
         /\ abandoned' = abandoned \union survivors
    /\ timerLost' = (timer = "inactive")
    /\ UNCHANGED <<nextId, unitVars>>

-----------------------------------------------------------------------------

HandlerStep(h) ==
    \/ StopService(h) \/ StopTimer(h) \/ RestoreService(h) \/ Unregister(h)
    \/ Spawn(h) \/ ForkFails(h) \/ Attach(h) \/ KillOwn(h) \/ Join(h)
    \/ Check(h) \/ Record(h) \/ RestoreTimer(h) \/ Clear(h)

Next ==
    \/ \E h \in Handlers : Register(h) \/ HandlerStep(h)
    \/ \E c \in Cancellers : CancelMark(c) \/ CancelKill(c)
    \/ \E i \in JobIds : WorkerExits(i)
    \/ TimerFires \/ ServiceEnds \/ ServerDies

Spec == Init /\ [][Next]_vars

\* A thread that may run is scheduled.  Nobody has to press a button, no timer
\* has to fire and no update has to end by itself.
Fairness ==
    /\ \A h \in Handlers : WF_vars(HandlerStep(h))
    /\ \A c \in Cancellers : WF_vars(CancelKill(c))

FairSpec == Spec /\ Fairness

\* Every worker exits some day: its network calls carry timeouts.
WorkersEnd == \A i \in JobIds : WF_vars(WorkerExits(i))

-----------------------------------------------------------------------------
(* Properties.                                                             *)

Owns(h) == pc[h] # "idle"
Attended(i) == worker[i] = "running" /\ i \notin abandoned

\* The globals of serve.py hold values of these kinds.
TypeOK ==
    /\ job \in [id : 0 .. MaxJobs, process : BOOLEAN, terminated : BOOLEAN]
    /\ last \in Outcomes
    /\ nextId \in 1 .. MaxJobs + 1
    /\ pc \in [Handlers -> Steps]
    /\ jid \in [Handlers -> 0 .. MaxJobs]
    /\ outcome \in [Handlers -> Outcomes]
    /\ victim \in [Cancellers -> 0 .. MaxJobs]
    /\ worker \in [JobIds -> WorkerStates]
    /\ timer \in UnitStates
    /\ service \in UnitStates
    /\ deaths \in 0 .. MaxDeaths
    /\ abandoned \in SUBSET JobIds
    /\ timerLost \in BOOLEAN

\* "At most one endpoint-triggered update runs per server process": two workers
\* run at once only if _terminate_process or a dead server left one behind.
AtMostOneUpdate ==
    \A i, j \in JobIds : Attended(i) /\ Attended(j) => i = j

\* A thread that works on an update holds the running flag under its own id
\* from the registration to the clear, and never shares it: no thread clears,
\* marks or records another thread's job.
FlagCoversHandler ==
    \A h \in Handlers : Owns(h) =>
        /\ job.id = jid[h]
        /\ jid[h] # 0
        /\ \A g \in Handlers : Owns(g) => g = h

\* While an attended worker runs the timer is down, so no timer tick starts
\* the systemd update beside it.
QuiescedWhileRunning ==
    \A i \in JobIds : Attended(i) => timer = "inactive"

\* A worker that a cancel killed is reported as cancelled, never as a failed
\* update with a strange exit code, however the mark, the kill, the join and
\* the check interleave.
KilledIsCancelled ==
    \A h \in Handlers :
        /\ pc[h] \in {"record", "restoreTimer", "clear"}
        /\ worker[jid[h]] = "killed"
        => outcome[h] = "cancelled"

\* With the flag clear, the timer is stopped only if it was lost to a failing
\* systemctl, a fork that raised or a dead server (or was never started):
\* _finish_update_job restores it before it clears the flag.
TimerBackWhenIdle ==
    job = NoJob /\ timer = "inactive" => timerLost

\* A cancelled update lets go of the flag though its worker would never end:
\* whoever sees the mark second, the cancel thread or the update thread, kills
\* it.  Exempt are a thread that died of a failed fork and a worker that
\* survives SIGKILL.
CancelFreesTheFlag ==
    \A i \in JobIds :
        (job.id = i /\ job.terminated)
            ~> (job.id # i \/ i \in abandoned \/ \A h \in Handlers : ~Owns(h))

\* If workers end, every update a thread works on ends, cancelled or not: the
\* flag clears or the thread died of a failed fork.
UpdateEnds ==
    WorkersEnd => \A i \in JobIds :
        (job.id = i) ~> (job.id # i \/ \A h \in Handlers : ~Owns(h))

-----------------------------------------------------------------------------
Slot == INSTANCE UpdateSlot WITH
            MaxGrants <- MaxJobs,
            Verdicts <- {"ok", "failed", "cancelled"},
            NoVerdict <- "none",
            slot <- job.id,
            granted <- nextId - 1,
            judged <- \E h \in Handlers : pc[h] \in {"restoreTimer", "clear"},
            verdict <- last

\* The threads, workers and units together implement one slot that hands out
\* at most one verdict per accepted update.
ImplementsSlot == Slot!SlotSpec
=============================================================================
