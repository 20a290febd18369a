----------------------------- MODULE CollectorRuns -----------------------------
(***************************************************************************)
(* Collection epochs, collector processes and the runs they leave behind   *)
(* (epochs.py, collection/runtime.py, collection/recovery.py, the          *)
(* supervision half of collection/worker.py).                              *)
(*                                                                         *)
(* A process holds a session-level advisory lock, opens a run, passes the  *)
(* live-work boundary, supervises its loops and finalizes the run: each in *)
(* a transaction of its own.  It may be killed between any two of them,    *)
(* and the connection that carries its lock may be lost unnoticed.         *)
(***************************************************************************)
EXTENDS Naturals, FiniteSets

CONSTANTS
  Process,       \* collector invocations and operators
  Epoch,         \* epoch numbers
  Component,     \* the loops that report their health
  StaleAfter,    \* age of a heartbeat beyond which a run is stale
  None,
  MaxClock, MaxRuns   \* bounds of the model

VARIABLES
  clock,
  lock,         \* holder of the session advisory lock
  epoch,        \* collection_epoch_current
  run,          \* collector_runs, with the terminal event of each
  health,       \* collector_component_health
  process,      \* what every process holds in memory
  initialized,  \* history: how often the schedules of an epoch were rebased
  lost          \* history: a lock connection was lost

vars == <<clock, lock, epoch, run, health, process, initialized, lost>>

RunId == 1 .. MaxRuns
MaybeTime == 0 .. MaxClock \cup {None}
\* "closed" is any of completed, aborted and invalid.
EpochStatus == {"absent", "planned", "running", "closed"}
RunRow ==
  [epoch : Epoch, started_at : 0 .. MaxClock, collection_started_at : MaybeTime,
   last_heartbeat_at : MaybeTime, finished_at : MaybeTime,
   status : {"running", "stopped", "failed"},
   event : {None, "graceful_stop", "failed", "stale_reconciled"}]
\* "live" is healthy, degraded or failed: not stopped.
HealthRow == [run : RunId, status : {"live", "stopped"}]
ProcessState ==
  [pc : {"down", "starting", "started", "supervising", "stopping", "marking",
         "finishing", "releasing", "sampled", "reconciling"},
   epoch : Epoch \cup {None}, run : RunId \cup {None}, now : MaybeTime,
   verdict : {None, "stopped", "failed"}, unmarked : SUBSET Component]

Down ==
  [pc |-> "down", epoch |-> None, run |-> None, now |-> None,
   verdict |-> None, unmarked |-> {}]

ASSUME RunsAssumption ==
  /\ {StaleAfter, MaxClock, MaxRuns} \subseteq Nat
  /\ Epoch \subseteq Nat \ {0}
  /\ None \notin Nat \cup Process \cup RunRow \cup HealthRow \cup Epoch
  /\ None \notin {"stopped", "failed", "graceful_stop", "stale_reconciled"}

\* Every variable has the type of its table or of the process's memory, and
\* ck_collector_runs_collection_started_after_invocation holds.
TypeOK ==
  /\ clock \in 0 .. MaxClock
  /\ lock \in Process \cup {None}
  /\ epoch \in [Epoch -> EpochStatus]
  /\ run \in [RunId -> RunRow \cup {None}]
  /\ \A r \in RunId : run[r] # None /\ run[r].collection_started_at # None =>
       run[r].collection_started_at >= run[r].started_at
  /\ health \in [Component -> HealthRow \cup {None}]
  /\ process \in [Process -> ProcessState]
  /\ initialized \in [Epoch -> Nat]
  /\ lost \in BOOLEAN

Recorded == {r \in RunId : run[r] # None}
RunningRun == {r \in Recorded : run[r].status = "running"}
-----------------------------------------------------------------------------
Init ==
  /\ clock = 0
  /\ lock = None
  /\ epoch = [e \in Epoch |-> "absent"]
  /\ run = [r \in RunId |-> None]
  /\ health = [c \in Component |-> None]
  /\ process = [p \in Process |-> Down]
  /\ initialized = [e \in Epoch |-> 0]
  /\ lost = FALSE

Tick ==
  /\ clock < MaxClock
  /\ clock' = clock + 1
  /\ UNCHANGED <<lock, epoch, run, health, process, initialized, lost>>

Enter(p, pc) == process' = [process EXCEPT ![p].pc = pc]

\* Mutation of Exits: a process that has lost its lock waits for it.
ExitsLocked(p) ==
  /\ lock = p
  /\ process' = [process EXCEPT ![p] = [Down EXCEPT !.pc = "releasing"]]
Exits(p) == process' = [process EXCEPT ![p] = [Down EXCEPT !.pc = "releasing"]]

\* Leaving the process closes the connection that carries its lock.
Unlocked(p) == IF lock = p THEN None ELSE lock
-----------------------------------------------------------------------------
(* Epochs: the commands of the operator.                                   *)

\* Bound: epochs are declared in the order of their numbers.
CreateEpoch(e) ==
  /\ epoch[e] = "absent"
  /\ \A f \in Epoch : f < e => epoch[f] # "absent"
  /\ epoch' = [epoch EXCEPT ![e] = "planned"]
  /\ UNCHANGED <<clock, lock, run, health, process, initialized, lost>>

\* Bound: the last epoch stays open.
CloseEpoch(e) ==
  /\ epoch[e] = "running" /\ \E f \in Epoch : e < f
  /\ ~\E r \in RunningRun : run[r].epoch = e
  /\ epoch' = [epoch EXCEPT ![e] = "closed"]
  /\ UNCHANGED <<clock, lock, run, health, process, initialized, lost>>
-----------------------------------------------------------------------------
(* The life of a collector process.                                        *)

\* pg_try_advisory_lock; a process that does not get it exits at once.  The time
\* of the start is sampled before the transaction is granted its rows.
\* Bound: a start names an epoch that is declared.
AcquireLock(p) ==
  /\ process[p].pc = "down"
  /\ lock = None
  /\ lock' = p
  /\ \E e \in Epoch : epoch[e] # "absent" /\
       process' = [process EXCEPT ![p] = [Down EXCEPT !.pc = "starting", !.epoch = e,
                                                      !.now = clock]]
  /\ UNCHANGED <<clock, epoch, run, health, initialized, lost>>

\* start_epoch_with_result: the process attaches to a running epoch or starts a
\* planned one when no other is running.
StartsEpoch(e) ==
  epoch[e] = "planned" /\ \A other \in Epoch : epoch[other] # "running"
AttachesTo(e) == epoch[e] = "running"

\* CollectorRunRepository.finish.
FinishedRun(row, status, at, event) ==
  [row EXCEPT !.status = status, !.finished_at = at, !.event = event]

\* Mutation of Recovered: the runs of dead processes are left as they are.
RecoveredNot(at) == run
\* The runs dead processes left running fail when the next one starts.
Recovered(at) ==
  [r \in RunId |-> IF r \in RunningRun THEN FinishedRun(run[r], "failed", at, "failed")
                   ELSE run[r]]

NewRun(e, at) ==
  [epoch |-> e, started_at |-> at, collection_started_at |-> None,
   last_heartbeat_at |-> None, finished_at |-> None, status |-> "running", event |-> None]

\* initialize_epoch_in_session runs only in the transaction that starts the epoch.
Initialized(e) == [initialized EXCEPT ![e] = IF StartsEpoch(e) THEN @ + 1 ELSE @]

\* CollectorRuntime.start, one transaction behind the lock of the epoch's row.
Start(p) ==
  LET e == process[p].epoch
      at == process[p].now
  IN  /\ process[p].pc = "starting"
      /\ StartsEpoch(e) \/ AttachesTo(e)
      /\ epoch' = IF StartsEpoch(e)
                  THEN [epoch EXCEPT ![e] = "running"] ELSE epoch
      /\ initialized' = Initialized(e)
      /\ \E r \in RunId :
           /\ run[r] = None /\ \A s \in RunId : s < r => run[s] # None
           /\ run' = [Recovered(at) EXCEPT ![r] = NewRun(e, at)]
           /\ process' = [process EXCEPT ![p] = [Down EXCEPT !.pc = "started", !.run = r]]
      /\ UNCHANGED <<clock, lock, health, lost>>

\* The epoch is not declared, closed or behind another, or its schedules cannot be
\* reconstructed: the process exits.
StartRefused(p) ==
  /\ process[p].pc = "starting"
  /\ ~AttachesTo(process[p].epoch)
  /\ Exits(p)
  /\ UNCHANGED <<clock, lock, epoch, run, health, initialized, lost>>

BoundaryTime == clock
\* mark_collection_started: no task is created before this transaction commits.
MarkStarted(p) ==
  LET r == process[p].run
  IN  /\ process[p].pc = "started"
      /\ run[r].status = "running"
      /\ run' = [run EXCEPT ![r].collection_started_at = BoundaryTime]
      /\ Enter(p, "supervising")
      /\ UNCHANGED <<clock, lock, epoch, health, initialized, lost>>

\* Mutation of AfterFailedMark: the loops are started all the same.
AfterFailedMarkGoesOn == "supervising"
AfterFailedMark == "finishing"
\* CollectorRunNotRunningError or a failed transaction.
MarkFails(p) ==
  /\ process[p].pc = "started"
  /\ process' = [process EXCEPT ![p].pc = AfterFailedMark, ![p].verdict = "failed"]
  /\ UNCHANGED <<clock, lock, epoch, run, health, initialized, lost>>

\* The loops of the task group run; the ones that are not done run on while the
\* process waits for them.
Working(p) == process[p].pc \in {"supervising", "stopping"}

Heartbeat(p) ==
  /\ Working(p)
  /\ run[process[p].run].last_heartbeat_at # clock
  /\ run' = [run EXCEPT ![process[p].run].last_heartbeat_at = clock]
  /\ UNCHANGED <<clock, lock, epoch, health, process, initialized, lost>>

\* _record_component: one row per component, whichever run it belongs to.
Report(p, c, status) == health' = [health EXCEPT ![c] = [run |-> process[p].run, status |-> status]]

ComponentReports(p, c) ==
  /\ Working(p)
  /\ Report(p, c, "live")
  /\ UNCHANGED <<clock, lock, epoch, run, process, initialized, lost>>

\* An error the loop does not expect cancels the group.
ComponentFails(p, c) ==
  /\ Working(p)
  /\ Report(p, c, "live")
  /\ process' = [process EXCEPT ![p].pc = "finishing", ![p].verdict = "failed"]
  /\ UNCHANGED <<clock, lock, epoch, run, initialized, lost>>

RequestShutdown(p) ==
  /\ process[p].pc = "supervising"
  /\ Enter(p, "stopping")
  /\ UNCHANGED <<clock, lock, epoch, run, health, initialized, lost>>

\* The loops ended, were cancelled after the grace period, or met a closed pipe.
WorkerEnds(p) ==
  /\ process[p].pc = "stopping"
  /\ process' = [process EXCEPT ![p].pc = "marking", ![p].verdict = "stopped",
                                ![p].unmarked = Component]
  /\ UNCHANGED <<clock, lock, epoch, run, health, initialized, lost>>

Unmarked(p) == process[p].unmarked
\* mark_stopped, a transaction for each component; any of them may fail.
MarkStopped(p, c) ==
  /\ process[p].pc = "marking"
  /\ c \in Unmarked(p)
  /\ Report(p, c, "stopped")
  /\ process' = [process EXCEPT ![p].unmarked = @ \ {c}]
  /\ UNCHANGED <<clock, lock, epoch, run, initialized, lost>>

MarkingEnds(p) ==
  /\ process[p].pc = "marking"
  /\ \/ Unmarked(p) = {} /\ Enter(p, "finishing")
     \/ process' = [process EXCEPT ![p].pc = "finishing", ![p].verdict = "failed"]
  /\ UNCHANGED <<clock, lock, epoch, run, health, initialized, lost>>

\* Mutation of MayFinish: the last to finish a run decides its end.
MayFinishAgain(r) == run[r] # None
MayFinish(r) == run[r].status = "running"

\* The run is finalized once; a run that has another end already raises
\* CollectorRunTerminalConflictError, and the transaction may fail.
Finish(p) ==
  LET r == process[p].run
      verdict == process[p].verdict
  IN  /\ process[p].pc = "finishing"
      /\ \/ /\ MayFinish(r)
            /\ run' = [run EXCEPT ![r] = FinishedRun(run[r], verdict, clock,
                         IF verdict = "failed" THEN "failed" ELSE "graceful_stop")]
         \/ run' = run
      /\ Exits(p)
      /\ UNCHANGED <<clock, lock, epoch, health, initialized, lost>>

ReleaseLock(p) ==
  /\ process[p].pc = "releasing"
  /\ lock' = Unlocked(p)
  /\ process' = [process EXCEPT ![p] = Down]
  /\ UNCHANGED <<clock, epoch, run, health, initialized, lost>>

Kill(p) ==
  /\ process[p].pc # "down"
  /\ lock' = Unlocked(p)
  /\ process' = [process EXCEPT ![p] = Down]
  /\ UNCHANGED <<clock, epoch, run, health, initialized, lost>>

\* The server ends the session of the lock; nothing in the process looks at it.  Bound:
\* once, in the state that lasts, under the first run.
LoseConnection(p) ==
  /\ ~lost /\ process[p].pc = "supervising" /\ process[p].run = 1 /\ lock = p
  /\ lock' = None
  /\ lost' = TRUE
  /\ UNCHANGED <<clock, epoch, run, health, process, initialized>>
-----------------------------------------------------------------------------
(* reconcile_stale_collector_run.                                          *)

\* Mutation of ReconcileLock: the repair does not ask for the lock.
ReconcileLockSkipped(p) == lock' = lock
ReconcileLock(p) == lock = None /\ lock' = p

\* The time of the repair is sampled before the lock is asked for: a collector may have the
\* lock now, go on and die.
BeginReconcile(p) ==
  /\ process[p].pc = "down"
  /\ \E e \in Epoch :
       process' = [process EXCEPT ![p] = [Down EXCEPT !.pc = "sampled", !.epoch = e,
                                                      !.now = clock]]
  /\ UNCHANGED <<clock, lock, epoch, run, health, initialized, lost>>

LockForReconcile(p) ==
  /\ process[p].pc = "sampled"
  /\ ReconcileLock(p)
  /\ Enter(p, "reconciling")
  /\ UNCHANGED <<clock, epoch, run, health, initialized, lost>>

\* CollectorAlreadyRunningError: the lock is tried once.
ReconcileExcluded(p) ==
  /\ process[p].pc = "sampled"
  /\ lock # None
  /\ process' = [process EXCEPT ![p] = Down]
  /\ UNCHANGED <<clock, lock, epoch, run, health, initialized, lost>>

LatestRun(e) ==
  {r \in Recorded : run[r].epoch = e /\
     \A s \in Recorded : run[s].epoch = e => run[s].started_at <= run[r].started_at}

LastSign(r) ==
  IF run[r].last_heartbeat_at = None THEN run[r].started_at ELSE run[r].last_heartbeat_at
Stale(r, now) == now > LastSign(r) + StaleAfter

ReconcileStale(p) ==
  LET at == process[p].now
  IN  /\ process[p].pc = "reconciling"
      /\ epoch[process[p].epoch] = "running"
      /\ \E r \in LatestRun(process[p].epoch) :
           /\ run[r].status = "running"
           /\ Stale(r, at)
           /\ run' = [run EXCEPT ![r] = FinishedRun(run[r], "stopped", at, "stale_reconciled")]
           /\ health' = [c \in Component |->
                IF health[c] # None /\ health[c].run = r
                THEN [health[c] EXCEPT !.status = "stopped"] ELSE health[c]]
      /\ Exits(p)
      /\ UNCHANGED <<clock, lock, epoch, initialized, lost>>

\* Nothing to repair, or the repair is unsafe.
ReconcileRefused(p) ==
  /\ process[p].pc = "reconciling"
  /\ \/ epoch[process[p].epoch] # "running"
     \/ LatestRun(process[p].epoch) = {}
     \/ \E r \in LatestRun(process[p].epoch) :
          run[r].status # "running" \/ ~Stale(r, process[p].now)
  /\ Exits(p)
  /\ UNCHANGED <<clock, lock, epoch, run, health, initialized, lost>>
-----------------------------------------------------------------------------
\* What the process does without being asked: its fairness is that of an event loop
\* whose transactions commit or fail.
Proceed(p) ==
  \/ Start(p) \/ StartRefused(p) \/ MarkStarted(p) \/ MarkFails(p)
  \/ WorkerEnds(p) \/ MarkingEnds(p) \/ Finish(p) \/ ReleaseLock(p)
  \/ LockForReconcile(p) \/ ReconcileExcluded(p) \/ ReconcileStale(p) \/ ReconcileRefused(p)
  \/ \E c \in Component : MarkStopped(p, c)

ProcessStep(p) ==
  \/ AcquireLock(p) \/ BeginReconcile(p) \/ Proceed(p)
  \/ Heartbeat(p) \/ RequestShutdown(p) \/ Kill(p) \/ LoseConnection(p)
  \/ \E c \in Component : ComponentReports(p, c) \/ ComponentFails(p, c)

Next ==
  \/ Tick
  \/ \E e \in Epoch : CreateEpoch(e) \/ CloseEpoch(e)
  \/ \E p \in Process : ProcessStep(p)

Spec == Init /\ [][Next]_vars
FairSpec == Spec /\ \A p \in Process : WF_vars(Proceed(p))
-----------------------------------------------------------------------------
(* What the records say of the collector.                                  *)

\* monitoring/status.py, run_lifecycle of a run.
RunLifecycle(r, now) ==
  CASE run[r].status = "failed" -> "FAILED"
    [] run[r].status = "stopped" -> "GRACEFULLY_STOPPED"
    [] OTHER -> IF run[r].last_heartbeat_at = None \/ now > run[r].last_heartbeat_at + StaleAfter
                THEN "STALE_OR_CRASHED" ELSE "HEALTHY_RUNNING"

\* live_collection_intervals: when a run was allowed to collect, up to now.
LiveTimes(r) ==
  {at \in 0 .. clock :
     /\ run[r].collection_started_at # None /\ run[r].collection_started_at <= at
     /\ run[r].finished_at = None \/ at < run[r].finished_at}
-----------------------------------------------------------------------------
(* Properties.                                                             *)

\* However processes die, overlap or lose their lock, at most one run is recorded as
\* running, and only in a running epoch; at most one epoch is running.
OneRunningRun ==
  /\ \A r, s \in RunningRun : r = s
  /\ \A r \in RunningRun : epoch[run[r].epoch] = "running"
  /\ \A e, f \in Epoch : epoch[e] = "running" /\ epoch[f] = "running" => e = f

\* The schedules are rebased once in the life of an epoch, by the transaction that
\* starts it, and never again by a restart inside it.
EpochInitializedOnce ==
  \A e \in Epoch :
    initialized[e] = IF epoch[e] \in {"absent", "planned"} THEN 0 ELSE 1

\* runtime.py commits the live-work gate before any loop is created: no loop works for
\* a run whose boundary is unknown.
LiveWorkHasBoundary ==
  \A p \in Process : Working(p) => run[process[p].run].collection_started_at # None

\* docs/lock-protocol.md: the session lock proves that no live collector exists.  As
\* long as no connection is lost, one process works at most, and no process works
\* for a run that has an end.
OneCollector ==
  ~lost =>
    /\ \A p, q \in Process : Working(p) /\ Working(q) => p = q
    /\ \A p \in Process : Working(p) =>
         RunLifecycle(process[p].run, clock) \in {"HEALTHY_RUNNING", "STALE_OR_CRASHED"}

\* A graceful stop leaves no component of the run reported as alive.
StoppedRunsQuiet ==
  ~lost => \A r \in Recorded, c \in Component :
    /\ run[r].event = "graceful_stop"
    /\ health[c] # None /\ health[c].run = r
    => health[c].status = "stopped"

\* The run ended before it began to collect.
Reversed(r) ==
  /\ run[r].finished_at # None /\ run[r].collection_started_at # None
  /\ run[r].finished_at < run[r].collection_started_at

\* collection/boundaries.py measures the union of the live intervals: no instant belongs to
\* two runs, so none is counted twice and a restart leaves a gap.  Every run ends after it
\* began to collect, but for one that was repaired without ever having sent a heartbeat: the
\* repair decides with a time from before it had the lock.
LiveIntervalsDisjoint ==
  ~lost =>
    /\ \A r, s \in Recorded : r # s => LiveTimes(r) \cap LiveTimes(s) = {}
    /\ \A r \in Recorded : Reversed(r) =>
         run[r].event = "stale_reconciled" /\ run[r].last_heartbeat_at = None

\* live_collection_intervals (collection/boundaries.py:99) raises "finished before
\* collection_started_at", as for a row no process writes.  One does: a repair samples its
\* time (recovery.py:74), the collector passes its boundary and dies before its first
\* heartbeat, and the repair gets the lock and ends the run at the older time.
EndsAfterBoundary == ~lost => \A r \in Recorded : ~Reversed(r)

\* CollectorRunRepository.finish refuses a contradictory end: whichever of a recovery, a
\* repair and a process that outlived its lock comes last, the end of a run stays as it
\* was, and so does all the rest of it but the heartbeat of that process.
EndedRunsFinal ==
  [][\A r \in Recorded : run[r].finished_at # None =>
       run'[r] = [run[r] EXCEPT !.last_heartbeat_at = run'[r].last_heartbeat_at]]_vars

\* A shutdown request is completed: the run gets its end or its transaction fails, and the
\* lock is given back.  The states of a shutdown are left through "down" alone.
ShutdownCompletes ==
  \A p \in Process :
    []<>(process[p].pc \notin {"stopping", "marking", "finishing", "releasing"})

\* What every start, restart and recovery leaves consistent: the records have their types,
\* one run at most is running, an epoch is initialised once, live work has its boundary, and
\* a graceful stop leaves nothing alive.
RunsConsistent ==
  /\ TypeOK /\ OneRunningRun /\ EpochInitializedOnce
  /\ LiveWorkHasBoundary /\ StoppedRunsQuiet
=============================================================================
