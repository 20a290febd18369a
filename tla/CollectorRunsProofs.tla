------------------------- MODULE CollectorRunsProofs -------------------------
(* Collector runs: types and records that stay consistent, one collector    *)
(* at a time, and live intervals that never overlap.                        *)
EXTENDS CollectorRuns, TLAPS

OwnsRun(p) ==
  process[p].pc \in {"started", "supervising", "stopping", "marking", "finishing"}
MayRepair(p) == process[p].pc \in {"starting", "sampled", "reconciling"}
\* Without the lock: not begun, or a repair that has only sampled its time.
Outside(p) == process[p].pc \in {"down", "sampled"}

\* A recorded run began and ended in the past, and it is running exactly as long as
\* it has no end and no terminal event.
RunsKnown ==
  \A r \in Recorded :
    /\ run[r].started_at <= clock
    /\ run[r].collection_started_at # None => run[r].collection_started_at <= clock
    /\ run[r].finished_at # None => run[r].finished_at <= clock
    /\ (run[r].status = "running") <=> (run[r].finished_at = None)
    /\ (run[r].status = "running") <=> (run[r].event = None)

\* What a process needs for its next transaction, it holds.
ProcessesKnow ==
  \A p \in Process :
    /\ MayRepair(p) => /\ process[p].epoch \in Epoch
                       /\ process[p].now \in 0 .. clock
    /\ OwnsRun(p) => process[p].run \in Recorded
    /\ process[p].pc \in {"marking", "finishing"} => process[p].verdict # None
    /\ process[p].pc = "finishing" /\ process[p].verdict = "stopped" =>
         process[p].unmarked = {}

\* One run ended before the other was allowed to collect.
Precedes(r, s) ==
  /\ run[r].finished_at # None
  /\ run[s].collection_started_at # None =>
       run[r].finished_at <= run[s].collection_started_at
RunsApart == \A r, s \in Recorded : r # s => Precedes(r, s) \/ Precedes(s, r)

Base ==
  /\ TypeOK /\ RunsKnown /\ ProcessesKnow
  /\ OneRunningRun /\ EpochInitializedOnce /\ LiveWorkHasBoundary /\ RunsApart

\* A component the process has marked is reported as stopped, and of its run.
Marked(p) ==
  \A c \in Component \ process[p].unmarked :
    /\ health[c] # None
    /\ health[c].run = process[p].run
    /\ health[c].status = "stopped"

\* As long as the connection of the lock stands, the lock is what makes the memory of
\* a process true of the tables.
LockGuards ==
  \A p \in Process :
    /\ ~Outside(p) => lock = p
    /\ OwnsRun(p) => run[process[p].run].status = "running"
    /\ process[p].pc = "started" => run[process[p].run].last_heartbeat_at = None
    /\ process[p].pc = "starting" =>
         \A r \in RunningRun : run[r].collection_started_at # None =>
           run[r].collection_started_at <= process[p].now
    /\ \/ process[p].pc = "marking"
       \/ process[p].pc = "finishing" /\ process[p].verdict = "stopped"
       => Marked(p)

\* A heartbeat is sent behind the boundary, and a run ends behind it, unless it is repaired
\* without a heartbeat.
EndsExplained ==
  \A r \in Recorded :
    /\ run[r].last_heartbeat_at # None =>
         /\ run[r].collection_started_at # None
         /\ run[r].collection_started_at <= run[r].last_heartbeat_at
    /\ Reversed(r) => run[r].event = "stale_reconciled" /\ run[r].last_heartbeat_at = None

QuietRuns ==
  \A r \in Recorded, c \in Component :
    /\ run[r].event = "graceful_stop"
    /\ health[c] # None /\ health[c].run = r
    => health[c].status = "stopped"

Guarded == ~lost => LockGuards /\ EndsExplained /\ QuietRuns

IInv == Base /\ Guarded
-----------------------------------------------------------------------------
\* Nothing is recorded at first.
LEMMA RunsInit == Init => IInv
<1>. SUFFICES ASSUME Init PROVE IInv
  OBVIOUS
<1>1. Down \in ProcessState
  BY DEF Down, ProcessState, MaybeTime
<1>2. TypeOK
  <2>1. MaxClock \in Nat
    BY RunsAssumption
  <2>2. clock \in 0 .. MaxClock
    BY <2>1 DEF Init
  <2>5. lock \in Process \cup {None} /\ lost \in BOOLEAN
    BY DEF Init
  <2>3. /\ epoch \in [Epoch -> EpochStatus] /\ initialized \in [Epoch -> Nat]
        /\ process \in [Process -> ProcessState]
    BY <1>1 DEF Init, EpochStatus
  <2>4. /\ run \in [RunId -> RunRow \cup {None}]
        /\ health \in [Component -> HealthRow \cup {None}]
        /\ \A r \in RunId : run[r] = None
    BY DEF Init
  <2>. QED
    BY <2>2, <2>3, <2>4, <2>5 DEF TypeOK
<1>3. RunsKnown /\ OneRunningRun /\ EpochInitializedOnce /\ RunsApart /\ EndsExplained /\ QuietRuns
  BY DEF Init, RunsKnown, OneRunningRun, EpochInitializedOnce, RunsApart, EndsExplained, Reversed,
         QuietRuns, Recorded, RunningRun
<1>4. ProcessesKnow /\ LiveWorkHasBoundary /\ LockGuards
  BY DEF Init, ProcessesKnow, LiveWorkHasBoundary, LockGuards, MayRepair, OwnsRun, Outside,
         Working, Down
<1>. QED
  BY <1>2, <1>3, <1>4 DEF IInv, Base, Guarded
-----------------------------------------------------------------------------
(* Steps that change what a process holds, the lock or the health of a     *)
(* component, and no run.                                                  *)

\* What is said of runs and epochs alone is not disturbed.
LEMMA RecordsKept ==
  ASSUME IInv, UNCHANGED <<clock, epoch, run, initialized>>
  PROVE  /\ RunsKnown' /\ OneRunningRun' /\ EpochInitializedOnce' /\ RunsApart'
         /\ EndsExplained' = EndsExplained
         /\ Recorded' = Recorded /\ RunningRun' = RunningRun
<1>1. Recorded' = Recorded /\ RunningRun' = RunningRun
  BY DEF Recorded, RunningRun
<1>. QED
  BY <1>1 DEF IInv, Base, RunsKnown, OneRunningRun, EpochInitializedOnce, RunsApart, Precedes,
              EndsExplained, Reversed

\* What a command leaves in the memory of its process.
LEMMA Commanded ==
  ASSUME IInv, NEW e \in Epoch, NEW pc \in {"starting", "sampled"}
  PROVE  LET state == [Down EXCEPT !.pc = pc, !.epoch = e, !.now = clock]
         IN  /\ state \in ProcessState /\ state.pc = pc /\ state.epoch = e
             /\ state.now = clock /\ clock \in 0 .. clock
<1>1. clock \in MaybeTime /\ clock \in 0 .. MaxClock /\ MaxClock \in Nat
  BY RunsAssumption DEF IInv, Base, TypeOK, MaybeTime
<1>2. clock \in 0 .. clock
  BY <1>1
<1>. QED
  BY <1>1, <1>2 DEF Down, ProcessState, MaybeTime

\* A repair samples its time, gives up or dies: nobody else notices.
LEMMA Sampling ==
  ASSUME IInv, NEW p \in Process, NEW state \in ProcessState,
         process' = [process EXCEPT ![p] = state],
         Outside(p), Outside(p)',
         state.pc = "sampled" => state.epoch \in Epoch /\ state.now \in 0 .. clock,
         lock' \in {lock, Unlocked(p)},
         UNCHANGED <<clock, epoch, run, health, initialized, lost>>
  PROVE  IInv'
<1>1. /\ process' \in [Process -> ProcessState] /\ process'[p] = state
      /\ \A q \in Process : q # p => process'[q] = process[q]
      /\ state.pc \in {"down", "sampled"}
  BY DEF IInv, Base, TypeOK, Outside
<1>2. TypeOK'
  BY <1>1 DEF IInv, Base, TypeOK, Unlocked
<1>3. Recorded' = Recorded /\ RunningRun' = RunningRun
  BY RecordsKept
<1>4. ProcessesKnow'
  BY <1>1, <1>3 DEF IInv, Base, ProcessesKnow, MayRepair, OwnsRun
<1>5. LiveWorkHasBoundary'
  BY <1>1 DEF IInv, Base, LiveWorkHasBoundary, Working
<1>6. Guarded'
  <2>. SUFFICES ASSUME ~lost PROVE LockGuards' /\ EndsExplained' /\ QuietRuns'
    BY DEF Guarded
  <2>1. LockGuards
    BY DEF IInv, Guarded
  <2>2. \A q \in Process : q # p /\ ~Outside(q) => lock' = q
    BY <2>1 DEF LockGuards, Unlocked
  <2>3. LockGuards'
    BY <1>1, <1>3, <2>1, <2>2 DEF LockGuards, OwnsRun, Outside, Marked
  <2>. QED
    BY <1>3, <2>3, RecordsKept DEF IInv, Guarded, QuietRuns
<1>. QED
  BY <1>2, <1>4, <1>5, <1>6, RecordsKept DEF IInv, Base

LEMMA SamplingSteps ==
  ASSUME IInv, NEW p \in Process,
         BeginReconcile(p) \/ ReconcileExcluded(p) \/ (Kill(p) /\ Outside(p))
  PROVE  IInv'
<1>1. process \in [Process -> ProcessState] /\ Down \in ProcessState /\ Down.pc = "down"
  BY DEF IInv, Base, TypeOK, Down, ProcessState, MaybeTime
<1>2. CASE BeginReconcile(p)
  <2>1. PICK e \in Epoch :
          process' = [process EXCEPT ![p] = [Down EXCEPT !.pc = "sampled", !.epoch = e,
                                                         !.now = clock]]
    BY <1>2 DEF BeginReconcile
  <2>. DEFINE state == [Down EXCEPT !.pc = "sampled", !.epoch = e, !.now = clock]
  <2>2. /\ state \in ProcessState /\ state.pc = "sampled" /\ state.epoch = e
        /\ state.now = clock /\ clock \in 0 .. clock
    BY Commanded
  <2>3. process' = [process EXCEPT ![p] = state]
    BY <2>1
  <2>. HIDE DEF state
  <2>4. Outside(p) /\ Outside(p)'
    BY <1>1, <1>2, <2>2, <2>3 DEF BeginReconcile, Outside
  <2>. QED
    BY <1>2, <2>2, <2>3, <2>4, Sampling DEF BeginReconcile
<1>3. CASE ReconcileExcluded(p) \/ (Kill(p) /\ Outside(p))
  <2>1. process' = [process EXCEPT ![p] = Down] /\ Outside(p)
    BY <1>3 DEF ReconcileExcluded, Kill, Outside
  <2>2. Outside(p)'
    BY <1>1, <2>1 DEF Outside
  <2>. QED
    BY <1>1, <1>3, <2>1, <2>2, Sampling DEF ReconcileExcluded, Kill
<1>. QED
  BY <1>2, <1>3

\* A process takes the lock: a collector samples its time now, a repair has done so before.
LEMMA Locking ==
  ASSUME IInv, NEW p \in Process, AcquireLock(p) \/ LockForReconcile(p)
  PROVE  IInv'
<1>1. /\ Outside(p) /\ lock = None /\ lock' = p
      /\ UNCHANGED <<clock, epoch, run, health, initialized, lost>>
  BY DEF AcquireLock, LockForReconcile, ReconcileLock, Outside
<1>2. process \in [Process -> ProcessState] /\ process[p] \in ProcessState
  BY DEF IInv, Base, TypeOK
<1>3. PICK state \in ProcessState :
        /\ process' = [process EXCEPT ![p] = state]
        /\ state.pc \in {"starting", "reconciling"}
        /\ state.epoch \in Epoch /\ state.now \in 0 .. clock
        /\ state.pc = "starting" => state.now = clock
  <2>1. CASE AcquireLock(p)
    <3>1. PICK e \in Epoch :
            process' = [process EXCEPT ![p] = [Down EXCEPT !.pc = "starting", !.epoch = e,
                                                           !.now = clock]]
      BY <2>1 DEF AcquireLock
    <3>. DEFINE s == [Down EXCEPT !.pc = "starting", !.epoch = e, !.now = clock]
    <3>2. /\ s \in ProcessState /\ s.pc = "starting" /\ s.epoch = e
          /\ s.now = clock /\ clock \in 0 .. clock
      BY Commanded
    <3>. QED
      BY <3>1, <3>2
  <2>2. CASE LockForReconcile(p)
    <3>. DEFINE s == [process[p] EXCEPT !.pc = "reconciling"]
    <3>1. process' = [process EXCEPT ![p] = s] /\ MayRepair(p)
      BY <1>2, <2>2 DEF LockForReconcile, Enter, MayRepair
    <3>2. /\ s \in ProcessState /\ s.pc = "reconciling" /\ s.epoch = process[p].epoch
          /\ s.now = process[p].now
      BY <1>2 DEF ProcessState
    <3>3. process[p].epoch \in Epoch /\ process[p].now \in 0 .. clock
      BY <3>1 DEF IInv, Base, ProcessesKnow
    <3>. QED
      BY <3>1, <3>2, <3>3
  <2>. QED
    BY <2>1, <2>2
<1>5. /\ process' \in [Process -> ProcessState]
      /\ process'[p] = state
      /\ \A q \in Process : q # p => process'[q] = process[q]
  BY <1>2, <1>3
<1>6. TypeOK'
  BY <1>1, <1>5 DEF IInv, Base, TypeOK
<1>7. Recorded' = Recorded /\ RunningRun' = RunningRun
  BY <1>1, RecordsKept
<1>8. ProcessesKnow'
  BY <1>1, <1>3, <1>5, <1>7 DEF IInv, Base, ProcessesKnow, MayRepair, OwnsRun
<1>9. LiveWorkHasBoundary'
  BY <1>1, <1>3, <1>5 DEF IInv, Base, LiveWorkHasBoundary, Working
<1>10. Guarded'
  <2>. SUFFICES ASSUME ~lost PROVE LockGuards' /\ EndsExplained' /\ QuietRuns'
    BY <1>1 DEF Guarded
  <2>1. \A q \in Process : q # p => Outside(q)
    BY <1>1, RunsAssumption DEF IInv, Base, Guarded, LockGuards, TypeOK
  <2>2. \A r \in RunningRun : run[r].collection_started_at # None =>
          run[r].collection_started_at <= clock
    BY DEF IInv, Base, RunsKnown, RunningRun
  <2>3. LockGuards'
    BY <1>1, <1>3, <1>5, <1>7, <2>1, <2>2 DEF LockGuards, OwnsRun, Outside
  <2>. QED
    BY <1>1, <1>7, <2>3, RecordsKept DEF IInv, Guarded, QuietRuns
<1>. QED
  BY <1>1, <1>6, <1>8, <1>9, <1>10, RecordsKept DEF IInv, Base

\* A process edits its own memory and the health of its components: the memory must be
\* what the next transaction needs.  The lock is kept, or given back on leaving.
LEMMA Moving ==
  ASSUME IInv, NEW p \in Process, NEW state \in ProcessState,
         process' = [process EXCEPT ![p] = state],
         ~Outside(p), state.pc # "sampled",
         lock' = lock \/ (lock' = Unlocked(p) /\ state.pc = "down"),
         health' \in [Component -> HealthRow \cup {None}],
         UNCHANGED <<clock, epoch, run, initialized, lost>>,
         ~MayRepair(p)',
         state.pc \in {"started", "supervising", "stopping", "marking", "finishing"} =>
           OwnsRun(p) /\ state.run = process[p].run,
         state.pc \in {"supervising", "stopping"} => Working(p),
         state.pc = "started" => process[p].pc = "started",
         state.pc \in {"marking", "finishing"} => state.verdict # None,
         state.pc = "finishing" /\ state.verdict = "stopped" => state.unmarked = {},
         ~lost => /\ \/ state.pc = "marking"
                     \/ state.pc = "finishing" /\ state.verdict = "stopped"
                     => Marked(p)'
                  /\ QuietRuns'
  PROVE  IInv'
<1>1. process \in [Process -> ProcessState]
  BY DEF IInv, Base, TypeOK
<1>2. /\ process' \in [Process -> ProcessState]
      /\ process'[p] = state
      /\ \A q \in Process : q # p => process'[q] = process[q]
  BY <1>1
<1>3. TypeOK'
  BY <1>2 DEF IInv, Base, TypeOK, Unlocked
<1>4. Recorded' = Recorded /\ RunningRun' = RunningRun
  BY RecordsKept
<1>5. ProcessesKnow'
  BY <1>2, <1>4 DEF IInv, Base, ProcessesKnow, MayRepair, OwnsRun
<1>6. LiveWorkHasBoundary'
  BY <1>2 DEF IInv, Base, LiveWorkHasBoundary, Working
<1>7. Guarded'
  <2>. SUFFICES ASSUME ~lost PROVE LockGuards' /\ EndsExplained' /\ QuietRuns'
    BY DEF Guarded
  <2>1. LockGuards
    BY DEF IInv, Guarded
  <2>2. \A q \in Process : q # p => Outside(q)
    BY <2>1, RunsAssumption DEF LockGuards, Outside
  <2>3. state.pc # "down" => lock' = p
    BY <2>1 DEF LockGuards
  <2>4. LockGuards'
    BY <1>2, <1>4, <2>1, <2>2, <2>3 DEF LockGuards, OwnsRun, MayRepair, Outside, Unlocked
  <2>. QED
    BY <2>4, RecordsKept DEF IInv, Guarded
<1>. QED
  BY <1>3, <1>5, <1>6, <1>7, RecordsKept DEF IInv, Base

\* Leaving, giving up, failing, stopping: nothing is reported.
LEMMA MovingQuietly ==
  ASSUME IInv, NEW p \in Process,
         \/ StartRefused(p) \/ MarkFails(p) \/ RequestShutdown(p) \/ WorkerEnds(p)
         \/ MarkingEnds(p) \/ ReleaseLock(p) \/ (Kill(p) /\ ~Outside(p)) \/ ReconcileRefused(p)
  PROVE  IInv'
<1>1. process \in [Process -> ProcessState] /\ process[p] \in ProcessState
  BY DEF IInv, Base, TypeOK
<1>2. Down \in ProcessState /\ [Down EXCEPT !.pc = "releasing"] \in ProcessState
  BY DEF Down, ProcessState, MaybeTime
<1>3. /\ UNCHANGED <<clock, epoch, run, health, initialized, lost>>
      /\ health \in [Component -> HealthRow \cup {None}]
      /\ QuietRuns' = QuietRuns
      /\ ~lost => QuietRuns
  BY RecordsKept
     DEF StartRefused, MarkFails, RequestShutdown, WorkerEnds, MarkingEnds, ReleaseLock, Kill,
         ReconcileRefused, IInv, Base, TypeOK, Guarded, QuietRuns
<1>4. CASE StartRefused(p) \/ ReconcileRefused(p)
  <2>. DEFINE state == [Down EXCEPT !.pc = "releasing"]
  <2>1. /\ process' = [process EXCEPT ![p] = state] /\ ~Outside(p) /\ lock' = lock
        /\ state.pc = "releasing"
    BY <1>4 DEF StartRefused, ReconcileRefused, Exits, Outside, Down
  <2>2. state \in ProcessState
    BY <1>2
  <2>. HIDE DEF state
  <2>3. ~MayRepair(p)'
    BY <1>1, <2>1, <2>2 DEF MayRepair
  <2>. QED
    BY <1>3, <2>1, <2>2, <2>3, Moving
<1>5. CASE ReleaseLock(p) \/ (Kill(p) /\ ~Outside(p))
  <2>1. /\ process' = [process EXCEPT ![p] = Down] /\ ~Outside(p)
        /\ lock' = Unlocked(p) /\ Down.pc = "down"
    BY <1>5 DEF ReleaseLock, Kill, Down, Outside
  <2>2. ~MayRepair(p)'
    BY <1>1, <2>1 DEF MayRepair
  <2>. QED
    BY <1>2, <1>3, <2>1, <2>2, Moving
<1>6. CASE MarkFails(p)
  <2>. DEFINE state == [process[p] EXCEPT !.pc = "finishing", !.verdict = "failed"]
  <2>1. process' = [process EXCEPT ![p] = state] /\ state \in ProcessState
    BY <1>1, <1>6 DEF MarkFails, AfterFailedMark, ProcessState
  <2>2. /\ state.pc = "finishing" /\ state.verdict = "failed"
        /\ state.run = process[p].run /\ process'[p] = state
    BY <1>1, <2>1 DEF ProcessState
  <2>3. /\ ~Outside(p) /\ ~MayRepair(p)' /\ OwnsRun(p) /\ lock' = lock
    BY <1>6, <2>2 DEF MarkFails, MayRepair, OwnsRun, Outside
  <2>. QED
    BY <1>3, <2>1, <2>2, <2>3, Moving, RunsAssumption
<1>7. CASE RequestShutdown(p)
  <2>. DEFINE state == [process[p] EXCEPT !.pc = "stopping"]
  <2>1. process' = [process EXCEPT ![p] = state] /\ state \in ProcessState
    BY <1>1, <1>7 DEF RequestShutdown, Enter, ProcessState
  <2>. QED
    BY <1>1, <1>3, <1>7, <2>1, Moving DEF RequestShutdown, MayRepair, OwnsRun, Outside, Working,
                                                  ProcessState
<1>8. CASE WorkerEnds(p)
  <2>. DEFINE state == [process[p] EXCEPT !.pc = "marking", !.verdict = "stopped",
                                          !.unmarked = Component]
  <2>1. process' = [process EXCEPT ![p] = state] /\ state \in ProcessState
    BY <1>1, <1>8 DEF WorkerEnds, ProcessState
  <2>2. process'[p] = state
    BY <1>1, <2>1
  <2>3. Marked(p)'
    BY <2>2, <1>1 DEF Marked, ProcessState
  <2>4. /\ state.pc = "marking" /\ state.verdict = "stopped" /\ state.run = process[p].run
    BY <1>1 DEF ProcessState
  <2>5. /\ ~Outside(p) /\ ~MayRepair(p)' /\ OwnsRun(p) /\ lock' = lock
    BY <1>8, <2>2, <2>4 DEF WorkerEnds, MayRepair, OwnsRun, Outside
  <2>. QED
    BY <1>3, <2>1, <2>3, <2>4, <2>5, Moving, RunsAssumption
<1>9. CASE MarkingEnds(p)
  <2>1. CASE Unmarked(p) = {} /\ Enter(p, "finishing")
    <3>. DEFINE state == [process[p] EXCEPT !.pc = "finishing"]
    <3>1. process' = [process EXCEPT ![p] = state] /\ state \in ProcessState
      BY <1>1, <2>1 DEF Enter, ProcessState
    <3>2. process'[p] = state /\ (~lost => Marked(p))
      BY <1>1, <3>1, <1>9 DEF MarkingEnds, IInv, Guarded, LockGuards
    <3>3. ~lost => Marked(p)'
      BY <3>2, <1>1, <1>3 DEF Marked, ProcessState
    <3>4. process[p].verdict # None
      BY <1>9 DEF MarkingEnds, IInv, Base, ProcessesKnow
    <3>. QED
      BY <1>1, <1>3, <1>9, <2>1, <3>1, <3>3, <3>4, Moving
         DEF MarkingEnds, MayRepair, OwnsRun, Outside, ProcessState, Unmarked
  <2>2. CASE process' = [process EXCEPT ![p].pc = "finishing", ![p].verdict = "failed"]
    <3>. DEFINE state == [process[p] EXCEPT !.pc = "finishing", !.verdict = "failed"]
    <3>1. process' = [process EXCEPT ![p] = state] /\ state \in ProcessState
      BY <1>1, <2>2 DEF ProcessState
    <3>2. /\ state.pc = "finishing" /\ state.verdict = "failed"
          /\ state.run = process[p].run /\ process'[p] = state
      BY <1>1, <3>1 DEF ProcessState
    <3>3. /\ ~Outside(p) /\ ~MayRepair(p)' /\ OwnsRun(p) /\ lock' = lock
      BY <1>9, <3>2 DEF MarkingEnds, MayRepair, OwnsRun, Outside
    <3>. QED
      BY <1>3, <3>1, <3>2, <3>3, Moving, RunsAssumption
  <2>. QED
    BY <1>9, <2>1, <2>2 DEF MarkingEnds
<1>. QED
  BY <1>4, <1>5, <1>6, <1>7, <1>8, <1>9

\* A report replaces the row of its component: the run it names is running as long as
\* the lock stands, so a report takes back no stop of a run that ended.
LEMMA Reporting ==
  ASSUME IInv, NEW p \in Process, NEW c \in Component, NEW status \in {"live", "stopped"},
         OwnsRun(p), Report(p, c, status), run' = run
  PROVE  /\ health' \in [Component -> HealthRow \cup {None}]
         /\ health'[c] = [run |-> process[p].run, status |-> status] /\ health'[c] # None
         /\ \A d \in Component : d # c => health'[d] = health[d]
         /\ ~lost => QuietRuns'
<1>1. process[p].run \in Recorded
  BY DEF IInv, Base, ProcessesKnow
<1>. DEFINE row == [run |-> process[p].run, status |-> status]
<1>2. row \in HealthRow /\ row # None /\ row.run = process[p].run
  BY <1>1, RunsAssumption DEF HealthRow, Recorded
<1>3. health \in [Component -> HealthRow \cup {None}] /\ health' = [health EXCEPT ![c] = row]
  BY DEF IInv, Base, TypeOK, Report
<1>. HIDE DEF row
<1>4. /\ health' \in [Component -> HealthRow \cup {None}] /\ health'[c] = row
      /\ \A d \in Component : d # c => health'[d] = health[d]
  BY <1>2, <1>3
<1>5. ASSUME ~lost PROVE QuietRuns'
  <2>1. run[process[p].run].event # "graceful_stop"
    BY <1>1, <1>5, RunsAssumption DEF IInv, Guarded, LockGuards, Base, RunsKnown
  <2>. QED
    BY <1>2, <1>4, <1>5, <2>1 DEF IInv, Guarded, QuietRuns, Recorded
<1>. QED
  BY <1>2, <1>4, <1>5 DEF row

LEMMA MovingWithReport ==
  ASSUME IInv, NEW p \in Process, NEW c \in Component,
         ComponentReports(p, c) \/ ComponentFails(p, c) \/ MarkStopped(p, c)
  PROVE  IInv'
<1>1. process \in [Process -> ProcessState] /\ process[p] \in ProcessState
  BY DEF IInv, Base, TypeOK
<1>2. /\ OwnsRun(p) /\ ~Outside(p) /\ lock' = lock
      /\ UNCHANGED <<clock, epoch, run, initialized, lost>>
  BY DEF ComponentReports, ComponentFails, MarkStopped, Working, OwnsRun, Outside
<1>3. CASE ComponentReports(p, c)
  <2>1. process' = [process EXCEPT ![p] = process[p]] /\ process' = process /\ Report(p, c, "live")
    BY <1>1, <1>3 DEF ComponentReports
  <2>2. ~MayRepair(p)' /\ Working(p)
    BY <1>3, <2>1 DEF ComponentReports, Working, MayRepair
  <2>3. process[p].pc \notin {"started", "marking", "finishing", "sampled"}
    BY <2>2 DEF Working
  <2>. QED
    BY <1>1, <1>2, <2>1, <2>2, <2>3, Moving, Reporting
<1>4. CASE ComponentFails(p, c)
  <2>. DEFINE state == [process[p] EXCEPT !.pc = "finishing", !.verdict = "failed"]
  <2>1. process' = [process EXCEPT ![p] = state] /\ state \in ProcessState
    BY <1>1, <1>4 DEF ComponentFails, ProcessState
  <2>2. /\ state.pc = "finishing" /\ state.verdict = "failed"
        /\ state.run = process[p].run /\ process'[p] = state
    BY <1>1, <2>1 DEF ProcessState
  <2>3. ~MayRepair(p)' /\ Report(p, c, "live")
    BY <1>4, <2>2 DEF ComponentFails, MayRepair
  <2>. QED
    BY <1>2, <2>1, <2>2, <2>3, Moving, Reporting, RunsAssumption
<1>5. CASE MarkStopped(p, c)
  <2>. DEFINE state == [process[p] EXCEPT !.unmarked = @ \ {c}]
  <2>1. process' = [process EXCEPT ![p] = state] /\ state \in ProcessState
    BY <1>1, <1>5 DEF MarkStopped, ProcessState
  <2>2. /\ process[p].pc = "marking" /\ state.pc = "marking" /\ state.verdict = process[p].verdict
        /\ state.run = process[p].run /\ process'[p] = state
        /\ state.unmarked = process[p].unmarked \ {c}
    BY <1>1, <1>5, <2>1 DEF MarkStopped, ProcessState
  <2>. HIDE DEF state
  <2>3. ~MayRepair(p)' /\ Report(p, c, "stopped") /\ process[p].verdict # None
    BY <1>5, <2>2 DEF MarkStopped, MayRepair, IInv, Base, ProcessesKnow
  <2>4. /\ health' \in [Component -> HealthRow \cup {None}]
        /\ health'[c] = [run |-> process[p].run, status |-> "stopped"] /\ health'[c] # None
        /\ \A d \in Component : d # c => health'[d] = health[d]
        /\ ~lost => QuietRuns'
    BY <1>2, <2>3, Reporting
  <2>5. ~lost => Marked(p)'
    <3>1. ~lost => Marked(p)
      BY <2>2 DEF IInv, Guarded, LockGuards
    <3>. QED
      BY <2>2, <2>4, <3>1 DEF Marked
  <2>. QED
    BY <1>2, <2>1, <2>2, <2>3, <2>4, <2>5, Moving
<1>. QED
  BY <1>3, <1>4, <1>5

\* The connection is lost: the lock guards nothing any more.
LEMMA Losing ==
  ASSUME IInv, NEW p \in Process, LoseConnection(p)
  PROVE  IInv'
<1>1. /\ UNCHANGED <<clock, epoch, run, health, process, initialized>>
      /\ lock' = None /\ lost' = TRUE
  BY DEF LoseConnection
<1>2. TypeOK'
  BY <1>1 DEF IInv, Base, TypeOK
<1>3. Guarded'
  BY <1>1 DEF Guarded
<1>4. Recorded' = Recorded
  BY <1>1, RecordsKept
<1>5. ProcessesKnow' /\ LiveWorkHasBoundary'
  BY <1>1, <1>4
     DEF IInv, Base, ProcessesKnow, LiveWorkHasBoundary, MayRepair, OwnsRun, Working
<1>. QED
  BY <1>1, <1>2, <1>3, <1>5, RecordsKept DEF IInv, Base
-----------------------------------------------------------------------------
(* Time and the commands of the operator.                                  *)

LEMMA Ticking ==
  ASSUME IInv, Tick
  PROVE  IInv'
<1>1. /\ clock \in Nat /\ MaxClock \in Nat /\ clock' = clock + 1 /\ clock' \in 0 .. MaxClock
      /\ UNCHANGED <<lock, epoch, run, health, process, initialized, lost>>
  BY RunsAssumption DEF Tick, IInv, Base, TypeOK
<1>2. TypeOK'
  BY <1>1 DEF IInv, Base, TypeOK
<1>3. Recorded' = Recorded /\ RunningRun' = RunningRun
  BY <1>1 DEF Recorded, RunningRun
<1>4. \A r \in Recorded : run[r] \in RunRow
  BY DEF Recorded, IInv, Base, TypeOK
<1>5. RunsKnown'
  BY <1>1, <1>3, <1>4 DEF IInv, Base, RunsKnown, RunRow, MaybeTime
<1>6. ProcessesKnow'
  BY <1>1, <1>3 DEF IInv, Base, ProcessesKnow, MayRepair, OwnsRun
<1>7. OneRunningRun' /\ EpochInitializedOnce' /\ LiveWorkHasBoundary' /\ RunsApart'
  BY <1>1, <1>3
     DEF IInv, Base, OneRunningRun, EpochInitializedOnce, LiveWorkHasBoundary, RunsApart, Precedes,
         Working
<1>8. Guarded'
  BY <1>1, <1>3
     DEF IInv, Guarded, LockGuards, EndsExplained, Reversed, QuietRuns, Marked, OwnsRun, MayRepair,
         Outside
<1>. QED
  BY <1>2, <1>5, <1>6, <1>7, <1>8 DEF IInv, Base

\* A new epoch is planned, and one without a running run is closed.
LEMMA Declaring ==
  ASSUME IInv, NEW e \in Epoch, CreateEpoch(e) \/ CloseEpoch(e)
  PROVE  IInv'
<1>1. UNCHANGED <<clock, lock, run, health, process, initialized, lost>>
  BY DEF CreateEpoch, CloseEpoch
<1>2. PICK status \in {"planned", "closed"} :
        /\ epoch' = [epoch EXCEPT ![e] = status]
        /\ status = "planned" => epoch[e] = "absent"
        /\ status = "closed" => epoch[e] = "running"
        /\ \A r \in RunningRun : run[r].epoch # e
  <2>1. CASE CreateEpoch(e)
    <3>1. epoch[e] = "absent" /\ epoch' = [epoch EXCEPT ![e] = "planned"]
      BY <2>1 DEF CreateEpoch
    <3>2. \A r \in RunningRun : run[r].epoch # e
      BY <3>1 DEF IInv, Base, OneRunningRun
    <3>. QED
      BY <3>1, <3>2
  <2>2. CASE CloseEpoch(e)
    BY <2>2 DEF CloseEpoch
  <2>. QED
    BY <2>1, <2>2
<1>3. /\ epoch \in [Epoch -> EpochStatus] /\ epoch' \in [Epoch -> EpochStatus]
      /\ epoch'[e] = status
      /\ \A f \in Epoch : f # e => epoch'[f] = epoch[f]
  BY <1>2 DEF IInv, Base, TypeOK, EpochStatus
<1>4. TypeOK'
  BY <1>1, <1>3 DEF IInv, Base, TypeOK
<1>5. Recorded' = Recorded /\ RunningRun' = RunningRun
  BY <1>1 DEF Recorded, RunningRun
<1>6. \A r \in Recorded : run[r].epoch \in Epoch
  BY DEF Recorded, IInv, Base, TypeOK, RunRow
<1>7. OneRunningRun'
  BY <1>1, <1>2, <1>3, <1>5, <1>6 DEF IInv, Base, OneRunningRun, RunningRun
<1>8. EpochInitializedOnce'
  BY <1>1, <1>2, <1>3 DEF IInv, Base, EpochInitializedOnce
<1>9. RunsKnown' /\ ProcessesKnow' /\ LiveWorkHasBoundary' /\ RunsApart'
  BY <1>1, <1>5
     DEF IInv, Base, RunsKnown, ProcessesKnow, LiveWorkHasBoundary, RunsApart, Precedes, Working,
         MayRepair, OwnsRun
<1>10. Guarded'
  BY <1>1, <1>5
     DEF IInv, Guarded, LockGuards, EndsExplained, Reversed, QuietRuns, Marked, OwnsRun, MayRepair,
         Outside
<1>. QED
  BY <1>4, <1>7, <1>8, <1>9, <1>10 DEF IInv, Base
-----------------------------------------------------------------------------
(* Steps that change runs.                                                 *)

\* Finishing a row keeps what it says of its start.
LEMMA FinishedRow ==
  ASSUME TypeOK, NEW r \in Recorded, NEW at \in 0 .. clock, NEW status \in {"stopped", "failed"},
         NEW event \in {"graceful_stop", "failed", "stale_reconciled"}
  PROVE  LET row == FinishedRun(run[r], status, at, event)
         IN  /\ row \in RunRow
             /\ row.status = status /\ row.finished_at = at /\ row.event = event
             /\ row.started_at = run[r].started_at /\ row.epoch = run[r].epoch
             /\ row.collection_started_at = run[r].collection_started_at
             /\ row.last_heartbeat_at = run[r].last_heartbeat_at
<1>1. run[r] \in RunRow
  BY DEF TypeOK, Recorded
<1>2. at \in 0 .. MaxClock
  BY RunsAssumption DEF TypeOK
<1>. QED
  BY <1>1, <1>2 DEF FinishedRun, RunRow, MaybeTime

\* One row is replaced: the others are what they were.
LEMMA ReplacedRow ==
  ASSUME TypeOK, NEW r \in Recorded, NEW row \in RunRow, run' = [run EXCEPT ![r] = row]
  PROVE  /\ run' \in [RunId -> RunRow \cup {None}]
         /\ run'[r] = row
         /\ \A s \in RunId : s # r => run'[s] = run[s]
         /\ Recorded' = Recorded
<1>1. run \in [RunId -> RunRow \cup {None}] /\ r \in RunId /\ run[r] # None
  BY DEF TypeOK, Recorded
<1>2. /\ run' \in [RunId -> RunRow \cup {None}] /\ run'[r] = row
      /\ \A s \in RunId : s # r => run'[s] = run[s]
  BY <1>1
<1>3. row # None
  BY RunsAssumption
<1>. QED
  BY <1>1, <1>2, <1>3 DEF Recorded

\* A running run ends: what is said of runs and epochs alone remains true.
LEMMA Ending ==
  ASSUME IInv, NEW r \in RunningRun, NEW at \in 0 .. clock, NEW status \in {"stopped", "failed"},
         NEW event \in {"graceful_stop", "failed", "stale_reconciled"},
         run' = [run EXCEPT ![r] = FinishedRun(run[r], status, at, event)],
         UNCHANGED <<clock, epoch, initialized>>
  PROVE  /\ run' \in [RunId -> RunRow \cup {None}]
         /\ RunsKnown' /\ OneRunningRun' /\ EpochInitializedOnce' /\ RunsApart'
         /\ Recorded' = Recorded
         /\ RunningRun' = {}
         /\ \A s \in Recorded :
              /\ run'[s].collection_started_at = run[s].collection_started_at
              /\ run'[s].started_at = run[s].started_at
              /\ run'[s].last_heartbeat_at = run[s].last_heartbeat_at
              /\ s # r => run'[s] = run[s]
         /\ run'[r].finished_at = at /\ run'[r].event = event
<1>. DEFINE row == FinishedRun(run[r], status, at, event)
<1>1. TypeOK /\ r \in Recorded /\ run[r].status = "running" /\ Recorded \subseteq RunId
  BY DEF IInv, Base, RunningRun, Recorded
<1>2. /\ row \in RunRow
      /\ row.status = status /\ row.finished_at = at /\ row.event = event
      /\ row.started_at = run[r].started_at /\ row.epoch = run[r].epoch
      /\ row.collection_started_at = run[r].collection_started_at
      /\ row.last_heartbeat_at = run[r].last_heartbeat_at
  BY <1>1, FinishedRow
<1>. HIDE DEF row
<1>3. /\ run' \in [RunId -> RunRow \cup {None}] /\ run'[r] = row
      /\ \A s \in RunId : s # r => run'[s] = run[s]
      /\ Recorded' = Recorded
  BY <1>1, <1>2, ReplacedRow DEF row
<1>4. at # None /\ event # None /\ status # "running" /\ at <= clock
  BY RunsAssumption DEF IInv, Base, TypeOK
<1>5. RunningRun' = {}
  BY <1>1, <1>2, <1>3, <1>4 DEF RunningRun, IInv, Base, OneRunningRun
<1>6. RunsKnown'
  BY <1>1, <1>2, <1>3, <1>4 DEF IInv, Base, RunsKnown
<1>7. OneRunningRun' /\ EpochInitializedOnce'
  BY <1>5 DEF IInv, Base, OneRunningRun, EpochInitializedOnce
<1>8. RunsApart'
  <2>. SUFFICES ASSUME NEW s \in Recorded, NEW t \in Recorded, s # t
                PROVE  Precedes(s, t)' \/ Precedes(t, s)'
    BY <1>3 DEF RunsApart
  <2>1. Precedes(s, t) \/ Precedes(t, s)
    BY DEF IInv, Base, RunsApart
  <2>2. run[r].finished_at = None
    BY <1>1 DEF IInv, Base, RunsKnown
  <2>. QED
    BY <1>1, <1>2, <1>3, <2>1, <2>2 DEF Precedes
<1>. QED
  BY <1>1, <1>2, <1>3, <1>5, <1>6, <1>7, <1>8

\* An end is explained when it is not before the boundary, or a repair's without a heartbeat.
LEMMA EndExplained ==
  ASSUME IInv, EndsExplained, NEW r \in Recorded, NEW at \in Nat,
         Recorded' = Recorded,
         \A s \in Recorded : s # r => run'[s] = run[s],
         run'[r].finished_at = at,
         run'[r].collection_started_at = run[r].collection_started_at,
         run'[r].last_heartbeat_at = run[r].last_heartbeat_at,
         \/ run[r].collection_started_at # None => run[r].collection_started_at <= at
         \/ run'[r].event = "stale_reconciled" /\ run[r].last_heartbeat_at = None
  PROVE  EndsExplained'
<1>. SUFFICES ASSUME NEW s \in Recorded PROVE EndsExplained!(s)'
  BY DEF EndsExplained
<1>1. EndsExplained!(s)
  BY DEF EndsExplained
<1>2. CASE s # r
  BY <1>1, <1>2 DEF Reversed
<1>3. CASE s = r
  <2>1. ASSUME run[r].collection_started_at # None PROVE run[r].collection_started_at \in Nat
    BY <2>1, RunsAssumption DEF IInv, Base, TypeOK, Recorded, RunRow, MaybeTime
  <2>. QED
    BY <1>1, <1>3, <2>1 DEF Reversed
<1>. QED
  BY <1>2, <1>3

\* The end a process gives its run, and the one a repair gives it.
LEMMA Finishing ==
  ASSUME IInv, NEW p \in Process, Finish(p)
  PROVE  IInv'
<1>. DEFINE r == process[p].run
            state == [Down EXCEPT !.pc = "releasing"]
<1>1. /\ process[p].pc = "finishing" /\ process' = [process EXCEPT ![p] = state]
      /\ UNCHANGED <<clock, lock, epoch, health, initialized, lost>>
  BY DEF Finish, Exits
<1>2. /\ process \in [Process -> ProcessState] /\ process[p] \in ProcessState
      /\ state \in ProcessState /\ state.pc = "releasing"
  BY DEF IInv, Base, TypeOK, Down, ProcessState, MaybeTime
<1>3. process'[p] = state /\ \A q \in Process : q # p => process'[q] = process[q]
  BY <1>1, <1>2
<1>4. /\ r \in Recorded /\ process[p].verdict \in {"stopped", "failed"}
      /\ clock \in 0 .. clock
  BY <1>1, <1>2, RunsAssumption DEF IInv, Base, TypeOK, ProcessesKnow, OwnsRun, ProcessState
<1>5. CASE run' = run
  <2>1. ~lost => QuietRuns'
    BY <1>1, <1>5, RecordsKept DEF IInv, Guarded, QuietRuns
  <2>2. ~MayRepair(p)' /\ health' \in [Component -> HealthRow \cup {None}]
    BY <1>1, <1>2, <1>3 DEF MayRepair, IInv, Base, TypeOK
  <2>. QED
    BY <1>1, <1>2, <1>5, <2>1, <2>2, Moving DEF Outside
<1>6. CASE run' # run
  <2>. DEFINE event == IF process[p].verdict = "failed" THEN "failed" ELSE "graceful_stop"
  <2>1. /\ r \in RunningRun
        /\ run' = [run EXCEPT ![r] = FinishedRun(run[r], process[p].verdict, clock, event)]
    BY <1>4, <1>6 DEF Finish, MayFinish, RunningRun
  <2>2. /\ run' \in [RunId -> RunRow \cup {None}]
        /\ RunsKnown' /\ OneRunningRun' /\ EpochInitializedOnce' /\ RunsApart'
        /\ Recorded' = Recorded
        /\ RunningRun' = {}
        /\ \A s \in Recorded :
             /\ run'[s].collection_started_at = run[s].collection_started_at
             /\ run'[s].started_at = run[s].started_at
             /\ run'[s].last_heartbeat_at = run[s].last_heartbeat_at
             /\ s # r => run'[s] = run[s]
        /\ run'[r].finished_at = clock /\ run'[r].event = event
    <3>1. event \in {"graceful_stop", "failed", "stale_reconciled"}
      OBVIOUS
    <3>. DEFINE verdict == process[p].verdict
    <3>2. /\ r \in RunningRun /\ clock \in 0 .. clock /\ verdict \in {"stopped", "failed"}
          /\ run' = [run EXCEPT ![r] = FinishedRun(run[r], verdict, clock, event)]
          /\ UNCHANGED <<clock, epoch, initialized>>
      BY <1>1, <1>4, <2>1
    <3>. HIDE DEF event, verdict, r, state
    <3>. QED
      BY <3>1, <3>2, Ending, ZenonT(60)
  <2>3. process' \in [Process -> ProcessState]
    BY <1>1, <1>2
  <2>4. TypeOK'
    BY <1>1, <2>2, <2>3 DEF IInv, Base, TypeOK, Recorded
  <2>5. ProcessesKnow' /\ LiveWorkHasBoundary'
    <3>1. \A q \in Process : q # p /\ OwnsRun(q) => process[q].run \in Recorded
      BY DEF IInv, Base, ProcessesKnow
    <3>. QED
      BY <1>1, <1>2, <1>3, <2>2, <3>1
         DEF IInv, Base, ProcessesKnow, LiveWorkHasBoundary, MayRepair, OwnsRun, Working
  <2>6. Guarded'
    <3>. SUFFICES ASSUME ~lost PROVE LockGuards' /\ EndsExplained' /\ QuietRuns'
      BY <1>1 DEF Guarded
    <3>1. LockGuards /\ EndsExplained /\ QuietRuns
      BY DEF IInv, Guarded
    <3>2. \A q \in Process : q # p => Outside(q)
      BY <1>1, <3>1 DEF LockGuards, Outside
    <3>3. LockGuards'
      BY <1>1, <1>2, <1>3, <3>1, <3>2 DEF LockGuards, OwnsRun, Outside
    <3>4. EndsExplained'
      <4>1. run[r].collection_started_at # None => run[r].collection_started_at <= clock
        BY <1>4 DEF IInv, Base, RunsKnown
      <4>2. clock \in Nat /\ run'[r].finished_at = clock
        BY <2>2, RunsAssumption DEF IInv, Base, TypeOK
      <4>. QED
        BY <1>4, <2>2, <3>1, <4>1, <4>2, EndExplained
    <3>5. event = "graceful_stop" => process[p].verdict = "stopped"
      BY <1>4
    <3>6. event = "graceful_stop" => Marked(p) /\ process[p].unmarked = {}
      BY <1>1, <3>1, <3>5 DEF LockGuards, IInv, Base, ProcessesKnow
    <3>. HIDE DEF event
    <3>7. QuietRuns'
      BY <1>1, <2>2, <3>1, <3>6 DEF QuietRuns, Marked
    <3>. QED
      BY <3>3, <3>4, <3>7
  <2>. QED
    BY <2>2, <2>4, <2>5, <2>6 DEF IInv, Base
<1>. QED
  BY <1>5, <1>6

\* A heartbeat is a column no other column depends on.
LEMMA Beating ==
  ASSUME IInv, NEW p \in Process, Heartbeat(p)
  PROVE  IInv'
<1>. DEFINE r == process[p].run
            row == [run[r] EXCEPT !.last_heartbeat_at = clock]
<1>1. /\ r \in Recorded /\ UNCHANGED <<clock, lock, epoch, health, process, initialized, lost>>
      /\ TypeOK
  BY DEF Heartbeat, Working, IInv, Base, ProcessesKnow, OwnsRun
<1>2. run[r] \in RunRow /\ run' = [run EXCEPT ![r] = row]
  BY <1>1 DEF Heartbeat, TypeOK, Recorded
<1>3. /\ row \in RunRow
      /\ row.status = run[r].status /\ row.finished_at = run[r].finished_at
      /\ row.event = run[r].event /\ row.started_at = run[r].started_at
      /\ row.epoch = run[r].epoch
      /\ row.collection_started_at = run[r].collection_started_at
      /\ row.last_heartbeat_at = clock
  BY <1>1, <1>2 DEF TypeOK, RunRow, MaybeTime
<1>. HIDE DEF row
<1>4. /\ run' \in [RunId -> RunRow \cup {None}] /\ run'[r] = row
      /\ \A s \in RunId : s # r => run'[s] = run[s]
      /\ Recorded' = Recorded
  BY <1>1, <1>2, <1>3, ReplacedRow
<1>5. \A s \in Recorded :
        /\ run'[s].status = run[s].status /\ run'[s].finished_at = run[s].finished_at
        /\ run'[s].event = run[s].event /\ run'[s].started_at = run[s].started_at
        /\ run'[s].epoch = run[s].epoch
        /\ run'[s].collection_started_at = run[s].collection_started_at
  BY <1>3, <1>4 DEF Recorded
<1>6. RunningRun' = RunningRun
  BY <1>4, <1>5 DEF RunningRun
<1>7. TypeOK'
  BY <1>1, <1>4, <1>5 DEF TypeOK, Recorded
<1>8. RunsKnown' /\ OneRunningRun' /\ EpochInitializedOnce' /\ RunsApart'
  BY <1>1, <1>4, <1>5, <1>6
     DEF IInv, Base, RunsKnown, OneRunningRun, EpochInitializedOnce, RunsApart, Precedes, RunningRun
<1>9. ProcessesKnow' /\ LiveWorkHasBoundary'
  BY <1>1, <1>4, <1>5
     DEF IInv, Base, ProcessesKnow, LiveWorkHasBoundary, MayRepair, OwnsRun, Working
<1>10. Guarded'
  <2>. SUFFICES ASSUME ~lost PROVE LockGuards' /\ EndsExplained' /\ QuietRuns'
    BY <1>1 DEF Guarded
  <2>1. LockGuards /\ EndsExplained /\ QuietRuns
    BY DEF IInv, Guarded
  <2>2. Working(p) /\ \A q \in Process : q # p => Outside(q)
    BY <2>1 DEF Heartbeat, LockGuards, Working, Outside
  <2>3. LockGuards'
    BY <1>1, <1>4, <1>5, <1>6, <2>1, <2>2
       DEF IInv, Base, ProcessesKnow, LockGuards, OwnsRun, Outside, Working, Marked, RunningRun
  <2>4. run[r].finished_at = None
    BY <1>1, <2>1, <2>2 DEF LockGuards, OwnsRun, Working, IInv, Base, RunsKnown
  <2>5. run[r].collection_started_at # None /\ run[r].collection_started_at <= clock
    BY <1>1, <2>2 DEF IInv, Base, LiveWorkHasBoundary, RunsKnown
  <2>6. EndsExplained'
    BY <1>1, <1>3, <1>4, <2>1, <2>4, <2>5 DEF EndsExplained, Reversed, Recorded
  <2>7. QuietRuns'
    BY <1>1, <1>4, <1>5, <2>1 DEF QuietRuns
  <2>. QED
    BY <2>3, <2>6, <2>7
<1>. QED
  BY <1>7, <1>8, <1>9, <1>10 DEF IInv, Base

\* The boundary of live work: every other run has ended by now.
LEMMA Beginning ==
  ASSUME IInv, NEW p \in Process, MarkStarted(p)
  PROVE  IInv'
<1>. DEFINE r == process[p].run
            row == [run[r] EXCEPT !.collection_started_at = clock]
            state == [process[p] EXCEPT !.pc = "supervising"]
<1>1. /\ r \in Recorded /\ UNCHANGED <<clock, lock, epoch, health, initialized, lost>>
      /\ TypeOK /\ run[r].status = "running" /\ process[p].pc = "started"
  BY DEF MarkStarted, IInv, Base, ProcessesKnow, OwnsRun
<1>2. run[r] \in RunRow /\ run' = [run EXCEPT ![r] = row]
  BY <1>1 DEF MarkStarted, BoundaryTime, TypeOK, Recorded
<1>3. /\ row \in RunRow
      /\ row.status = run[r].status /\ row.finished_at = run[r].finished_at
      /\ row.event = run[r].event /\ row.started_at = run[r].started_at
      /\ row.epoch = run[r].epoch
      /\ row.collection_started_at = clock
      /\ row.last_heartbeat_at = run[r].last_heartbeat_at
  BY <1>1, <1>2 DEF TypeOK, RunRow, MaybeTime
<1>. HIDE DEF row
<1>4. /\ run' \in [RunId -> RunRow \cup {None}] /\ run'[r] = row
      /\ \A s \in RunId : s # r => run'[s] = run[s]
      /\ Recorded' = Recorded
  BY <1>1, <1>2, <1>3, ReplacedRow
<1>5. \A s \in Recorded :
        /\ run'[s].status = run[s].status /\ run'[s].finished_at = run[s].finished_at
        /\ run'[s].event = run[s].event /\ run'[s].started_at = run[s].started_at
        /\ run'[s].epoch = run[s].epoch
  BY <1>3, <1>4 DEF Recorded
<1>6. RunningRun' = RunningRun
  BY <1>4, <1>5 DEF RunningRun
<1>7. /\ process \in [Process -> ProcessState] /\ process[p] \in ProcessState
      /\ process' = [process EXCEPT ![p] = state]
  BY <1>1 DEF MarkStarted, Enter, TypeOK
<1>8. state \in ProcessState /\ state.pc = "supervising" /\ state.run = r
  BY <1>7 DEF ProcessState
<1>. HIDE DEF state
<1>9. /\ process' \in [Process -> ProcessState] /\ process'[p] = state
      /\ \A q \in Process : q # p => process'[q] = process[q]
  BY <1>7, <1>8
<1>10. clock \in Nat /\ clock # None /\ run[r].started_at <= clock /\ run[r].finished_at = None
  BY <1>1, RunsAssumption DEF IInv, Base, TypeOK, RunsKnown
<1>11. TypeOK'
  BY <1>1, <1>3, <1>4, <1>5, <1>9, <1>10 DEF TypeOK, Recorded
<1>12. RunsKnown'
  <2>. SUFFICES ASSUME NEW s \in Recorded PROVE RunsKnown!(s)'
    BY <1>4 DEF RunsKnown
  <2>1. RunsKnown!(s)
    BY DEF IInv, Base, RunsKnown
  <2>2. s \in RunId
    BY DEF Recorded
  <2>. QED
    BY <1>1, <1>3, <1>4, <1>5, <1>10, <2>1, <2>2
<1>13. OneRunningRun' /\ EpochInitializedOnce'
  BY <1>1, <1>4, <1>5, <1>6 DEF IInv, Base, OneRunningRun, EpochInitializedOnce, RunningRun
<1>14. RunsApart'
  <2>. SUFFICES ASSUME NEW s \in Recorded, NEW t \in Recorded, s # t
                PROVE  Precedes(s, t)' \/ Precedes(t, s)'
    BY <1>4 DEF RunsApart
  <2>1. Precedes(s, t) \/ Precedes(t, s)
    BY DEF IInv, Base, RunsApart
  <2>2. \A u \in Recorded : run[u].finished_at # None => run[u].finished_at <= clock
    BY DEF IInv, Base, RunsKnown
  <2>. QED
    BY <1>1, <1>3, <1>4, <1>10, <2>1, <2>2 DEF Precedes, Recorded
<1>15. ProcessesKnow' /\ LiveWorkHasBoundary'
  BY <1>1, <1>3, <1>4, <1>8, <1>9, <1>10
     DEF IInv, Base, ProcessesKnow, LiveWorkHasBoundary, MayRepair, OwnsRun, Working, Recorded
<1>16. Guarded'
  <2>. SUFFICES ASSUME ~lost PROVE LockGuards' /\ EndsExplained' /\ QuietRuns'
    BY <1>1 DEF Guarded
  <2>1. LockGuards /\ EndsExplained /\ QuietRuns
    BY DEF IInv, Guarded
  <2>2. \A q \in Process : q # p => Outside(q)
    BY <1>1, <2>1 DEF LockGuards, Outside
  <2>3. LockGuards'
    BY <1>1, <1>5, <1>8, <1>9, <2>1, <2>2 DEF LockGuards, OwnsRun, Outside
  <2>4. run[r].last_heartbeat_at = None
    BY <1>1, <2>1 DEF LockGuards
  <2>5. EndsExplained'
    BY <1>1, <1>3, <1>4, <1>10, <2>1, <2>4 DEF EndsExplained, Reversed, Recorded
  <2>6. QuietRuns'
    BY <1>1, <1>4, <1>5, <2>1 DEF QuietRuns
  <2>. QED
    BY <2>3, <2>5, <2>6
<1>. QED
  BY <1>11, <1>12, <1>13, <1>14, <1>15, <1>16 DEF IInv, Base

\* A repair ends the run a dead process left running.
LEMMA Repairing ==
  ASSUME IInv, NEW p \in Process, ReconcileStale(p)
  PROVE  IInv'
<1>. DEFINE at == process[p].now
            state == [Down EXCEPT !.pc = "releasing"]
            stopped(h) == [h EXCEPT !.status = "stopped"]
<1>1. /\ process[p].pc = "reconciling" /\ process' = [process EXCEPT ![p] = state]
      /\ UNCHANGED <<clock, lock, epoch, initialized, lost>>
  BY DEF ReconcileStale, Exits
<1>2. /\ process \in [Process -> ProcessState]
      /\ state \in ProcessState /\ state.pc = "releasing"
  BY DEF IInv, Base, TypeOK, Down, ProcessState, MaybeTime
<1>. HIDE DEF state
<1>3. /\ process' \in [Process -> ProcessState] /\ process'[p] = state
      /\ \A q \in Process : q # p => process'[q] = process[q]
  BY <1>1, <1>2
<1>4. PICK r \in LatestRun(process[p].epoch) :
        /\ run[r].status = "running" /\ Stale(r, at)
        /\ run' = [run EXCEPT ![r] = FinishedRun(run[r], "stopped", at, "stale_reconciled")]
        /\ health' = [c \in Component |->
             IF health[c] # None /\ health[c].run = r THEN stopped(health[c]) ELSE health[c]]
  BY DEF ReconcileStale
<1>5. r \in RunningRun /\ at \in 0 .. clock
  BY <1>1, <1>4 DEF LatestRun, RunningRun, IInv, Base, ProcessesKnow, MayRepair
<1>6. /\ run' \in [RunId -> RunRow \cup {None}]
      /\ RunsKnown' /\ OneRunningRun' /\ EpochInitializedOnce' /\ RunsApart'
      /\ Recorded' = Recorded
      /\ RunningRun' = {}
      /\ \A s \in Recorded :
           /\ run'[s].collection_started_at = run[s].collection_started_at
           /\ run'[s].started_at = run[s].started_at
           /\ run'[s].last_heartbeat_at = run[s].last_heartbeat_at
           /\ s # r => run'[s] = run[s]
      /\ run'[r].finished_at = at /\ run'[r].event = "stale_reconciled"
  BY <1>1, <1>4, <1>5, Ending
<1>7. health \in [Component -> HealthRow \cup {None}]
  BY DEF IInv, Base, TypeOK
<1>8. \A c \in Component : health[c] # None =>
        /\ stopped(health[c]) \in HealthRow /\ stopped(health[c]) # None
        /\ stopped(health[c]).status = "stopped" /\ stopped(health[c]).run = health[c].run
  BY <1>7, RunsAssumption DEF HealthRow
<1>. HIDE DEF stopped
<1>9. /\ health' \in [Component -> HealthRow \cup {None}]
      /\ \A c \in Component :
           /\ (health'[c] = None) <=> (health[c] = None)
           /\ health[c] # None =>
                /\ health'[c].run = health[c].run
                /\ health'[c].status = "stopped" \/ health'[c] = health[c]
  <2>1. \A c \in Component :
          /\ health[c] \in HealthRow \cup {None}
          /\ health'[c] = health[c] \/ (health[c] # None /\ health'[c] = stopped(health[c]))
    BY <1>4, <1>7
  <2>2. \A c \in Component : health'[c] \in HealthRow \cup {None}
    BY <1>8, <2>1
  <2>3. health' \in [Component -> HealthRow \cup {None}]
    <3>1. health' = [c \in Component |-> health'[c]]
      BY <1>4
    <3>. QED
      BY <2>2, <3>1
  <2>. QED
    BY <1>8, <2>1, <2>3
<1>10. TypeOK'
  BY <1>1, <1>3, <1>6, <1>9 DEF IInv, Base, TypeOK, Recorded
<1>11. ProcessesKnow' /\ LiveWorkHasBoundary'
  <2>1. \A q \in Process : q # p /\ OwnsRun(q) => process[q].run \in Recorded
    BY DEF IInv, Base, ProcessesKnow
  <2>. QED
    BY <1>1, <1>2, <1>3, <1>6, <2>1
       DEF IInv, Base, ProcessesKnow, LiveWorkHasBoundary, MayRepair, OwnsRun, Working
<1>12. Guarded'
  <2>. SUFFICES ASSUME ~lost PROVE LockGuards' /\ EndsExplained' /\ QuietRuns'
    BY <1>1 DEF Guarded
  <2>1. LockGuards /\ EndsExplained /\ QuietRuns
    BY DEF IInv, Guarded
  <2>2. \A q \in Process : q # p => Outside(q)
    BY <1>1, <2>1 DEF LockGuards, Outside
  <2>3. LockGuards'
    BY <1>1, <1>2, <1>3, <2>1, <2>2 DEF LockGuards, OwnsRun, Outside
  <2>4. EndsExplained'
    <3>1. /\ r \in Recorded /\ run[r] \in RunRow /\ at \in Nat /\ StaleAfter \in Nat
      BY <1>5, RunsAssumption DEF RunningRun, Recorded, IInv, Base, TypeOK
    <3>2. ASSUME run[r].last_heartbeat_at # None
          PROVE  run[r].collection_started_at # None /\ run[r].collection_started_at <= at
      <4>1. at > run[r].last_heartbeat_at + StaleAfter
        BY <1>4, <3>2 DEF Stale, LastSign
      <4>2. /\ run[r].collection_started_at # None
            /\ run[r].collection_started_at <= run[r].last_heartbeat_at
        BY <2>1, <3>1, <3>2 DEF EndsExplained
      <4>3. run[r].collection_started_at \in Nat /\ run[r].last_heartbeat_at \in Nat
        BY <3>1, <3>2, <4>2 DEF RunRow, MaybeTime
      <4>. QED
        BY <3>1, <4>1, <4>2, <4>3
    <3>. HIDE DEF at
    <3>. QED
      BY <1>6, <2>1, <3>1, <3>2, EndExplained
  <2>5. QuietRuns'
    BY <1>6, <1>9, <2>1 DEF QuietRuns
  <2>. QED
    BY <2>3, <2>4, <2>5
<1>. QED
  BY <1>6, <1>10, <1>11, <1>12 DEF IInv, Base

\* A new run begins when every run that was still running has failed, in the epoch
\* that is running from then on.
LEMMA Starting ==
  ASSUME IInv, NEW p \in Process, Start(p)
  PROVE  IInv'
<1>. DEFINE e == process[p].epoch
            at == process[p].now
            failed(r) == FinishedRun(run[r], "failed", at, "failed")
            new == NewRun(e, at)
<1>1. /\ process[p].pc = "starting" /\ TypeOK /\ e \in Epoch /\ at \in 0 .. clock
      /\ StartsEpoch(e) \/ AttachesTo(e)
      /\ UNCHANGED <<clock, lock, health, lost>>
  BY DEF Start, IInv, Base, ProcessesKnow, MayRepair
<1>2. PICK n \in RunId :
        /\ run[n] = None
        /\ run' = [Recovered(at) EXCEPT ![n] = new]
        /\ process' = [process EXCEPT ![p] = [Down EXCEPT !.pc = "started", !.run = n]]
  BY DEF Start
<1>. DEFINE state == [Down EXCEPT !.pc = "started", !.run = n]
<1>3. /\ process \in [Process -> ProcessState] /\ process' = [process EXCEPT ![p] = state]
      /\ state \in ProcessState /\ state.pc = "started" /\ state.run = n
  BY <1>1, <1>2 DEF TypeOK, Down, ProcessState, MaybeTime
<1>. HIDE DEF state
<1>4. /\ process' \in [Process -> ProcessState] /\ process'[p] = state
      /\ \A q \in Process : q # p => process'[q] = process[q]
  BY <1>3
<1>5. /\ Recorded \subseteq RunId /\ RunningRun \subseteq Recorded /\ n \notin Recorded
      /\ \A r \in Recorded : run[r] \in RunRow
      /\ \A r \in RunId : r \notin Recorded => run[r] = None
      /\ \A r \in Recorded : r \notin RunningRun => run[r].status # "running"
  BY <1>1, <1>2 DEF TypeOK, Recorded, RunningRun
<1>6. /\ new \in RunRow /\ new # None /\ new.status = "running" /\ new.epoch = e
      /\ new.started_at = at /\ new.collection_started_at = None
      /\ new.finished_at = None /\ new.event = None /\ new.last_heartbeat_at = None
  <2>1. at \in 0 .. MaxClock
    BY <1>1, RunsAssumption DEF TypeOK
  <2>2. new \in RunRow
    BY <1>1, <2>1 DEF NewRun, RunRow, MaybeTime
  <2>. QED
    BY <2>2, RunsAssumption DEF NewRun
<1>7. \A r \in RunningRun :
        /\ failed(r) \in RunRow /\ failed(r) # None
        /\ failed(r).status = "failed" /\ failed(r).finished_at = at /\ failed(r).event = "failed"
        /\ failed(r).started_at = run[r].started_at /\ failed(r).epoch = run[r].epoch
        /\ failed(r).collection_started_at = run[r].collection_started_at
        /\ failed(r).last_heartbeat_at = run[r].last_heartbeat_at
  BY <1>1, <1>5, FinishedRow, RunsAssumption
<1>. HIDE DEF failed, new
<1>8. /\ run' = [r \in RunId |-> IF r = n THEN new
                                 ELSE IF r \in RunningRun THEN failed(r) ELSE run[r]]
  BY <1>2 DEF Recovered, failed
<1>9. /\ run'[n] = new
      /\ \A r \in RunningRun : run'[r] = failed(r)
      /\ \A r \in RunId : r # n /\ r \notin RunningRun => run'[r] = run[r]
  BY <1>5, <1>8
<1>10. run' \in [RunId -> RunRow \cup {None}] /\ Recorded' = Recorded \cup {n}
  <2>1. \A r \in RunId : /\ run'[r] \in RunRow \cup {None}
                         /\ run'[r] # None <=> r \in Recorded \cup {n}
    BY <1>5, <1>6, <1>7, <1>9, RunsAssumption
  <2>2. run' = [r \in RunId |-> run'[r]]
    BY <1>8
  <2>. QED
    BY <1>5, <2>1, <2>2 DEF Recorded
<1>11. RunningRun' = {n}
  BY <1>5, <1>6, <1>7, <1>9, <1>10 DEF RunningRun
<1>12. \A r \in Recorded :
         /\ run'[r].started_at = run[r].started_at /\ run'[r].epoch = run[r].epoch
         /\ run'[r].collection_started_at = run[r].collection_started_at
         /\ run'[r].last_heartbeat_at = run[r].last_heartbeat_at
         /\ run'[r].finished_at = IF r \in RunningRun THEN at ELSE run[r].finished_at
         /\ run'[r].event = IF r \in RunningRun THEN "failed" ELSE run[r].event
         /\ run'[r].status = IF r \in RunningRun THEN "failed" ELSE run[r].status
  BY <1>5, <1>7, <1>9
<1>13. /\ epoch \in [Epoch -> EpochStatus] /\ epoch' \in [Epoch -> EpochStatus]
       /\ epoch'[e] = "running"
       /\ \A f \in Epoch : f # e => epoch'[f] = epoch[f]
       /\ \A f \in Epoch : f # e => epoch[f] # "running"
  BY <1>1 DEF Start, TypeOK, EpochStatus, StartsEpoch, AttachesTo, IInv, Base, OneRunningRun
<1>14. /\ initialized' \in [Epoch -> Nat]
       /\ initialized'[e] = IF StartsEpoch(e) THEN initialized[e] + 1 ELSE initialized[e]
       /\ \A f \in Epoch : f # e => initialized'[f] = initialized[f]
  BY <1>1 DEF Start, TypeOK, Initialized
<1>15. TypeOK'
  BY <1>1, <1>4, <1>5, <1>6, <1>9, <1>10, <1>12, <1>13, <1>14 DEF TypeOK, Recorded
<1>16. RunsKnown'
  BY <1>1, <1>5, <1>6, <1>9, <1>10, <1>12, RunsAssumption DEF RunsKnown, IInv, Base, TypeOK
<1>17. OneRunningRun'
  BY <1>6, <1>9, <1>11, <1>13 DEF OneRunningRun
<1>18. EpochInitializedOnce'
  BY <1>1, <1>13, <1>14
     DEF EpochInitializedOnce, IInv, Base, StartsEpoch, AttachesTo
<1>19. RunsApart'
  <2>. SUFFICES ASSUME NEW s \in Recorded', NEW t \in Recorded', s # t
                PROVE  Precedes(s, t)' \/ Precedes(t, s)'
    BY DEF RunsApart
  <2>1. \A r \in Recorded : run'[r].finished_at # None
    BY <1>1, <1>5, <1>12, RunsAssumption DEF IInv, Base, RunsKnown
  <2>2. CASE s = n \/ t = n
    BY <1>6, <1>9, <1>10, <2>1, <2>2 DEF Precedes
  <2>3. CASE s # n /\ t # n
    <3>1. s \in Recorded /\ t \in Recorded
      BY <1>10, <2>3
    <3>2. Precedes(s, t) \/ Precedes(t, s)
      BY <3>1 DEF IInv, Base, RunsApart
    <3>3. \A r \in RunningRun : run[r].finished_at = None
      BY <1>5 DEF RunningRun, IInv, Base, RunsKnown
    <3>. QED
      BY <1>12, <3>1, <3>2, <3>3 DEF Precedes
  <2>. QED
    BY <2>2, <2>3
<1>20. ProcessesKnow' /\ LiveWorkHasBoundary'
  <2>1. \A q \in Process : OwnsRun(q) => process[q].run \in Recorded
    BY DEF IInv, Base, ProcessesKnow
  <2>. QED
    BY <1>1, <1>3, <1>4, <1>10, <1>12, <2>1
       DEF IInv, Base, ProcessesKnow, LiveWorkHasBoundary, MayRepair, OwnsRun, Working
<1>21. Guarded'
  <2>. SUFFICES ASSUME ~lost PROVE LockGuards' /\ EndsExplained' /\ QuietRuns'
    BY <1>1 DEF Guarded
  <2>1. LockGuards /\ EndsExplained /\ QuietRuns
    BY DEF IInv, Guarded
  <2>2. \A q \in Process : q # p => Outside(q)
    BY <1>1, <2>1 DEF LockGuards, Outside
  <2>3. LockGuards'
    BY <1>1, <1>3, <1>4, <1>6, <1>9, <2>1, <2>2 DEF LockGuards, OwnsRun, Outside
  <2>4. EndsExplained'
    <3>1. \A r \in RunningRun : run[r].collection_started_at # None =>
            run[r].collection_started_at <= at
      BY <1>1, <2>1 DEF LockGuards
    <3>2. at \in Nat /\ \A r \in Recorded : run[r].collection_started_at # None =>
                                          run[r].collection_started_at \in Nat
      BY <1>1, <1>5, RunsAssumption DEF TypeOK, RunRow, MaybeTime
    <3>. HIDE DEF at
    <3>3. SUFFICES ASSUME NEW r \in Recorded' PROVE EndsExplained!(r)'
      BY DEF EndsExplained
    <3>4. CASE r = n
      BY <1>6, <1>9, <3>4 DEF Reversed
    <3>5. CASE r # n
      <4>1. r \in Recorded /\ EndsExplained!(r)
        BY <1>10, <2>1, <3>5 DEF EndsExplained
      <4>. QED
        BY <1>12, <3>1, <3>2, <4>1 DEF Reversed
    <3>. QED
      BY <3>4, <3>5
  <2>5. QuietRuns'
    BY <1>1, <1>6, <1>9, <1>10, <1>12, <2>1, RunsAssumption DEF QuietRuns
  <2>. QED
    BY <2>3, <2>4, <2>5
<1>. QED
  BY <1>15, <1>16, <1>17, <1>18, <1>19, <1>20, <1>21 DEF IInv, Base
-----------------------------------------------------------------------------
LEMMA RunsStep ==
  ASSUME IInv, [Next]_vars
  PROVE  IInv'
<1>1. CASE UNCHANGED vars
  <2>1. Recorded' = Recorded /\ RunningRun' = RunningRun
    BY <1>1 DEF vars, Recorded, RunningRun
  <2>. QED
    BY <1>1, <2>1
       DEF vars, IInv, Base, TypeOK, RunsKnown, ProcessesKnow, OneRunningRun, EpochInitializedOnce,
           LiveWorkHasBoundary, RunsApart, Precedes, Guarded, LockGuards, EndsExplained, Reversed,
           QuietRuns, Marked, OwnsRun, MayRepair, Outside, Working
<1>2. CASE Tick
  BY <1>2, Ticking
<1>3. CASE \E e \in Epoch : CreateEpoch(e) \/ CloseEpoch(e)
  BY <1>3, Declaring
<1>4. ASSUME NEW p \in Process, ProcessStep(p) PROVE IInv'
  <2>1. CASE AcquireLock(p) \/ LockForReconcile(p)
    BY <2>1, Locking
  <2>2. CASE \/ StartRefused(p) \/ MarkFails(p) \/ RequestShutdown(p) \/ WorkerEnds(p)
             \/ MarkingEnds(p) \/ ReleaseLock(p) \/ (Kill(p) /\ ~Outside(p))
             \/ ReconcileRefused(p)
    BY <2>2, MovingQuietly
  <2>10. CASE BeginReconcile(p) \/ ReconcileExcluded(p) \/ (Kill(p) /\ Outside(p))
    BY <2>10, SamplingSteps
  <2>3. CASE \E c \in Component :
               ComponentReports(p, c) \/ ComponentFails(p, c) \/ MarkStopped(p, c)
    BY <2>3, MovingWithReport
  <2>4. CASE LoseConnection(p)
    BY <2>4, Losing
  <2>5. CASE Start(p)
    BY <2>5, Starting
  <2>6. CASE MarkStarted(p)
    BY <2>6, Beginning
  <2>7. CASE Heartbeat(p)
    BY <2>7, Beating
  <2>8. CASE Finish(p)
    BY <2>8, Finishing
  <2>9. CASE ReconcileStale(p)
    BY <2>9, Repairing
  <2>. QED
    BY <1>4, <2>1, <2>2, <2>3, <2>4, <2>5, <2>6, <2>7, <2>8, <2>9, <2>10
       DEF ProcessStep, Proceed
<1>. QED
  BY <1>1, <1>2, <1>3, <1>4 DEF Next

LEMMA RunsInvariant == Spec => []IInv
BY RunsInit, RunsStep, PTL DEF Spec
-----------------------------------------------------------------------------
\* What starts, kills, repairs and shutdowns leave behind is consistent: one run at
\* most is running, in the one running epoch; an epoch is initialised once; no loop
\* works before its boundary is recorded; a graceful stop leaves nothing alive.
THEOREM RunsStayConsistent == Spec => []RunsConsistent
<1>1. IInv => RunsConsistent
  BY DEF IInv, Base, Guarded, RunsConsistent, StoppedRunsQuiet, QuietRuns
<1>. QED
  BY <1>1, RunsInvariant, PTL

\* Unless the connection of its lock is lost, one collector works at a time, and for
\* a run that has no end.
THEOREM CollectorAlone == Spec => []OneCollector
<1>1. IInv => OneCollector
  <2>. SUFFICES ASSUME IInv, ~lost
                PROVE  /\ \A p, q \in Process : Working(p) /\ Working(q) => p = q
                       /\ \A p \in Process : Working(p) =>
                            RunLifecycle(process[p].run, clock)
                              \in {"HEALTHY_RUNNING", "STALE_OR_CRASHED"}
    BY DEF OneCollector
  <2>1. LockGuards
    BY DEF IInv, Guarded
  <2>2. \A p \in Process : Working(p) => lock = p /\ run[process[p].run].status = "running"
    BY <2>1 DEF LockGuards, Working, OwnsRun, Outside
  <2>. QED
    BY <2>2 DEF RunLifecycle
<1>. QED
  BY <1>1, RunsInvariant, PTL

\* No instant belongs to the live intervals of two runs, whether a connection was lost
\* or not; as long as none was, only the interval of a run that was repaired, with a time
\* from before the repair had the lock, and that sent no heartbeat may be reversed.
THEOREM IntervalsDisjoint ==
  Spec => [](/\ LiveIntervalsDisjoint
             /\ \A r, s \in Recorded : r # s => LiveTimes(r) \cap LiveTimes(s) = {})
<1>1. IInv => \A r, s \in Recorded : r # s => LiveTimes(r) \cap LiveTimes(s) = {}
  <2>. SUFFICES ASSUME IInv, NEW r \in Recorded, NEW s \in Recorded, r # s,
                       NEW at \in LiveTimes(r) \cap LiveTimes(s)
                PROVE  FALSE
    OBVIOUS
  <2>1. Precedes(r, s) \/ Precedes(s, r)
    BY DEF IInv, Base, RunsApart
  <2>2. run[r] \in RunRow /\ run[s] \in RunRow /\ at \in Nat
    BY RunsAssumption DEF IInv, Base, TypeOK, Recorded, LiveTimes
  <2>. QED
    BY <2>1, <2>2, RunsAssumption DEF Precedes, LiveTimes, RunRow, MaybeTime
<1>2. IInv => LiveIntervalsDisjoint
  BY <1>1 DEF IInv, Guarded, EndsExplained, LiveIntervalsDisjoint
<1>. QED
  BY <1>1, <1>2, RunsInvariant, PTL

\* The end of a run is written once: recovery, repair and finalisation all ask whether
\* the run is still running.
THEOREM RunEndsOnce == Spec => EndedRunsFinal
<1>. DEFINE Kept(r) == run'[r] = [run[r] EXCEPT !.last_heartbeat_at = run'[r].last_heartbeat_at]
            Final == \A r \in Recorded : run[r].finished_at # None => Kept(r)
<1>1. ASSUME IInv, [Next]_vars PROVE Final
  <2>. SUFFICES ASSUME NEW r \in Recorded, run[r].finished_at # None PROVE Kept(r)
    OBVIOUS
  <2>1. /\ run[r] \in RunRow /\ run[r].status # "running"
        /\ r \in RunId /\ run[r] # None /\ run \in [RunId -> RunRow \cup {None}]
    BY <1>1 DEF IInv, Base, TypeOK, RunsKnown, Recorded
  <2>2. run'[r] = run[r] => Kept(r)
    BY <2>1 DEF RunRow
  <2>3. CASE run' = run
    BY <2>2, <2>3
  <2>4. ASSUME NEW p \in Process, Start(p) PROVE Kept(r)
    <3>1. PICK n \in RunId : /\ run[n] = None
                            /\ run' = [Recovered(process[p].now) EXCEPT
                                         ![n] = NewRun(process[p].epoch, process[p].now)]
      BY <2>4 DEF Start
    <3>2. run'[r] = run[r]
      BY <2>1, <3>1 DEF Recovered, RunningRun
    <3>. QED
      BY <2>2, <3>2
  <2>5. ASSUME NEW p \in Process, MarkStarted(p) \/ Finish(p) PROVE Kept(r)
    <3>1. process[p].run \in RunId /\ run'[r] = run[r]
      BY <1>1, <2>1, <2>5
         DEF MarkStarted, Finish, MayFinish, IInv, Base, ProcessesKnow, OwnsRun, Recorded
    <3>. QED
      BY <2>2, <3>1
  <2>6. ASSUME NEW p \in Process, ReconcileStale(p) PROVE Kept(r)
    <3>1. run'[r] = run[r]
      BY <2>1, <2>6 DEF ReconcileStale, LatestRun, Recorded
    <3>. QED
      BY <2>2, <3>1
  <2>7. ASSUME NEW p \in Process, Heartbeat(p) PROVE Kept(r)
    <3>1. run' = [run EXCEPT ![process[p].run].last_heartbeat_at = clock]
      BY <2>7 DEF Heartbeat
    <3>2. CASE process[p].run = r
      <4>1. run'[r] = [run[r] EXCEPT !.last_heartbeat_at = clock]
        BY <2>1, <3>1, <3>2
      <4>. QED
        BY <2>1, <4>1 DEF RunRow
    <3>3. CASE process[p].run # r
      BY <2>1, <2>2, <3>1, <3>3
    <3>. QED
      BY <3>2, <3>3
  <2>. QED
    BY <1>1, <2>3, <2>4, <2>5, <2>6, <2>7
       DEF Next, vars, Tick, CreateEpoch, CloseEpoch, ProcessStep, Proceed, AcquireLock,
           BeginReconcile, LockForReconcile, ReconcileExcluded, StartRefused, MarkFails,
           WorkerEnds, MarkingEnds, ReleaseLock, ReconcileRefused, MarkStopped, RequestShutdown,
           Kill, LoseConnection,
           ComponentReports, ComponentFails
<1>2. IInv /\ [Next]_vars => [Final]_vars
  BY <1>1
<1>. HIDE DEF Final
<1>3. Spec => [][Final]_vars
  BY <1>2, RunsInvariant, PTL DEF Spec
<1>. QED
  BY <1>3 DEF Final, EndedRunsFinal
=============================================================================
