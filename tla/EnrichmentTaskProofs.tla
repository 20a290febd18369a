------------------------ MODULE EnrichmentTaskProofs ------------------------
(* The candidate task queue: types, the finality of ended tasks, that a     *)
(* claim ends its task once and only while it owns it, how often a task     *)
(* reaches the provider, and the budgets of a minute.                       *)
EXTENDS EnrichmentTasks, FiniteSetTheorems, TLAPS

\* A worker past its claim holds a claim that was made, and the times it needs.
Holds(state, claims) ==
  /\ state.pc # "idle" => state.now \in Nat
  /\ state.pc \notin {"idle", "claiming"} =>
       state.claim \in ClaimId /\ claims[state.claim] # None
  /\ \/ state.pc \in {"answered", "recorded", "failing", "evaluating"}
     \/ state.page # 0
     => state.received_at \in Nat
WorkersHold == \A w \in Worker : Holds(worker[w], claim)

\* A lease names a claim of that task which did not end yet.
LeaseOpen ==
  \A t \in Task : task[t].lease_id # None =>
    /\ task[t].status = "claimed"
    /\ claim[task[t].lease_id] # None
    /\ claim[task[t].lease_id].task = t
    /\ ~claim[task[t].lease_id].ended

IInv == TypeOK /\ WorkersHold /\ LeaseOpen
-----------------------------------------------------------------------------
\* The initial tables are empty.
LEMMA TasksInit == Init => IInv
BY TaskAssumption
   DEF Init, IInv, TypeOK, WorkersHold, Holds, LeaseOpen, TaskRow, WorkerState, IdleWorker, Step,
       MaybeTime

\* Creating a task touches absent tasks only.
LEMMA CreatedRows ==
  ASSUME TypeOK, NEW tasks, NEW at \in Nat, task' = Created(tasks, at)
  PROVE  /\ task' \in [Task -> TaskRow]
         /\ \A t \in Task : /\ task'[t].lease_id = task[t].lease_id
                            /\ task'[t].lease_expires_at = task[t].lease_expires_at
                            /\ task[t].status # "absent" => task'[t] = task[t]
<1>1. task \in [Task -> TaskRow]
  BY DEF TypeOK
<1>. DEFINE row(t) == [task[t] EXCEPT !.status = "pending", !.created_at = at, !.not_before = at]
<1>2. \A t \in Task :
        /\ row(t) \in TaskRow
        /\ row(t).lease_id = task[t].lease_id
        /\ row(t).lease_expires_at = task[t].lease_expires_at
  BY <1>1 DEF TaskRow, MaybeTime
<1>3. task' = [t \in Task |-> IF t \in tasks /\ task[t].status = "absent" THEN row(t)
                                                                     ELSE task[t]]
  BY DEF Created
<1>. HIDE DEF row
<1>. QED
  BY <1>1, <1>2, <1>3
-----------------------------------------------------------------------------
(* Every step takes a task, ends a claim, or leaves the leases alone.       *)

Taken(w, t, c) ==
  /\ worker[w].now \in Nat
  /\ t \in Eligible(worker[w].now)
  /\ claim[c] = None
  /\ task' = [task EXCEPT ![t] = ClaimedRow(t, c, worker[w].now)]
  /\ claim' = [claim EXCEPT ![c] = ClaimMade(t, worker[w].now)]

Ended(w, t, row) ==
  /\ t = HeldTask(w)
  /\ worker[w].pc \in {"recorded", "failing", "deferring"}
  /\ OwnsTask(w)
  /\ row \in TaskRow
  /\ row.lease_id = None /\ row.lease_expires_at = None
  /\ EndClaim(w, t, row)

LeasesKept ==
  /\ UNCHANGED claim
  /\ task' \in [Task -> TaskRow]
  /\ \A t \in Task : /\ task'[t].lease_id = task[t].lease_id
                     /\ task'[t].lease_expires_at = task[t].lease_expires_at
                     /\ task[t].status # "absent" => task'[t] = task[t]

\* A claim gives the task to a claim of its own.
LEMMA ClaimTakes ==
  ASSUME IInv, NEW w \in Worker, ClaimTask(w)
  PROVE  \E t \in Task, c \in ClaimId :
           /\ Taken(w, t, c)
           /\ worker' = [worker EXCEPT ![w].pc = "reserving", ![w].claim = c]
<1>1. PICK held \in SUBSET {t \in Task : task[t].status = "claimed"} :
        \E t \in Eligible(worker[w].now) \ held, c \in ClaimId :
          /\ claim[c] = None
          /\ task' = [task EXCEPT ![t] = ClaimedRow(t, c, worker[w].now)]
          /\ claim' = [claim EXCEPT ![c] = ClaimMade(t, worker[w].now)]
          /\ worker' = [worker EXCEPT ![w].pc = "reserving", ![w].claim = c]
  BY Zenon DEF ClaimTask
<1>2. Eligible(worker[w].now) \subseteq Task
  BY DEF Eligible
<1>3. worker[w].now \in Nat
  BY DEF IInv, WorkersHold, Holds, ClaimTask
<1>. QED
  BY <1>1, <1>2, <1>3 DEF Taken

\* The three ends of a claim.
LEMMA CompleteEnds ==
  ASSUME IInv, NEW w \in Worker, CompleteTask(w)
  PROVE  \E t \in Task, row \in TaskRow : Ended(w, t, row)
<1>1. HeldTask(w) \in Task /\ worker[w].claim \in ClaimId
  BY DEF IInv, WorkersHold, Holds, TypeOK, CompleteTask, HeldTask, Held, ClaimRecord
<1>2. task[HeldTask(w)] \in TaskRow
  BY <1>1 DEF IInv, TypeOK
<1>. DEFINE row == [Released(HeldTask(w), "succeeded") EXCEPT !.result = worker[w].claim]
<1>3. /\ row \in TaskRow
      /\ row.lease_id = None /\ row.lease_expires_at = None
  BY <1>1, <1>2 DEF Released, TaskRow, MaybeTime, Terminal
<1>4. EndClaim(w, HeldTask(w), row)
  BY DEF CompleteTask
<1>. HIDE DEF row
<1>. QED
  BY <1>1, <1>3, <1>4 DEF CompleteTask, Ended

LEMMA FailEnds ==
  ASSUME IInv, NEW w \in Worker, FailTask(w)
  PROVE  \E t \in Task, row \in TaskRow : Ended(w, t, row)
<1>1. HeldTask(w) \in Task /\ worker[w].received_at \in Nat
  BY DEF IInv, WorkersHold, Holds, TypeOK, FailTask, HeldTask, Held, ClaimRecord
<1>2. task[HeldTask(w)] \in TaskRow
  BY <1>1 DEF IInv, TypeOK
<1>. DEFINE status == IF task[HeldTask(w)].attempt_count >= MaxAttempts THEN "failed" ELSE "retry"
            delay == IF task[HeldTask(w)].attempt_count >= MaxAttempts THEN 0 ELSE Minute
            row == [Released(HeldTask(w), status) EXCEPT
                      !.not_before = worker[w].received_at + delay]
<1>3. status \in {"failed", "retry"} /\ worker[w].received_at + delay \in Nat
  BY <1>1, TaskAssumption
<1>4. /\ row \in TaskRow
      /\ row.lease_id = None /\ row.lease_expires_at = None
  <2>. HIDE DEF status, delay
  <2>. QED
    BY <1>1, <1>2, <1>3 DEF Released, TaskRow, MaybeTime, Terminal
<1>5. EndClaim(w, HeldTask(w), row)
  BY DEF FailTask
<1>. HIDE DEF row
<1>. QED
  BY <1>1, <1>4, <1>5 DEF FailTask, Ended

LEMMA DeferEnds ==
  ASSUME IInv, NEW w \in Worker, DeferTask(w)
  PROVE  \E t \in Task, row \in TaskRow : Ended(w, t, row)
<1>1. HeldTask(w) \in Task /\ worker[w].now \in Nat
  BY DEF IInv, WorkersHold, Holds, TypeOK, DeferTask, HeldTask, Held, ClaimRecord
<1>2. task[HeldTask(w)] \in TaskRow
  BY <1>1 DEF IInv, TypeOK
<1>3. \A attempts \in Nat : Refunded(attempts) \in Nat
  BY DEF Refunded
<1>4. worker[w].now + Minute \in Nat
  BY <1>1, TaskAssumption
<1>. DEFINE row == [Released(HeldTask(w), "deferred") EXCEPT
                      !.not_before = worker[w].now + Minute, !.attempt_count = Refunded(@)]
<1>5. /\ row \in TaskRow
      /\ row.lease_id = None /\ row.lease_expires_at = None
  BY <1>1, <1>2, <1>3, <1>4 DEF Released, TaskRow, MaybeTime
<1>6. EndClaim(w, HeldTask(w), row)
  BY DEF DeferTask
<1>. HIDE DEF row
<1>. QED
  BY <1>1, <1>5, <1>6 DEF DeferTask, Ended
-----------------------------------------------------------------------------
(* What each of the three leaves of the tables.                             *)

QueueKept ==
  /\ task' \in [Task -> TaskRow]
  /\ claim' \in [ClaimId -> ClaimRecord \cup {None}]
  /\ (\A t \in Task : (task[t].lease_id = None) <=> (task[t].lease_expires_at = None))'
  /\ LeaseOpen'
  /\ \A c \in ClaimId : claim[c] # None => claim'[c] # None

LEMMA TakenKeepsQueue ==
  ASSUME IInv, NEW w \in Worker, NEW t \in Task, NEW c \in ClaimId, Taken(w, t, c)
  PROVE  QueueKept /\ claim'[c] # None
<1>. DEFINE row == ClaimedRow(t, c, worker[w].now)
            made == ClaimMade(t, worker[w].now)
<1>1. c \in Nat \ {None} /\ worker[w].now + LeaseDuration \in Nat \ {None}
  BY TaskAssumption DEF Taken, ClaimId
<1>2. task[t] \in TaskRow
  BY DEF IInv, TypeOK
<1>3. /\ row \in TaskRow
      /\ row.lease_id = c /\ row.lease_expires_at # None /\ row.status = "claimed"
  <2>1. task[t].attempt_count + 1 \in Nat
    BY <1>2 DEF TaskRow
  <2>2. worker[w].now \in Nat
    BY DEF Taken
  <2>. DEFINE expires == worker[w].now + LeaseDuration
              attempts == task[t].attempt_count + 1
  <2>3. row = [task[t] EXCEPT !.status = "claimed", !.lease_id = c, !.lease_expires_at = expires,
                              !.claimed_at = worker[w].now, !.attempt_count = attempts]
    BY DEF ClaimedRow
  <2>4. expires \in Nat \ {None} /\ attempts \in Nat
    BY <1>1, <2>1
  <2>. HIDE DEF row, expires, attempts
  <2>. QED
    BY <1>2, <2>2, <2>3, <2>4 DEF TaskRow, MaybeTime
<1>4. /\ made \in ClaimRecord \ {None}
      /\ made.task = t /\ ~made.ended
  <2>1. made \in ClaimRecord /\ made.task = t /\ ~made.ended
    BY <1>2 DEF Taken, ClaimMade, ClaimRecord, TaskRow
  <2>2. made # None
    BY TaskAssumption, <2>1
  <2>. QED
    BY <2>1, <2>2
<1>. HIDE DEF row, made
<1>5. task' = [task EXCEPT ![t] = row] /\ claim' = [claim EXCEPT ![c] = made]
  BY DEF Taken, row, made
<1>6. claim[c] = None
  BY DEF Taken
<1>7. task' \in [Task -> TaskRow] /\ claim' \in [ClaimId -> ClaimRecord \cup {None}]
  BY <1>3, <1>4, <1>5 DEF IInv, TypeOK
<1>8. (\A u \in Task : (task[u].lease_id = None) <=> (task[u].lease_expires_at = None))'
  BY <1>1, <1>3, <1>5 DEF IInv, TypeOK
<1>9. LeaseOpen'
  <2>. SUFFICES ASSUME NEW u \in Task, task'[u].lease_id # None
                PROVE  /\ task'[u].status = "claimed"
                       /\ claim'[task'[u].lease_id] # None
                       /\ claim'[task'[u].lease_id].task = u
                       /\ ~claim'[task'[u].lease_id].ended
    BY DEF LeaseOpen
  <2>1. CASE u = t
    BY <2>1, <1>3, <1>4, <1>5 DEF IInv, TypeOK
  <2>2. CASE u # t
    <3>1. task'[u] = task[u] /\ task[u].lease_id \in ClaimId
      BY <2>2, <1>5 DEF IInv, TypeOK, TaskRow
    <3>2. claim[task[u].lease_id] # None
      BY <3>1 DEF IInv, LeaseOpen
    <3>3. claim'[task[u].lease_id] = claim[task[u].lease_id]
      BY <3>1, <3>2, <1>5, <1>6 DEF IInv, TypeOK
    <3>. QED
      BY <3>1, <3>3 DEF IInv, LeaseOpen
  <2>. QED
    BY <2>1, <2>2
<1>10. \A d \in ClaimId : claim[d] # None => claim'[d] # None
  BY <1>4, <1>5 DEF IInv, TypeOK
<1>11. claim'[c] # None
  BY <1>4, <1>5 DEF IInv, TypeOK
<1>. QED
  BY <1>7, <1>8, <1>9, <1>10, <1>11 DEF QueueKept

LEMMA EndedKeepsQueue ==
  ASSUME IInv, NEW w \in Worker, NEW t \in Task, NEW row \in TaskRow, Ended(w, t, row)
  PROVE  QueueKept
<1>. DEFINE c == worker[w].claim
            over == [claim[c] EXCEPT !.ended = TRUE]
<1>1. c \in ClaimId /\ claim[c] \in ClaimRecord
  BY DEF IInv, WorkersHold, Holds, TypeOK, Ended
<1>2. over \in ClaimRecord /\ over # None
  <2>1. over \in ClaimRecord
    BY <1>1 DEF ClaimRecord
  <2>. QED
    BY <2>1, TaskAssumption
<1>3. t = claim[c].task
  BY DEF Ended, HeldTask, Held
<1>4. task' = [task EXCEPT ![t] = row] /\ claim' = [claim EXCEPT ![c] = over]
  BY <1>1 DEF Ended, EndClaim, IInv, TypeOK
<1>5. row.lease_id = None /\ row.lease_expires_at = None
  BY DEF Ended
<1>. HIDE DEF c, over
<1>6. task' \in [Task -> TaskRow] /\ claim' \in [ClaimId -> ClaimRecord \cup {None}]
  BY <1>1, <1>2, <1>4 DEF IInv, TypeOK
<1>7. (\A u \in Task : (task[u].lease_id = None) <=> (task[u].lease_expires_at = None))'
  BY <1>4, <1>5 DEF IInv, TypeOK
<1>8. LeaseOpen'
  <2>. SUFFICES ASSUME NEW u \in Task, task'[u].lease_id # None
                PROVE  /\ task'[u].status = "claimed"
                       /\ claim'[task'[u].lease_id] # None
                       /\ claim'[task'[u].lease_id].task = u
                       /\ ~claim'[task'[u].lease_id].ended
    BY DEF LeaseOpen
  <2>1. u # t
    BY <1>4, <1>5 DEF IInv, TypeOK
  <2>2. task'[u] = task[u] /\ task[u].lease_id \in ClaimId
    BY <2>1, <1>4 DEF IInv, TypeOK, TaskRow
  <2>3. task[u].lease_id # c
    BY <2>1, <2>2, <1>3 DEF IInv, LeaseOpen
  <2>4. claim'[task[u].lease_id] = claim[task[u].lease_id]
    BY <2>2, <2>3, <1>4 DEF IInv, TypeOK
  <2>. QED
    BY <2>2, <2>4 DEF IInv, LeaseOpen
<1>9. \A d \in ClaimId : claim[d] # None => claim'[d] # None
  BY <1>2, <1>4 DEF IInv, TypeOK
<1>. QED
  BY <1>6, <1>7, <1>8, <1>9 DEF QueueKept

LEMMA KeptKeepsQueue ==
  ASSUME IInv, LeasesKept
  PROVE  QueueKept
<1>1. (\A u \in Task : (task[u].lease_id = None) <=> (task[u].lease_expires_at = None))'
  BY DEF IInv, TypeOK, LeasesKept
<1>2. LeaseOpen'
  BY DEF IInv, LeaseOpen, LeasesKept
<1>. QED
  BY <1>1, <1>2 DEF IInv, TypeOK, LeasesKept, QueueKept
-----------------------------------------------------------------------------
(* The worker that takes a step keeps what it holds; so do the others.      *)

LEMMA WorkerMoves ==
  ASSUME IInv, QueueKept, NEW w \in Worker, NEW state \in WorkerState, Holds(state, claim'),
         worker' = [worker EXCEPT ![w] = state]
  PROVE  worker' \in [Worker -> WorkerState] /\ WorkersHold'
<1>1. worker' \in [Worker -> WorkerState]
  BY DEF IInv, TypeOK
<1>2. ASSUME NEW v \in Worker
      PROVE  Holds(worker'[v], claim')
  <2>1. CASE v = w
    BY <2>1, worker'[v] = state DEF IInv, TypeOK, Holds
  <2>2. CASE v # w
    BY <2>2, worker'[v] = worker[v] DEF IInv, TypeOK, WorkersHold, Holds, QueueKept
  <2>. QED
    BY <2>1, <2>2
<1>. QED
  BY <1>1, <1>2 DEF WorkersHold

LEMMA IdleHolds == IdleWorker \in WorkerState /\ Holds(IdleWorker, claim')
BY DEF IdleWorker, WorkerState, Holds, Step, MaybeTime

LEMMA WorkersStay ==
  ASSUME IInv, QueueKept, UNCHANGED worker
  PROVE  worker' \in [Worker -> WorkerState] /\ WorkersHold'
BY DEF IInv, TypeOK, WorkersHold, Holds, QueueKept

\* A step that leaves task and claim alone keeps the queue.
LEMMA QueueUntouched ==
  ASSUME IInv, UNCHANGED <<task, claim>>
  PROVE  LeasesKept
BY DEF IInv, TypeOK, LeasesKept

Others ==
  /\ clock \in Nat
  /\ stopped_by \in {None, "shutdown", "lost_lease", "evidence"}
  /\ evidence \subseteq [task : Task, facts : Fact, claim : ClaimId]
  /\ reservation \subseteq [task : Task, attempt : Nat, page : Nat, reserved_at : Nat]
  /\ call \subseteq [claim : ClaimId, page : Nat, at : Nat]

LEMMA Assembled ==
  ASSUME QueueKept, Others', worker' \in [Worker -> WorkerState], WorkersHold'
  PROVE  IInv'
BY DEF QueueKept, Others, IInv, TypeOK

\* What a worker holds has the types of the tables it writes to.
LEMMA HeldTypes ==
  ASSUME IInv, NEW w \in Worker, worker[w].pc \notin {"idle", "claiming"}
  PROVE  /\ worker[w] \in WorkerState
         /\ worker[w].claim \in ClaimId /\ claim[worker[w].claim] # None
         /\ worker[w].now \in Nat /\ worker[w].page \in Nat
         /\ Held(w) \in ClaimRecord
         /\ HeldTask(w) \in Task /\ Held(w).attempt \in Nat
BY DEF IInv, TypeOK, WorkersHold, Holds, WorkerState, Held, HeldTask, ClaimRecord
-----------------------------------------------------------------------------
(* One lemma per kind of step.                                              *)

Move ==
  \/ LeasesKept
  \/ \E w \in Worker, t \in Task, c \in ClaimId : Taken(w, t, c)
  \/ \E w \in Worker, t \in Task, row \in TaskRow : Ended(w, t, row)

LEMMA MoveKeepsQueue == IInv /\ Move => QueueKept
BY TakenKeepsQueue, EndedKeepsQueue, KeptKeepsQueue DEF Move

\* The collector stops and every worker forgets what it held.
LEMMA Collapses ==
  ASSUME IInv, NEW reason \in {"shutdown", "lost_lease", "evidence"}, Collapse(reason)
  PROVE  Move /\ IInv'
<1>1. LeasesKept
  BY QueueUntouched DEF Collapse
<1>2. Others'
  BY DEF Collapse, IInv, TypeOK, Others
<1>3. worker' \in [Worker -> WorkerState] /\ WorkersHold'
  BY IdleHolds DEF Collapse, WorkersHold, Holds
<1>. QED
  BY <1>1, <1>2, <1>3, MoveKeepsQueue, Assembled DEF Move

\* Tick, Nominate, Stop, Restart: no worker goes on with its work.
LEMMA SystemSteps ==
  ASSUME IInv,
         \/ Tick \/ Stop \/ Restart
         \/ \E t \in Task : Nominate(t)
  PROVE  Move /\ IInv'
<1>1. CASE Tick
  <2>1. LeasesKept
    BY <1>1, QueueUntouched DEF Tick
  <2>2. Others'
    BY <1>1 DEF Tick, IInv, TypeOK, Others
  <2>. QED
    BY <1>1, <2>1, <2>2, MoveKeepsQueue, WorkersStay, Assembled DEF Tick, Move
<1>2. CASE Stop
  BY <1>2, Collapses DEF Stop
<1>3. CASE Restart
  <2>1. LeasesKept
    BY <1>3, QueueUntouched DEF Restart
  <2>2. Others'
    BY <1>3 DEF Restart, IInv, TypeOK, Others
  <2>. QED
    BY <1>3, <2>1, <2>2, MoveKeepsQueue, WorkersStay, Assembled DEF Restart, Move
<1>4. ASSUME NEW t \in Task, Nominate(t)
      PROVE  Move /\ IInv'
  <2>1. PICK at \in 0 .. clock : task' = Created({t}, at)
    BY <1>4 DEF Nominate
  <2>2. at \in Nat
    BY DEF IInv, TypeOK
  <2>3. LeasesKept
    BY <1>4, <2>1, <2>2, CreatedRows DEF Nominate, LeasesKept, IInv
  <2>4. Others'
    BY <1>4 DEF Nominate, IInv, TypeOK, Others
  <2>. QED
    BY <1>4, <2>3, <2>4, MoveKeepsQueue, WorkersStay, Assembled DEF Nominate, Move
<1>. QED
  BY <1>1, <1>2, <1>3, <1>4

\* A worker takes a step that keeps its queue and what it holds.
LEMMA WorkerSteps ==
  ASSUME IInv, Move, Others', NEW w \in Worker, NEW state \in WorkerState, Holds(state, claim'),
         worker' = [worker EXCEPT ![w] = state]
  PROVE  IInv'
BY MoveKeepsQueue, WorkerMoves, Assembled

\* BeginRun and ClaimNothing: before a claim.
LEMMA RunSteps ==
  ASSUME IInv, NEW w \in Worker, BeginRun(w) \/ ClaimNothing(w)
  PROVE  Move /\ IInv'
<1>1. Move
  BY QueueUntouched DEF BeginRun, ClaimNothing, Move
<1>2. Others'
  BY DEF BeginRun, ClaimNothing, IInv, TypeOK, Others
<1>3. CASE BeginRun(w)
  <2>. DEFINE state == [IdleWorker EXCEPT !.pc = "claiming", !.now = clock]
  <2>1. state \in WorkerState /\ Holds(state, claim')
    BY DEF IInv, TypeOK, IdleWorker, WorkerState, Step, MaybeTime, Holds
  <2>2. worker' = [worker EXCEPT ![w] = state]
    BY <1>3 DEF BeginRun
  <2>. HIDE DEF state
  <2>. QED
    BY <1>1, <1>2, <2>1, <2>2, WorkerSteps
<1>4. CASE ClaimNothing(w)
  BY <1>1, <1>2, <1>4, IdleHolds, WorkerSteps DEF ClaimNothing
<1>. QED
  BY <1>3, <1>4

LEMMA ClaimTaskStep ==
  ASSUME IInv, NEW w \in Worker, ClaimTask(w)
  PROVE  Move /\ IInv'
<1>1. PICK t \in Task, c \in ClaimId :
        /\ Taken(w, t, c)
        /\ worker' = [worker EXCEPT ![w].pc = "reserving", ![w].claim = c]
  BY ClaimTakes
<1>2. Move
  BY <1>1 DEF Move
<1>3. Others'
  BY DEF ClaimTask, IInv, TypeOK, Others
<1>. DEFINE state == [worker[w] EXCEPT !.pc = "reserving", !.claim = c]
<1>4. worker[w] \in WorkerState
  BY DEF IInv, TypeOK
<1>5. state \in WorkerState /\ Holds(state, claim')
  BY <1>1, <1>4, TakenKeepsQueue DEF IInv, WorkersHold, Holds, WorkerState, Step, Taken,
     ClaimTask
<1>6. worker' = [worker EXCEPT ![w] = state]
  BY <1>1 DEF IInv, TypeOK
<1>. HIDE DEF state
<1>. QED
  BY <1>2, <1>3, <1>5, <1>6, WorkerSteps

\* Reserve and ReserveDenied: the provider's budget.
LEMMA ReserveSteps ==
  ASSUME IInv, NEW w \in Worker, Reserve(w) \/ ReserveDenied(w)
  PROVE  Move /\ IInv'
<1>1. Move
  BY QueueUntouched DEF Reserve, ReserveDenied, Move
<1>2. worker[w].pc = "reserving" /\ UNCHANGED claim
  BY DEF Reserve, ReserveDenied
<1>3. Others'
  <2>1. reservation' \subseteq [task : Task, attempt : Nat, page : Nat, reserved_at : Nat]
    BY <1>2, HeldTypes DEF Reserve, ReserveDenied, IInv, TypeOK
  <2>. QED
    BY <2>1 DEF Reserve, ReserveDenied, IInv, TypeOK, Others
<1>4. PICK pc \in {"fetching", "deferring", "answered"} :
        /\ worker' = [worker EXCEPT ![w].pc = pc]
        /\ pc = "answered" => worker[w].page # 0
  BY DEF Reserve, ReserveDenied
<1>. DEFINE state == [worker[w] EXCEPT !.pc = pc]
<1>5. state \in WorkerState /\ Holds(state, claim')
  BY <1>2, <1>4, HeldTypes DEF IInv, WorkersHold, Holds, WorkerState, Step
<1>6. worker' = [worker EXCEPT ![w] = state]
  BY <1>4 DEF IInv, TypeOK
<1>. HIDE DEF state
<1>. QED
  BY <1>1, <1>3, <1>5, <1>6, WorkerSteps

\* FetchPage and FetchFails: the provider is called.
LEMMA FetchSteps ==
  ASSUME IInv, NEW w \in Worker, FetchPage(w) \/ FetchFails(w)
  PROVE  Move /\ IInv'
<1>1. Move
  BY QueueUntouched DEF FetchPage, FetchFails, Move
<1>2. worker[w].pc = "fetching" /\ UNCHANGED claim
  BY DEF FetchPage, FetchFails
<1>3. Others'
  <2>1. call' \subseteq [claim : ClaimId, page : Nat, at : Nat]
    BY <1>2, HeldTypes DEF FetchPage, FetchFails, IInv, TypeOK
  <2>. QED
    BY <2>1 DEF FetchPage, FetchFails, IInv, TypeOK, Others
<1>. DEFINE last(pc) == [worker[w] EXCEPT !.pc = pc, !.received_at = clock]
            next == [worker[w] EXCEPT !.pc = "reserving", !.page = worker[w].page + 1,
                                      !.received_at = clock]
<1>4. \A pc \in {"answered", "failing"} : last(pc) \in WorkerState /\ Holds(last(pc), claim')
  BY <1>2, HeldTypes DEF IInv, TypeOK, WorkersHold, Holds, WorkerState, Step, MaybeTime
<1>5. next \in WorkerState /\ Holds(next, claim')
  <2>1. /\ worker[w] \in WorkerState
        /\ worker[w].now \in Nat
        /\ worker[w].claim \in ClaimId /\ claim'[worker[w].claim] # None
        /\ worker[w].page + 1 \in Nat
        /\ clock \in Nat
    BY <1>2, HeldTypes DEF IInv, TypeOK
  <2>. DEFINE page == worker[w].page + 1
  <2>2. next = [worker[w] EXCEPT !.pc = "reserving", !.page = page, !.received_at = clock]
    OBVIOUS
  <2>3. page \in Nat
    BY <2>1
  <2>. HIDE DEF next, page
  <2>. QED
    BY <2>1, <2>2, <2>3 DEF Holds, WorkerState, Step, MaybeTime
<1>6. \/ \E pc \in {"answered", "failing"} : worker' = [worker EXCEPT ![w] = last(pc)]
      \/ worker' = [worker EXCEPT ![w] = next]
  BY DEF FetchPage, FetchFails, IInv, TypeOK
<1>. HIDE DEF last, next
<1>. QED
  BY <1>1, <1>3, <1>4, <1>5, <1>6, WorkerSteps

LEMMA RecordEvidenceStep ==
  ASSUME IInv, NEW w \in Worker, RecordEvidence(w)
  PROVE  Move /\ IInv'
<1>1. Move
  BY QueueUntouched DEF RecordEvidence, Move
<1>2. worker[w].pc = "answered" /\ UNCHANGED claim
  BY DEF RecordEvidence
<1>3. Others'
  <2>1. evidence' \subseteq [task : Task, facts : Fact, claim : ClaimId]
    BY <1>2, HeldTypes DEF RecordEvidence, IInv, TypeOK
  <2>. QED
    BY <2>1 DEF RecordEvidence, IInv, TypeOK, Others
<1>. DEFINE state == [worker[w] EXCEPT !.pc = "recorded"]
<1>4. state \in WorkerState /\ Holds(state, claim')
  BY <1>2, HeldTypes DEF IInv, WorkersHold, Holds, WorkerState, Step
<1>5. worker' = [worker EXCEPT ![w] = state]
  BY DEF RecordEvidence, IInv, TypeOK
<1>. HIDE DEF state
<1>. QED
  BY <1>1, <1>3, <1>4, <1>5, WorkerSteps

LEMMA CompleteTaskStep ==
  ASSUME IInv, NEW w \in Worker, CompleteTask(w)
  PROVE  Move /\ IInv'
<1>1. Move
  BY CompleteEnds DEF Move
<1>2. Others'
  BY DEF CompleteTask, IInv, TypeOK, Others
<1>3. worker[w].pc = "recorded"
  BY DEF CompleteTask
<1>. DEFINE state == [worker[w] EXCEPT !.pc = "evaluating"]
<1>4. claim'[worker[w].claim] # None
  BY <1>1, <1>3, HeldTypes, MoveKeepsQueue DEF QueueKept
<1>5. state \in WorkerState /\ Holds(state, claim')
  BY <1>3, <1>4, HeldTypes DEF IInv, WorkersHold, Holds, WorkerState, Step
<1>6. worker' = [worker EXCEPT ![w] = state]
  BY DEF CompleteTask, IInv, TypeOK
<1>. HIDE DEF state
<1>. QED
  BY <1>1, <1>2, <1>5, <1>6, WorkerSteps

\* Evaluate, FailTask and DeferTask: the run ends.
LEMMA LastSteps ==
  ASSUME IInv, NEW w \in Worker, Evaluate(w) \/ FailTask(w) \/ DeferTask(w)
  PROVE  Move /\ IInv'
<1>1. Move
  <2>1. CASE Evaluate(w)
    <3>1. PICK tasks \in SUBSET {t \in Task : Analysis[t] \in DeepReview} :
            task' = Created(tasks, worker[w].received_at)
      BY <2>1 DEF Evaluate
    <3>2. worker[w].received_at \in Nat /\ UNCHANGED claim
      BY <2>1 DEF Evaluate, IInv, WorkersHold, Holds
    <3>3. LeasesKept
      BY <3>1, <3>2, CreatedRows DEF LeasesKept, IInv
    <3>. QED
      BY <3>3 DEF Move
  <2>. QED
    BY <2>1, FailEnds, DeferEnds DEF Move
<1>2. Others'
  BY DEF Evaluate, FailTask, DeferTask, IInv, TypeOK, Others
<1>3. worker' = [worker EXCEPT ![w] = IdleWorker]
  BY DEF Evaluate, FailTask, DeferTask
<1>. QED
  BY <1>1, <1>2, <1>3, IdleHolds, WorkerSteps

\* A worker whose lease or evidence is refused stops the collector.
LEMMA RefusedSteps ==
  ASSUME IInv, NEW w \in Worker, LoseLease(w) \/ RejectEvidence(w)
  PROVE  Move /\ IInv'
BY Collapses DEF LoseLease, RejectEvidence
-----------------------------------------------------------------------------
\* Every step moves the queue in one of the three ways and keeps IInv.
LEMMA TasksStep == IInv /\ [Next]_vars => (Move /\ IInv')
<1>. SUFFICES ASSUME IInv, [Next]_vars
              PROVE  Move /\ IInv'
  OBVIOUS
<1>1. CASE Tick \/ Stop \/ Restart \/ \E t \in Task : Nominate(t)
  BY <1>1, SystemSteps
<1>2. ASSUME NEW w \in Worker, WorkerStep(w)
      PROVE  Move /\ IInv'
  BY <1>2, RunSteps, ClaimTaskStep, ReserveSteps, FetchSteps, RecordEvidenceStep,
     CompleteTaskStep, LastSteps, RefusedSteps DEF WorkerStep
<1>3. CASE UNCHANGED vars
  <2>1. LeasesKept
    BY <1>3, QueueUntouched DEF vars
  <2>2. Others'
    BY <1>3 DEF vars, IInv, TypeOK, Others
  <2>. QED
    BY <1>3, <2>1, <2>2, MoveKeepsQueue, WorkersStay, Assembled DEF vars, Move
<1>. QED
  BY <1>1, <1>2, <1>3 DEF Next

\* complete_task and fail_task are final: a late worker finds its lease gone, and
\* claim_tasks passes over the task.
THEOREM EndedTasksFinal == Spec => TerminalTasksFinal
<1>1. ASSUME IInv, [Next]_vars
      PROVE  [\A t \in Task : task[t].status \in Terminal => task'[t] = task[t]]_vars
  <2>. SUFFICES ASSUME NEW t \in Task, task[t].status \in Terminal
                PROVE  task'[t] = task[t]
    OBVIOUS
  <2>1. task[t].lease_id = None
    BY <1>1 DEF IInv, LeaseOpen, Terminal
  <2>2. Move
    BY <1>1, TasksStep
  <2>3. CASE LeasesKept
    BY <2>3 DEF LeasesKept, Terminal
  <2>4. ASSUME NEW w \in Worker, NEW u \in Task, NEW c \in ClaimId, Taken(w, u, c)
        PROVE  task'[t] = task[t]
    <3>1. u # t
      BY <1>1, <2>4 DEF Taken, Eligible, Terminal
    <3>. QED
      BY <1>1, <2>4, <3>1 DEF Taken, IInv, TypeOK
  <2>5. ASSUME NEW w \in Worker, NEW u \in Task, NEW row \in TaskRow, Ended(w, u, row)
        PROVE  task'[t] = task[t]
    <3>1. worker[w].claim \in ClaimId
      BY <1>1, <2>5, HeldTypes DEF Ended
    <3>2. u # t
      BY <2>1, <2>5, <3>1, TaskAssumption DEF Ended, OwnsTask, ClaimId
    <3>. QED
      BY <1>1, <2>5, <3>2 DEF Ended, EndClaim, IInv, TypeOK
  <2>. QED
    BY <2>2, <2>3, <2>4, <2>5 DEF Move
<1>. QED
  BY TasksInit, TasksStep, <1>1, PTL DEF Spec, TerminalTasksFinal
-----------------------------------------------------------------------------
(* The queue implements LeasedWork.                                         *)

LEMMA QueueInit == Init => Work!Init
BY TaskAssumption DEF Init, Work!Init, Made

\* A claim takes its task from whatever claim held it.
LEMMA TakenIsTake ==
  ASSUME IInv, NEW w \in Worker, NEW t \in Task, NEW c \in ClaimId, Taken(w, t, c)
  PROVE  Work!Take(c, {t})
<1>. DEFINE row == ClaimedRow(t, c, worker[w].now)
            made == ClaimMade(t, worker[w].now)
<1>1. made.task = t /\ ~made.ended /\ row.lease_id = c
  <2>1. task[t] \in TaskRow
    BY DEF IInv, TypeOK
  <2>. QED
    BY <2>1 DEF ClaimMade, ClaimedRow, TaskRow
<1>2. made # None
  <2>1. made \in ClaimRecord
    BY DEF IInv, TypeOK, Taken, ClaimMade, ClaimRecord, TaskRow
  <2>. QED
    BY <2>1, TaskAssumption
<1>. HIDE DEF row, made
<1>3. /\ claim[c] = None
      /\ task' = [task EXCEPT ![t] = row] /\ claim' = [claim EXCEPT ![c] = made]
  BY DEF Taken, row, made
<1>4. /\ \A d \in ClaimId : claim'[d] = IF d = c THEN made ELSE claim[d]
      /\ \A u \in Task : task'[u] = IF u = t THEN row ELSE task[u]
  BY <1>3 DEF IInv, TypeOK
<1>5. [d \in ClaimId |-> IF claim[d] = None THEN None ELSE {claim[d].task}][c] = None
  BY <1>3
<1>6. [d \in ClaimId |-> IF claim'[d] = None THEN None ELSE {claim'[d].task}]
        = [[d \in ClaimId |-> IF claim[d] = None THEN None ELSE {claim[d].task}]
             EXCEPT ![c] = {t}]
  BY <1>1, <1>2, <1>4
<1>7. [u \in Task |-> task'[u].lease_id]
        = [u \in Task |-> IF u \in {t} THEN c ELSE [v \in Task |-> task[v].lease_id][u]]
  BY <1>1, <1>4
<1>8. Made' = Made \cup {c}
  BY <1>2, <1>4 DEF Made
<1>9. {d \in Made : claim[d].ended}' = {d \in Made : claim[d].ended}
  BY <1>1, <1>3, <1>4, <1>8 DEF Made
<1>. QED
  BY <1>5, <1>6, <1>7, <1>9 DEF Work!Take

\* Completing, failing and deferring finish the claim that owns the task.
LEMMA EndedIsFinish ==
  ASSUME IInv, NEW w \in Worker, NEW t \in Task, NEW row \in TaskRow, Ended(w, t, row),
         NEW c \in ClaimId, c = worker[w].claim
  PROVE  Work!Finish(c)
<1>. DEFINE over == [claim[c] EXCEPT !.ended = TRUE]
<1>1. c \in ClaimId /\ claim[c] \in ClaimRecord /\ claim[c] # None
  BY HeldTypes DEF Ended, Held
<1>2. over.task = claim[c].task /\ over.ended /\ over # None
  <2>1. over \in ClaimRecord /\ over.task = claim[c].task /\ over.ended
    BY <1>1 DEF ClaimRecord
  <2>. QED
    BY <2>1, TaskAssumption
<1>3. /\ t = claim[c].task
      /\ task[t].lease_id = c
      /\ row.lease_id = None
  BY DEF Ended, HeldTask, Held, OwnsTask
<1>4. ~claim[c].ended
  BY <1>1, <1>3, TaskAssumption DEF IInv, LeaseOpen, ClaimId
<1>5. /\ \A d \in ClaimId : claim'[d] = IF d = c THEN over ELSE claim[d]
      /\ \A u \in Task : task'[u] = IF u = t THEN row ELSE task[u]
  BY <1>1 DEF Ended, EndClaim, IInv, TypeOK
<1>. HIDE DEF over
<1>6. [d \in ClaimId |-> IF claim[d] = None THEN None ELSE {claim[d].task}][c] = {t}
  BY <1>1, <1>3
<1>7. {t} # None
  BY TaskAssumption
<1>8. c \notin {d \in Made : claim[d].ended}
  BY <1>4
<1>9. \A u \in {t} : [v \in Task |-> task[v].lease_id][u] = c
  BY <1>3
<1>10. [u \in Task |-> task'[u].lease_id]
         = [u \in Task |-> IF u \in {t} THEN None ELSE [v \in Task |-> task[v].lease_id][u]]
  BY <1>3, <1>5
<1>11. [d \in ClaimId |-> IF claim'[d] = None THEN None ELSE {claim'[d].task}]
         = [d \in ClaimId |-> IF claim[d] = None THEN None ELSE {claim[d].task}]
  BY <1>1, <1>2, <1>5
<1>12. {d \in Made : claim[d].ended}' = {d \in Made : claim[d].ended} \cup {c}
  BY <1>1, <1>2, <1>5 DEF Made
<1>. QED
  BY <1>6, <1>7, <1>8, <1>9, <1>10, <1>11, <1>12 DEF Work!Finish

\* A task belongs to the claim that took it last, and a claim ends it at most once
\* and only while it is its own: the owner checks of complete_task, fail_task and
\* defer_task are enough for every number of workers, lease and restart.
THEOREM TasksImplementLeasedWork == Spec => ImplementsLeasedWork
<1>1. IInv /\ [Next]_vars => [Work!Next]_(Work!vars)
  <2>. SUFFICES ASSUME IInv, Move
                PROVE  [Work!Next]_(Work!vars)
    BY TasksStep
  <2>1. CASE LeasesKept
    <3>1. [t \in Task |-> task'[t].lease_id] = [t \in Task |-> task[t].lease_id]
      BY <2>1 DEF LeasesKept
    <3>2. Made' = Made /\ claim' = claim
      BY <2>1 DEF LeasesKept, Made
    <3>. QED
      BY <3>1, <3>2 DEF Work!vars
  <2>2. ASSUME NEW w \in Worker, NEW t \in Task, NEW c \in ClaimId, Taken(w, t, c)
        PROVE  Work!Next
    BY <2>2, TakenIsTake DEF Work!Next
  <2>3. ASSUME NEW w \in Worker, NEW t \in Task, NEW row \in TaskRow, Ended(w, t, row)
        PROVE  Work!Next
    <3>1. worker[w].claim \in ClaimId
      BY <2>3, HeldTypes DEF Ended
    <3>2. PICK c \in ClaimId : c = worker[w].claim
      BY <3>1
    <3>3. Work!Finish(c)
      BY <2>3, <3>2, EndedIsFinish
    <3>. QED
      BY <3>3 DEF Work!Next
  <2>. QED
    BY <2>1, <2>2, <2>3 DEF Move
<1>. QED
  BY <1>1, QueueInit, TasksInit, TasksStep, PTL DEF Spec, ImplementsLeasedWork, Work!Spec
-----------------------------------------------------------------------------
(* Attempts: how often a task reaches the provider.                        *)

\* No call was made under the claim, nor can one be: its task was deferred and
\* its worker went on.
Void(c) ==
  /\ claim[c].ended
  /\ \A x \in call : x.claim # c
  /\ \A w \in Worker : worker[w].claim # c
Active == {c \in Made : ~Void(c)}

\* Every worker has a claim of its own, and none before it claims.
WorkersApart ==
  /\ \A w \in Worker : worker[w].pc \in {"idle", "claiming"} => worker[w].claim = None
  /\ \A v, w \in Worker : v # w /\ worker[w].claim # None => worker[v].claim # worker[w].claim

\* A worker asks for a page after the ones it has, and defers before any.
CallsBehind ==
  \A w \in Worker, x \in call : x.claim = worker[w].claim =>
    /\ worker[w].pc \in {"reserving", "fetching"} => x.page < worker[w].page
    /\ worker[w].pc # "deferring"

CallsOfClaims ==
  /\ \A x \in call : claim[x.claim] # None
  /\ \A x, y \in call : x.claim = y.claim /\ x.page = y.page => x = y

\* Before the call there is the reservation, and it stays.
CallsCovered ==
  /\ \A w \in Worker : worker[w].pc = "fetching" => Reserved(w)
  /\ \A x \in call : \E r \in reservation :
       /\ r.task = claim[x.claim].task
       /\ r.attempt = claim[x.claim].attempt /\ r.page = x.page

\* attempt_count is the highest number of an active claim, the number of the owner, and
\* no two active claims of a task share one.
AttemptsCount ==
  /\ \A t \in Task :
       /\ task[t].attempt_count <= MaxAttempts
       /\ task[t].lease_id # None => claim[task[t].lease_id].attempt = task[t].attempt_count
  /\ \A c \in Made : claim[c].attempt > 0
  /\ \A c \in Active : claim[c].attempt <= task[claim[c].task].attempt_count
  /\ \A c, d \in Active :
       claim[c].task = claim[d].task /\ claim[c].attempt = claim[d].attempt => c = d

AttemptInv ==
  WorkersApart /\ CallsBehind /\ CallsOfClaims /\ CallsCovered /\ AttemptsCount

LEMMA AttemptInit == Init => AttemptInv
BY TaskAssumption
   DEF Init, AttemptInv, WorkersApart, CallsBehind, CallsOfClaims, CallsCovered, AttemptsCount,
       Active, Made, IdleWorker

\* A worker goes on with the claim it has, or with none.
GoesOn(v) ==
  \/ worker'[v].claim = None /\ worker'[v].pc \in {"idle", "claiming"}
  \/ /\ worker'[v].claim = worker[v].claim /\ worker'[v].page = worker[v].page
     /\ worker'[v].pc \in {"idle", "claiming"} => worker[v].pc \in {"idle", "claiming"}
     /\ worker'[v].pc \in {"reserving", "fetching"} => worker[v].pc \in {"reserving", "fetching"}
     /\ worker'[v].pc = "deferring" =>
          worker[v].pc = "deferring" \/ (worker[v].pc = "reserving" /\ worker[v].page = 0)
     /\ worker'[v].pc = "fetching" => Reserved(v)'

LEMMA ClaimsNotNull == None \notin ClaimId
BY TaskAssumption DEF ClaimId

\* Steps that neither take, end nor defer a task and call nobody.
LEMMA AttemptsUntouched ==
  ASSUME IInv, IInv', AttemptInv, UNCHANGED <<claim, call>>, reservation \subseteq reservation',
         \A t \in Task : /\ task'[t].attempt_count = task[t].attempt_count
                         /\ task'[t].lease_id = task[t].lease_id,
         \A v \in Worker : GoesOn(v)
  PROVE  AttemptInv'
<1>1. WorkersApart'
  BY DEF AttemptInv, WorkersApart, GoesOn
<1>2. CallsBehind'
  <2>. SUFFICES ASSUME NEW v \in Worker, NEW x \in call, x.claim = worker'[v].claim
                PROVE  /\ worker'[v].pc \in {"reserving", "fetching"} => x.page < worker'[v].page
                       /\ worker'[v].pc # "deferring"
    BY DEF CallsBehind
  <2>1. x.claim \in ClaimId /\ x.page \in Nat
    BY DEF IInv, TypeOK
  <2>2. worker'[v].claim = worker[v].claim
    BY <2>1, ClaimsNotNull DEF GoesOn
  <2>. QED
    BY <2>1, <2>2, ClaimsNotNull DEF AttemptInv, CallsBehind, GoesOn
<1>3. CallsOfClaims' /\ CallsCovered'
  BY DEF AttemptInv, CallsOfClaims, CallsCovered, GoesOn
<1>4. AttemptsCount'
  <2>1. Made' = Made
    BY DEF Made
  <2>2. Active' \subseteq Active
    BY <2>1, ClaimsNotNull DEF Active, Void, Made, GoesOn
  <2>3. \A c \in Made : claim[c].task \in Task
    BY DEF Made, IInv, TypeOK, ClaimRecord
  <2>. QED
    BY <2>1, <2>2, <2>3 DEF AttemptInv, AttemptsCount, Active
<1>. QED
  BY <1>1, <1>2, <1>3, <1>4 DEF AttemptInv

\* The steps of that kind.
LEMMA UntouchedSteps ==
  ASSUME IInv, IInv', AttemptInv,
         \/ Tick \/ Stop \/ Restart \/ UNCHANGED vars
         \/ \E t \in Task : Nominate(t)
         \/ \E w \in Worker :
              \/ BeginRun(w) \/ ClaimNothing(w) \/ Reserve(w) \/ ReserveDenied(w)
              \/ RecordEvidence(w) \/ RejectEvidence(w) \/ Evaluate(w) \/ LoseLease(w)
  PROVE  AttemptInv'
<1>1. \A v \in Worker : worker'[v] = worker[v] => GoesOn(v) \/ worker[v].pc = "fetching"
  BY DEF GoesOn
<1>2. \A v \in Worker : worker'[v] = IdleWorker => GoesOn(v)
  BY DEF GoesOn, IdleWorker
<1>3. ASSUME NEW tasks, NEW at, task' = Created(tasks, at)
      PROVE  \A t \in Task : /\ task'[t].attempt_count = task[t].attempt_count
                             /\ task'[t].lease_id = task[t].lease_id
  BY <1>3 DEF Created, IInv, TypeOK, TaskRow
<1>4. /\ UNCHANGED <<claim, call>> /\ reservation \subseteq reservation'
      /\ \A t \in Task : /\ task'[t].attempt_count = task[t].attempt_count
                         /\ task'[t].lease_id = task[t].lease_id
  BY <1>3 DEF Tick, Stop, Restart, vars, Nominate, BeginRun, ClaimNothing, Reserve, ReserveDenied,
       RecordEvidence, RejectEvidence, Evaluate, LoseLease, Collapse
<1>5. \A v \in Worker : worker[v].pc = "fetching" => Reserved(v)
  BY DEF AttemptInv, CallsCovered
<1>6. \A v \in Worker : worker'[v] = worker[v] => GoesOn(v)
  BY <1>1, <1>4, <1>5 DEF GoesOn, Reserved, HeldTask, Held
<1>7. CASE UNCHANGED worker
  BY <1>4, <1>6, <1>7, AttemptsUntouched
<1>8. CASE \E reason \in {"shutdown", "lost_lease", "evidence"} : Collapse(reason)
  BY <1>2, <1>4, <1>8, AttemptsUntouched DEF Collapse
<1>9. ASSUME NEW w \in Worker,
             \/ BeginRun(w) \/ ClaimNothing(w) \/ Reserve(w) \/ ReserveDenied(w)
             \/ RecordEvidence(w) \/ Evaluate(w)
      PROVE  AttemptInv'
  <2>1. worker \in [Worker -> WorkerState] /\ worker[w] \in WorkerState
    BY DEF IInv, TypeOK
  <2>2. \A v \in Worker : v # w => worker'[v] = worker[v]
    BY <1>9, <2>1 DEF BeginRun, ClaimNothing, Reserve, ReserveDenied, RecordEvidence, Evaluate
  <2>6. GoesOn(w)
    <3>1. CASE BeginRun(w) \/ ClaimNothing(w) \/ Evaluate(w)
      <4>1. CASE BeginRun(w)
        <5>1. worker'[w] = [IdleWorker EXCEPT !.pc = "claiming", !.now = clock]
          BY <2>1, <4>1 DEF BeginRun
        <5>. QED
          BY <5>1 DEF GoesOn, IdleWorker
      <4>2. CASE ClaimNothing(w) \/ Evaluate(w)
        <5>1. worker'[w] = IdleWorker
          BY <2>1, <4>2 DEF ClaimNothing, Evaluate
        <5>. QED
          BY <1>2, <5>1
      <4>. QED
        BY <3>1, <4>1, <4>2
    <3>2. CASE Reserve(w)
      <4>1. worker[w].pc = "reserving" /\ worker' = [worker EXCEPT ![w].pc = "fetching"]
        BY <3>2 DEF Reserve
      <4>2. worker'[w] = [worker[w] EXCEPT !.pc = "fetching"]
        BY <2>1, <4>1
      <4>3. /\ worker'[w].pc = "fetching" /\ worker'[w].claim = worker[w].claim
            /\ worker'[w].page = worker[w].page
        BY <2>1, <4>2 DEF WorkerState
      <4>4. \E r \in reservation' : /\ r.task = HeldTask(w) /\ r.attempt = Held(w).attempt
                                    /\ r.page = worker[w].page
        <5>. DEFINE r == [task |-> HeldTask(w), attempt |-> Held(w).attempt,
                          page |-> worker[w].page, reserved_at |-> worker[w].now]
        <5>1. (Reserved(w) /\ reservation' = reservation) \/ r \in reservation'
          BY <3>2 DEF Reserve
        <5>2. r.task = HeldTask(w) /\ r.attempt = Held(w).attempt /\ r.page = worker[w].page
          OBVIOUS
        <5>. HIDE DEF r
        <5>. QED
          BY <5>1, <5>2 DEF Reserved
      <4>5. /\ HeldTask(w)' = HeldTask(w) /\ Held(w)' = Held(w)
            /\ worker'[w].page = worker[w].page
        BY <1>4, <4>3 DEF HeldTask, Held
      <4>6. Reserved(w)'
        BY <4>4, <4>5 DEF Reserved
      <4>. QED
        BY <4>1, <4>3, <4>6 DEF GoesOn
    <3>3. CASE ReserveDenied(w) \/ RecordEvidence(w)
      <4>1. PICK pc \in {"deferring", "answered", "recorded"} :
              /\ worker' = [worker EXCEPT ![w].pc = pc]
              /\ worker[w].pc \in {"reserving", "answered"}
              /\ pc = "deferring" => worker[w].pc = "reserving" /\ worker[w].page = 0
        BY <3>3 DEF ReserveDenied, RecordEvidence
      <4>2. worker'[w] = [worker[w] EXCEPT !.pc = pc]
        BY <2>1, <4>1
      <4>3. /\ worker'[w].pc = pc /\ worker'[w].claim = worker[w].claim
            /\ worker'[w].page = worker[w].page
        BY <2>1, <4>2 DEF WorkerState
      <4>. QED
        BY <4>1, <4>3 DEF GoesOn
    <3>. QED
      BY <1>9, <3>1, <3>2, <3>3
  <2>. QED
    BY <1>4, <1>6, <2>2, <2>6, AttemptsUntouched
<1>. QED
  BY <1>7, <1>8, <1>9 DEF Tick, Stop, Restart, vars, Nominate, RejectEvidence, LoseLease

\* A call: its page is the worker's, and the worker goes on to the next or to none.
LEMMA FetchCounts ==
  ASSUME IInv, IInv', AttemptInv, NEW w \in Worker, FetchPage(w) \/ FetchFails(w)
  PROVE  AttemptInv'
<1>. DEFINE c == worker[w].claim
            new == [claim |-> c, page |-> worker[w].page, at |-> clock]
<1>1. /\ worker[w].pc = "fetching" /\ call' = call \cup {new}
      /\ UNCHANGED <<task, reservation, claim>>
  BY DEF FetchPage, FetchFails
<1>2. /\ worker \in [Worker -> WorkerState] /\ worker[w] \in WorkerState
      /\ c \in ClaimId /\ claim[c] # None /\ worker[w].page \in Nat /\ Reserved(w)
      /\ HeldTask(w) \in Task
  BY <1>1, HeldTypes DEF IInv, TypeOK, AttemptInv, CallsCovered
<1>3. /\ \A v \in Worker : v # w => worker'[v] = worker[v]
      /\ worker'[w].claim = c
      /\ \/ worker'[w].pc \in {"answered", "failing"}
         \/ worker'[w].pc = "reserving" /\ worker'[w].page = worker[w].page + 1
  <2>1. CASE \E pc \in {"answered", "failing"} :
               worker' = [worker EXCEPT ![w].pc = pc, ![w].received_at = clock]
    BY <1>2, <2>1 DEF WorkerState
  <2>2. CASE worker' = [worker EXCEPT ![w].pc = "reserving", ![w].page = @ + 1,
                                      ![w].received_at = clock]
    BY <1>2, <2>2 DEF WorkerState
  <2>. QED
    BY <2>1, <2>2 DEF FetchPage, FetchFails
<1>4. WorkersApart'
  BY <1>1, <1>3 DEF AttemptInv, WorkersApart
<1>5. \A v \in Worker : v # w => worker[v].claim # c
  BY <1>2, ClaimsNotNull DEF AttemptInv, WorkersApart
<1>6. \A x \in call : /\ x.claim \in ClaimId /\ x.page \in Nat
                      /\ x.claim = c => x.page < worker[w].page
  BY <1>1 DEF IInv, TypeOK, AttemptInv, CallsBehind
<1>7. CallsBehind'
  <2>. SUFFICES ASSUME NEW v \in Worker, NEW x \in call', x.claim = worker'[v].claim
                PROVE  /\ worker'[v].pc \in {"reserving", "fetching"} => x.page < worker'[v].page
                       /\ worker'[v].pc # "deferring"
    BY DEF CallsBehind
  <2>1. CASE v = w
    BY <1>1, <1>2, <1>3, <1>6, <2>1
  <2>2. CASE v # w
    BY <1>1, <1>3, <1>5, <2>2 DEF AttemptInv, CallsBehind
  <2>. QED
    BY <2>1, <2>2
<1>8. CallsOfClaims'
  BY <1>1, <1>2, <1>6 DEF AttemptInv, CallsOfClaims
<1>9. CallsCovered'
  BY <1>1, <1>2, <1>3 DEF AttemptInv, CallsCovered, Reserved, HeldTask, Held
<1>10. AttemptsCount'
  <2>1. Made' = Made
    BY <1>1 DEF Made
  <2>2. Active' \subseteq Active
    BY <1>1, <1>2, <1>3, <2>1 DEF Active, Void
  <2>3. \A d \in Made : claim[d].task \in Task
    BY DEF Made, IInv, TypeOK, ClaimRecord
  <2>. QED
    BY <1>1, <2>1, <2>2, <2>3 DEF AttemptInv, AttemptsCount, Active
<1>. QED
  BY <1>4, <1>7, <1>8, <1>9, <1>10 DEF AttemptInv

\* A claim has the next number, above those of all active claims of its task.
LEMMA ClaimCounts ==
  ASSUME IInv, IInv', AttemptInv, NEW w \in Worker, ClaimTask(w)
  PROVE  AttemptInv'
<1>1. PICK t \in Task, c \in ClaimId :
        /\ Taken(w, t, c)
        /\ worker' = [worker EXCEPT ![w].pc = "reserving", ![w].claim = c]
  BY ClaimTakes
<1>. DEFINE now == worker[w].now
            row == ClaimedRow(t, c, now)
            made == ClaimMade(t, now)
<1>2. /\ worker \in [Worker -> WorkerState] /\ worker[w] \in WorkerState
      /\ task \in [Task -> TaskRow] /\ task[t] \in TaskRow
      /\ claim \in [ClaimId -> ClaimRecord \cup {None}] /\ claim[c] = None
      /\ worker[w].pc = "claiming" /\ UNCHANGED <<reservation, call>>
  BY <1>1 DEF IInv, TypeOK, Taken, ClaimTask
<1>3. /\ \A v \in Worker : v # w => worker'[v] = worker[v]
      /\ worker'[w].claim = c /\ worker'[w].pc = "reserving"
  BY <1>1, <1>2 DEF WorkerState
<1>4. /\ row.attempt_count = task[t].attempt_count + 1 /\ row.lease_id = c
      /\ made.task = t /\ made.attempt = task[t].attempt_count + 1
      /\ task[t].attempt_count \in Nat
  BY <1>2 DEF ClaimedRow, ClaimMade, TaskRow
<1>5. task[t].attempt_count < MaxAttempts /\ MaxAttempts \in Nat
  BY <1>1, TaskAssumption DEF Taken, Eligible
<1>6. made # None
  <2>1. made \in ClaimRecord
    BY <1>1, <1>2 DEF Taken, ClaimMade, ClaimRecord, TaskRow
  <2>. QED
    BY <2>1, TaskAssumption
<1>. HIDE DEF row, made
<1>7. /\ \A d \in ClaimId : claim'[d] = IF d = c THEN made ELSE claim[d]
      /\ \A u \in Task : task'[u] = IF u = t THEN row ELSE task[u]
  BY <1>1, <1>2 DEF Taken, row, made
<1>8. Made' = Made \cup {c} /\ c \notin Made
  BY <1>2, <1>6, <1>7 DEF Made
<1>9. \A v \in Worker : worker[v].claim # None => worker[v].claim \in Made
  BY HeldTypes DEF AttemptInv, WorkersApart, Made
<1>10. \A x \in call : x.claim \in Made
  BY DEF AttemptInv, CallsOfClaims, IInv, TypeOK, Made
<1>11. WorkersApart'
  BY <1>3, <1>8, <1>9, ClaimsNotNull DEF AttemptInv, WorkersApart
<1>12. CallsBehind'
  BY <1>2, <1>3, <1>8, <1>10 DEF AttemptInv, CallsBehind
<1>13. CallsOfClaims'
  BY <1>2, <1>6, <1>7, <1>8, <1>10 DEF AttemptInv, CallsOfClaims, Made
<1>14. CallsCovered'
  <2>1. \A v \in Worker : worker'[v].pc = "fetching" =>
          v # w /\ Reserved(v) /\ worker[v].claim \in Made
    BY <1>3, HeldTypes DEF AttemptInv, CallsCovered, Made
  <2>2. \A d \in Made : claim'[d] = claim[d]
    BY <1>7, <1>8 DEF Made
  <2>3. \A v \in Worker : worker'[v].pc = "fetching" => Reserved(v)'
    BY <1>2, <1>3, <2>1, <2>2 DEF Reserved, HeldTask, Held
  <2>. QED
    BY <1>2, <1>10, <2>2, <2>3 DEF AttemptInv, CallsCovered
<1>15. AttemptsCount'
  <2>1. \A d \in Made : claim'[d] = claim[d] /\ claim[d].task \in Task /\ claim[d].attempt \in Nat
    BY <1>7, <1>8 DEF Made, IInv, TypeOK, ClaimRecord
  <2>2. Active' \subseteq Active \cup {c}
    BY <1>2, <1>3, <1>8, <2>1 DEF Active, Void
  <2>3. \A u \in Task : task[u].lease_id # None => task[u].lease_id \in Made
    BY DEF IInv, TypeOK, TaskRow, LeaseOpen, Made
  <2>4. \A d \in Active : claim[d].task = t => claim[d].attempt <= task[t].attempt_count
    BY DEF AttemptInv, AttemptsCount
  <2>5. c \notin Active /\ Active \subseteq Made /\ claim'[c] = made
    BY <1>7, <1>8 DEF Active
  <2>6. \A u \in Task :
          /\ task'[u].attempt_count <= MaxAttempts
          /\ task'[u].lease_id # None => claim'[task'[u].lease_id].attempt = task'[u].attempt_count
    BY <1>4, <1>5, <1>7, <2>1, <2>3, <2>5 DEF AttemptInv, AttemptsCount
  <2>7. \A d \in Made' : claim'[d].attempt > 0
    BY <1>4, <1>8, <2>1, <2>5 DEF AttemptInv, AttemptsCount
  <2>8. \A d \in Active' : claim'[d].attempt <= task'[claim'[d].task].attempt_count
    BY <1>4, <1>7, <2>1, <2>2, <2>4, <2>5 DEF AttemptInv, AttemptsCount
  <2>9. \A d, e \in Active' :
          claim'[d].task = claim'[e].task /\ claim'[d].attempt = claim'[e].attempt => d = e
    BY <1>4, <2>1, <2>2, <2>4, <2>5 DEF AttemptInv, AttemptsCount
  <2>. QED
    BY <2>6, <2>7, <2>8, <2>9 DEF AttemptsCount
<1>. QED
  BY <1>11, <1>12, <1>13, <1>14, <1>15 DEF AttemptInv

\* The owner ends its claim: it has the number the task counts.
LEMMA EndCounts ==
  ASSUME IInv, IInv', AttemptInv, NEW w \in Worker,
         CompleteTask(w) \/ FailTask(w) \/ DeferTask(w)
  PROVE  AttemptInv'
<1>. DEFINE c == worker[w].claim
            t == HeldTask(w)
            over == [claim[c] EXCEPT !.ended = TRUE]
<1>1. /\ worker[w].pc \in {"recorded", "failing", "deferring"}
      /\ OwnsTask(w) /\ UNCHANGED <<call, reservation>>
      /\ claim' = [claim EXCEPT ![c].ended = TRUE]
  BY DEF CompleteTask, FailTask, DeferTask, EndClaim
<1>2. /\ worker \in [Worker -> WorkerState] /\ worker[w] \in WorkerState
      /\ c \in ClaimId /\ claim[c] # None /\ t \in Task
      /\ task \in [Task -> TaskRow] /\ task[t] \in TaskRow
      /\ claim \in [ClaimId -> ClaimRecord \cup {None}] /\ claim[c] \in ClaimRecord
  BY <1>1, HeldTypes DEF IInv, TypeOK, Held
<1>3. over # None /\ over.task = claim[c].task /\ over.attempt = claim[c].attempt /\ over.ended
  <2>1. over \in ClaimRecord
    BY <1>2 DEF ClaimRecord
  <2>2. over # None
    BY <2>1, TaskAssumption
  <2>. QED
    BY <1>2, <2>2 DEF ClaimRecord
<1>4. claim' = [claim EXCEPT ![c] = over]
  BY <1>1, <1>2
<1>5. /\ t = claim[c].task /\ task[t].lease_id = c
      /\ claim[c].attempt = task[t].attempt_count /\ task[t].attempt_count \in Nat
  BY <1>1, <1>2, ClaimsNotNull
     DEF OwnsTask, HeldTask, Held, AttemptInv, AttemptsCount, TaskRow
<1>. HIDE DEF over
<1>6. \A d \in ClaimId : claim'[d] = IF d = c THEN over ELSE claim[d]
  BY <1>2, <1>4
<1>7. Made' = Made /\ c \in Made
  BY <1>2, <1>3, <1>6 DEF Made
<1>8. \A d \in Made : /\ claim'[d].task = claim[d].task /\ claim'[d].attempt = claim[d].attempt
                      /\ claim[d].ended => claim'[d].ended
                      /\ claim[d].task \in Task /\ claim[d].attempt \in Nat
  <2>1. \A d \in Made : claim[d] \in ClaimRecord /\ d \in ClaimId
    BY <1>2 DEF Made
  <2>2. \A d \in Made : claim[d].task \in Task /\ claim[d].attempt \in Nat
    BY <2>1 DEF ClaimRecord
  <2>. QED
    BY <1>3, <1>6, <2>1, <2>2
<1>9. /\ \A v \in Worker : v # w => worker'[v] = worker[v]
      /\ \/ worker'[w].pc = "evaluating" /\ worker'[w].claim = c /\ CompleteTask(w)
         \/ worker'[w].pc = "idle" /\ worker'[w].claim = None
  <2>1. CASE CompleteTask(w)
    BY <1>2, <2>1 DEF CompleteTask, WorkerState
  <2>2. CASE FailTask(w) \/ DeferTask(w)
    <3>1. worker' = [worker EXCEPT ![w] = IdleWorker]
      BY <2>2 DEF FailTask, DeferTask
    <3>. QED
      BY <1>2, <3>1 DEF IdleWorker
  <2>. QED
    BY <2>1, <2>2
<1>10. \A v \in Worker : v # w => worker[v].claim # c
  BY <1>2, ClaimsNotNull DEF AttemptInv, WorkersApart
<1>11. WorkersApart'
  BY <1>9, <1>10 DEF AttemptInv, WorkersApart
<1>12. \A x \in call : x.claim \in Made /\ x.claim # None
  BY ClaimsNotNull DEF AttemptInv, CallsOfClaims, IInv, TypeOK, Made
<1>13. CallsBehind' /\ CallsOfClaims'
  <2>1. CallsBehind'
    BY <1>1, <1>9, <1>12 DEF AttemptInv, CallsBehind
  <2>2. CallsOfClaims'
    BY <1>1, <1>7, <1>12 DEF AttemptInv, CallsOfClaims, Made
  <2>. QED
    BY <2>1, <2>2
<1>14. CallsCovered'
  <2>1. \A v \in Worker : worker'[v].pc = "fetching" =>
          v # w /\ Reserved(v) /\ worker[v].claim \in Made
    BY <1>9, HeldTypes DEF AttemptInv, CallsCovered, Made
  <2>2. \A v \in Worker : worker'[v].pc = "fetching" => Reserved(v)'
    BY <1>1, <1>8, <1>9, <2>1 DEF Reserved, HeldTask, Held
  <2>. QED
    BY <1>1, <1>8, <1>12, <2>2 DEF AttemptInv, CallsCovered
<1>15. Active' \subseteq Active
  BY <1>1, <1>2, <1>7, <1>8, <1>9, ClaimsNotNull DEF Active, Void, Made
<1>16. PICK count \in Nat :
         /\ \A u \in Task : u # t => task'[u] = task[u]
         /\ task'[t].lease_id = None
         /\ task'[t].attempt_count = count
         /\ \/ count = task[t].attempt_count
            \/ /\ DeferTask(w) /\ task[t].attempt_count > 0
               /\ count = task[t].attempt_count - 1
  <2>1. CASE CompleteTask(w)
    <3>. DEFINE row == [Released(t, "succeeded") EXCEPT !.result = c]
    <3>1. task' = [task EXCEPT ![t] = row]
      BY <2>1 DEF CompleteTask, EndClaim
    <3>2. row.lease_id = None /\ row.attempt_count = task[t].attempt_count
      BY <1>2 DEF Released, TaskRow
    <3>. HIDE DEF row
    <3>3. task'[t] = row /\ \A u \in Task : u # t => task'[u] = task[u]
      BY <1>2, <3>1
    <3>. QED
      BY <1>5, <3>2, <3>3
  <2>3. CASE FailTask(w)
    <3>. DEFINE terminal == task[t].attempt_count >= MaxAttempts
                row == [Released(t, IF terminal THEN "failed" ELSE "retry") EXCEPT
                          !.not_before = worker[w].received_at + IF terminal THEN 0 ELSE Minute]
    <3>1. task' = [task EXCEPT ![t] = row]
      BY <2>3 DEF FailTask, EndClaim
    <3>2. row.lease_id = None /\ row.attempt_count = task[t].attempt_count
      BY <1>2 DEF Released, TaskRow
    <3>. HIDE DEF row
    <3>3. task'[t] = row /\ \A u \in Task : u # t => task'[u] = task[u]
      BY <1>2, <3>1
    <3>. QED
      BY <1>5, <3>2, <3>3
  <2>2. CASE DeferTask(w)
    <3>. DEFINE row == [Released(t, "deferred") EXCEPT !.not_before = worker[w].now + Minute,
                                                       !.attempt_count = Refunded(@)]
    <3>1. task' = [task EXCEPT ![t] = row]
      BY <2>2 DEF DeferTask, EndClaim
    <3>2. row.lease_id = None /\ row.attempt_count = Refunded(task[t].attempt_count)
      BY <1>2 DEF Released, TaskRow
    <3>3. task[t].attempt_count > 0
      BY <1>2, <1>5, <1>7 DEF AttemptInv, AttemptsCount
    <3>4. Refunded(task[t].attempt_count) = task[t].attempt_count - 1
      BY <3>3 DEF Refunded
    <3>. HIDE DEF row
    <3>5. task'[t] = row /\ \A u \in Task : u # t => task'[u] = task[u]
      BY <1>2, <3>1
    <3>6. task[t].attempt_count - 1 \in Nat
      BY <1>5, <3>3
    <3>. QED
      BY <2>2, <3>2, <3>3, <3>4, <3>5, <3>6
  <2>. QED
    BY <2>1, <2>2, <2>3
<1>17. DeferTask(w) => c \notin Active'
  <2>. SUFFICES ASSUME DeferTask(w), NEW d, d = c PROVE Void(d)'
    BY DEF Active
  <2>1. worker[w].pc = "deferring" /\ worker' = [worker EXCEPT ![w] = IdleWorker]
    BY DEF DeferTask
  <2>2. \A x \in call : x.claim # c
    BY <2>1 DEF AttemptInv, CallsBehind
  <2>3. \A v \in Worker : worker'[v].claim # c
    BY <1>2, <1>9, <1>10, <2>1, ClaimsNotNull DEF IdleWorker
  <2>4. claim'[c].ended
    BY <1>2, <1>3, <1>6
  <2>5. UNCHANGED call
    BY <1>1
  <2>. HIDE DEF c
  <2>. QED
    BY <2>2, <2>3, <2>4, <2>5 DEF Void
<1>18. AttemptsCount'
  <2>1. \A u \in Task : task[u].lease_id # None => task[u].lease_id \in Made
    BY DEF IInv, TypeOK, TaskRow, LeaseOpen, Made
  <2>2. Active \subseteq Made
    BY DEF Active
  <2>3. \A u \in Task :
          /\ task'[u].attempt_count <= MaxAttempts
          /\ task'[u].lease_id # None => claim'[task'[u].lease_id].attempt = task'[u].attempt_count
    <3>1. MaxAttempts \in Nat
      BY TaskAssumption
    <3>. QED
      BY <1>5, <1>8, <1>16, <2>1, <3>1 DEF AttemptInv, AttemptsCount
  <2>4. \A d \in Made' : claim'[d].attempt > 0
    BY <1>7, <1>8 DEF AttemptInv, AttemptsCount
  <2>5. \A d \in Active' : claim'[d].attempt <= task'[claim'[d].task].attempt_count
    <3>. SUFFICES ASSUME NEW d \in Active'
                  PROVE  claim[d].attempt <= task'[claim[d].task].attempt_count
      BY <1>7, <1>8 DEF Active
    <3>1. d \in Active /\ d \in Made
      BY <1>15, <2>2
    <3>2. claim[d].attempt <= task[claim[d].task].attempt_count
      BY <3>1 DEF AttemptInv, AttemptsCount
    <3>3. CASE claim[d].task # t
      BY <1>8, <1>16, <3>1, <3>2, <3>3
    <3>4. CASE claim[d].task = t /\ ~DeferTask(w)
      BY <1>16, <3>2, <3>4
    <3>5. CASE claim[d].task = t /\ DeferTask(w)
      <4>1. d # c /\ c \in Made
        BY <1>7, <1>17, <3>5
      <4>2. c \in Active
        BY <1>2, <1>7 DEF Active, Void
      <4>3. claim[d].attempt # claim[c].attempt
        BY <1>5, <3>1, <3>5, <4>1, <4>2 DEF AttemptInv, AttemptsCount
      <4>. QED
        BY <1>5, <1>8, <1>16, <3>1, <3>2, <3>5, <4>3
    <3>. QED
      BY <3>3, <3>4, <3>5
  <2>6. \A d, e \in Active' :
          claim'[d].task = claim'[e].task /\ claim'[d].attempt = claim'[e].attempt => d = e
    BY <1>8, <1>15, <2>2 DEF AttemptInv, AttemptsCount
  <2>. QED
    BY <2>3, <2>4, <2>5, <2>6 DEF AttemptsCount
<1>. QED
  BY <1>11, <1>13, <1>14, <1>18 DEF AttemptInv

LEMMA AttemptStep ==
  ASSUME IInv, AttemptInv, [Next]_vars
  PROVE  AttemptInv'
<1>1. IInv'
  BY TasksStep
<1>2. CASE Tick \/ Stop \/ Restart \/ UNCHANGED vars \/ \E t \in Task : Nominate(t)
  BY <1>1, <1>2, UntouchedSteps
<1>3. ASSUME NEW w \in Worker, WorkerStep(w)
      PROVE  AttemptInv'
  <2>1. CASE \/ BeginRun(w) \/ ClaimNothing(w) \/ Reserve(w) \/ ReserveDenied(w)
             \/ RecordEvidence(w) \/ RejectEvidence(w) \/ Evaluate(w) \/ LoseLease(w)
    BY <1>1, <2>1, UntouchedSteps
  <2>2. CASE FetchPage(w) \/ FetchFails(w)
    BY <1>1, <2>2, FetchCounts
  <2>3. CASE ClaimTask(w)
    BY <1>1, <2>3, ClaimCounts
  <2>4. CASE CompleteTask(w) \/ FailTask(w) \/ DeferTask(w)
    BY <1>1, <2>4, EndCounts
  <2>. QED
    BY <1>3, <2>1, <2>2, <2>3, <2>4 DEF WorkerStep
<1>. QED
  BY <1>2, <1>3 DEF Next

LEMMA AttemptInvariant == Spec => [](IInv /\ AttemptInv)
BY TasksInit, TasksStep, AttemptInit, AttemptStep, PTL DEF Spec

\* ck_candidate_tasks_lease is never violated by claim, complete, fail or defer.  Every call
\* of the provider has a reservation, and none serves two calls: a deferred
\* attempt, whose number is used again, made none.
THEOREM TasksStayConsistent == Spec => []TasksConsistent
<1>1. IInv /\ AttemptInv => CallsReservedOnce
  <2>. SUFFICES ASSUME IInv, AttemptInv, NEW x \in call, NEW y \in call,
                       claim[x.claim].task = claim[y.claim].task,
                       claim[x.claim].attempt = claim[y.claim].attempt,
                       x.page = y.page
                PROVE  x = y
    BY DEF AttemptInv, CallsCovered, CallsReservedOnce
  <2>1. x.claim \in Active /\ y.claim \in Active
    BY DEF AttemptInv, CallsOfClaims, IInv, TypeOK, Active, Made, Void
  <2>. QED
    BY <2>1 DEF AttemptInv, AttemptsCount, CallsOfClaims
<1>2. IInv => TypeOK
  BY DEF IInv
<1>. QED
  BY <1>1, <1>2, AttemptInvariant, PTL DEF TasksConsistent

\* At most max_attempts claims of a task ever reach the provider: each of them has a
\* number of its own, whatever was deferred, reclaimed or lost in between.
THEOREM AttemptsStayBounded == Spec => []AttemptsBounded
<1>1. ASSUME IInv, AttemptInv, NEW t \in Task
      PROVE  Cardinality({c \in Made : claim[c].task = t /\ \E x \in call : x.claim = c})
               <= MaxAttempts
  <2>. DEFINE S == {c \in Made : claim[c].task = t /\ \E x \in call : x.claim = c}
              number == [c \in S |-> claim[c].attempt]
  <2>1. MaxAttempts \in Nat
    BY TaskAssumption
  <2>2. S \subseteq Active
    BY DEF Active, Void
  <2>3. \A c \in S : claim[c].attempt \in 1 .. MaxAttempts
    <3>. SUFFICES ASSUME NEW c \in S PROVE claim[c].attempt \in 1 .. MaxAttempts
      OBVIOUS
    <3>1. claim[c].attempt \in Nat /\ task[t].attempt_count \in Nat
      BY <1>1 DEF Made, IInv, TypeOK, ClaimRecord, TaskRow
    <3>2. claim[c].attempt > 0 /\ claim[c].attempt <= task[t].attempt_count
      BY <1>1, <2>2 DEF AttemptInv, AttemptsCount
    <3>. QED
      BY <1>1, <2>1, <3>1, <3>2 DEF AttemptInv, AttemptsCount
  <2>4. number \in Injection(S, 1 .. MaxAttempts)
    <3>1. \A c, d \in S : claim[c].attempt = claim[d].attempt => c = d
      BY <1>1, <2>2 DEF AttemptInv, AttemptsCount
    <3>. QED
      BY <2>3, <3>1 DEF Injection, IsInjective
  <2>. HIDE DEF S, number
  <2>5. Cardinality(S) <= Cardinality(1 .. MaxAttempts)
    BY <2>1, <2>4, FS_Injection, FS_Interval
  <2>6. Cardinality(1 .. MaxAttempts) = MaxAttempts
    BY <2>1, FS_Interval
  <2>. QED
    BY <2>5, <2>6 DEF S
<1>2. IInv /\ AttemptInv => AttemptsBounded
  BY <1>1 DEF AttemptsBounded
<1>. QED
  BY <1>2, AttemptInvariant, PTL

-----------------------------------------------------------------------------
(* Budgets: how many reservations and claims a minute has.                 *)

LEMMA Division ==
  ASSUME NEW n \in Nat, NEW m \in Nat, m > 0
  PROVE  \E q \in Nat : n - (n % m) = m * q
<1>1. n = m * (n \div m) + (n % m)
  BY SMTT(60)
<1>2. n \div m \in Nat
  BY SMTT(60)
<1>3. n - (n % m) = m * (n \div m)
  BY <1>1, SMTT(60)
<1>. QED
  BY <1>2, <1>3

\* A time lies in the minute that starts at its MinuteStart.
LEMMA MinuteBounds ==
  ASSUME NEW n \in Nat
  PROVE  MinuteStart(n) \in Nat /\ MinuteStart(n) <= n /\ n < MinuteStart(n) + Minute
<1>1. Minute \in Nat /\ Minute > 0
  BY TaskAssumption
<1>2. n % Minute \in 0 .. Minute - 1
  BY <1>1
<1>3. PICK q \in Nat : n - (n % Minute) = Minute * q
  BY <1>1, Division
<1>4. n - (n % Minute) \in Nat
  BY <1>1, <1>3
<1>. QED
  BY <1>1, <1>2, <1>4 DEF MinuteStart

LEMMA Multiples ==
  ASSUME NEW q \in Nat, NEW r \in Nat, Minute * q < Minute * r + Minute
  PROVE  q <= r
<1>1. Minute \in Nat /\ Minute > 0
  BY TaskAssumption
<1>. SUFFICES ASSUME q > r PROVE FALSE
  OBVIOUS
<1>2. PICK k \in Nat : q = r + 1 + k
  <2>1. q - r - 1 \in Nat
    OBVIOUS
  <2>2. q = r + 1 + (q - r - 1)
    OBVIOUS
  <2>. QED
    BY <2>1, <2>2
<1>3. Minute * (r + 1 + k) = Minute * r + Minute + Minute * k
  BY <1>1
<1>4. Minute * k \in Nat /\ Minute * r \in Nat
  BY <1>1
<1>. QED
  BY <1>1, <1>2, <1>3, <1>4

\* No other minute holds it.
LEMMA SameMinute ==
  ASSUME NEW n \in Nat, NEW m \in Nat, MinuteStart(m) <= n, n < MinuteStart(m) + Minute
  PROVE  MinuteStart(n) = MinuteStart(m)
<1>1. Minute \in Nat /\ Minute > 0
  BY TaskAssumption
<1>2. PICK q \in Nat : MinuteStart(n) = Minute * q
  BY <1>1, Division DEF MinuteStart
<1>3. PICK r \in Nat : MinuteStart(m) = Minute * r
  BY <1>1, Division DEF MinuteStart
<1>4. Minute * q < Minute * r + Minute /\ Minute * r < Minute * q + Minute
  BY <1>1, <1>2, <1>3, MinuteBounds
<1>5. q <= r /\ r <= q
  BY <1>4, Multiples
<1>. QED
  BY <1>2, <1>3, <1>5

OfType(type, now) == {r \in InMinute(now) : Analysis[r.task] = type}
MinuteReservations ==
  /\ IsFiniteSet(reservation)
  /\ \A now \in Nat :
       /\ Cardinality(InMinute(now)) <= RequestsPerMinute
       /\ \A type \in AnalysisType : Cardinality(OfType(type, now)) <= ClassLimit[type]

\* One more element may be added where there was room for one.
LEMMA OneMore ==
  ASSUME NEW S, NEW T, NEW x, NEW limit \in Nat, IsFiniteSet(S), Cardinality(S) < limit,
         T \subseteq S \cup {x}
  PROVE  Cardinality(T) <= limit
<1>1. IsFiniteSet(S \cup {x}) /\ Cardinality(S \cup {x}) <= Cardinality(S) + 1
  <2>1. Cardinality(S) \in Nat
    BY FS_CardinalityType
  <2>2. IsFiniteSet(S \cup {x})
    BY FS_AddElement
  <2>3. Cardinality(S \cup {x}) = IF x \in S THEN Cardinality(S) ELSE Cardinality(S) + 1
    BY FS_AddElement
  <2>. QED
    BY <2>1, <2>2, <2>3
<1>2. IsFiniteSet(T) /\ Cardinality(T) <= Cardinality(S \cup {x})
  BY <1>1, FS_Subset
<1>. QED
  BY <1>1, <1>2, FS_CardinalityType

\* A new reservation belongs to the minute whose capacity was counted, even when the
\* clock is past that minute.
LEMMA ReserveKeepsBudget ==
  ASSUME IInv, MinuteReservations, NEW w \in Worker, Reserve(w)
  PROVE  MinuteReservations'
<1>. DEFINE n == worker[w].now
            t == HeldTask(w)
            new == [task |-> t, attempt |-> Held(w).attempt, page |-> worker[w].page,
                    reserved_at |-> n]
<1>1. CASE UNCHANGED reservation
  BY <1>1 DEF MinuteReservations, InMinute, OfType
<1>2. CASE RequestCapacity(Analysis[t], n) /\ reservation' = reservation \cup {new}
  <2>1. n \in Nat /\ t \in Task
    BY HeldTypes DEF Reserve, IInv, WorkersHold, Holds
  <2>2. new.reserved_at = n /\ new.task = t
    OBVIOUS
  <2>. HIDE DEF new, n, t
  <2>3. IsFiniteSet(reservation')
    BY <1>2, FS_AddElement DEF MinuteReservations
  <2>. SUFFICES ASSUME NEW m \in Nat
                PROVE  /\ Cardinality(InMinute(m)') <= RequestsPerMinute
                       /\ \A type \in AnalysisType :
                            Cardinality(OfType(type, m)') <= ClassLimit[type]
    BY <2>3 DEF MinuteReservations
  <2>4. CASE ~(MinuteStart(m) <= n /\ n < MinuteStart(m) + Minute)
    <3>1. InMinute(m)' = InMinute(m)
      BY <1>2, <2>2, <2>4 DEF InMinute
    <3>2. \A type \in AnalysisType : OfType(type, m)' = OfType(type, m)
      BY <3>1 DEF OfType
    <3>. QED
      BY <3>1, <3>2 DEF MinuteReservations
  <2>5. CASE MinuteStart(m) <= n /\ n < MinuteStart(m) + Minute
    <3>1. MinuteStart(n) = MinuteStart(m)
      BY <2>1, <2>5, SameMinute
    <3>2. InMinute(m) = InMinute(n) /\ InMinute(m)' = InMinute(m) \cup {new}
      BY <1>2, <2>2, <2>5, <3>1 DEF InMinute
    <3>3. IsFiniteSet(InMinute(m)) /\ \A type \in AnalysisType : IsFiniteSet(OfType(type, m))
      BY FS_Subset DEF MinuteReservations, InMinute, OfType
    <3>4. Cardinality(InMinute(m)) < RequestsPerMinute
      BY <1>2, <3>2 DEF RequestCapacity
    <3>5. RequestsPerMinute \in Nat /\ \A type \in AnalysisType : ClassLimit[type] \in Nat
      BY TaskAssumption
    <3>6. Cardinality(InMinute(m)') <= RequestsPerMinute
      BY <3>2, <3>3, <3>4, <3>5, OneMore
    <3>7. ASSUME NEW type \in AnalysisType
          PROVE  Cardinality(OfType(type, m)') <= ClassLimit[type]
      <4>1. CASE Analysis[t] = type
        <5>1. Cardinality(OfType(type, m)) < ClassLimit[type]
          BY <1>2, <3>2, <4>1 DEF RequestCapacity, OfType
        <5>2. OfType(type, m)' \subseteq OfType(type, m) \cup {new}
          BY <3>2 DEF OfType
        <5>. QED
          BY <3>3, <3>5, <5>1, <5>2, OneMore
      <4>2. CASE Analysis[t] # type
        <5>1. OfType(type, m)' = OfType(type, m)
          BY <2>2, <3>2, <4>2 DEF OfType
        <5>. QED
          BY <5>1 DEF MinuteReservations
      <4>. QED
        BY <4>1, <4>2
    <3>. QED
      BY <3>6, <3>7
  <2>. QED
    BY <2>4, <2>5
<1>. QED
  BY <1>1, <1>2 DEF Reserve

LEMMA ReservationsInvariant == Spec => []MinuteReservations
<1>1. Init => MinuteReservations
  <2>. SUFFICES ASSUME Init PROVE MinuteReservations
    OBVIOUS
  <2>1. reservation = {} /\ \A now \in Nat : InMinute(now) = {}
    BY DEF Init, InMinute
  <2>2. \A type \in AnalysisType, now \in Nat : OfType(type, now) = {}
    BY <2>1 DEF OfType
  <2>3. RequestsPerMinute >= 0 /\ \A type \in AnalysisType : ClassLimit[type] >= 0
    BY TaskAssumption
  <2>. QED
    BY <2>1, <2>2, <2>3, FS_EmptySet DEF MinuteReservations
<1>2. IInv /\ MinuteReservations /\ [Next]_vars => MinuteReservations'
  <2>. SUFFICES ASSUME IInv, MinuteReservations, [Next]_vars PROVE MinuteReservations'
    OBVIOUS
  <2>1. CASE UNCHANGED reservation
    BY <2>1 DEF MinuteReservations, InMinute, OfType
  <2>2. CASE \E w \in Worker : Reserve(w)
    BY <2>2, ReserveKeepsBudget
  <2>. QED
    BY <2>1, <2>2
       DEF Next, WorkerStep, vars, Tick, Stop, Restart, Collapse, Nominate, BeginRun, ClaimTask,
           ClaimNothing, ReserveDenied, FetchPage, FetchFails, RecordEvidence, RejectEvidence,
           CompleteTask, Evaluate, FailTask, DeferTask, LoseLease
<1>. QED
  BY <1>1, <1>2, TasksInit, TasksStep, PTL DEF Spec

\* The provider's budgets hold in every minute, whatever the lease: a run counts the
\* minute it decides in, not the one the clock has reached.
THEOREM ProviderStaysInBudget == Spec => []ProviderBudgetKept
<1>1. IInv /\ MinuteReservations => ProviderBudgetKept
  BY DEF IInv, TypeOK, MinuteReservations, ProviderBudgetKept, OfType
<1>. QED
  BY <1>1, TasksInit, TasksStep, ReservationsInvariant, PTL DEF Spec

-----------------------------------------------------------------------------
(* The task budget counts the tasks claimed in a minute, not the claims: it *)
(* bounds the claims when a task cannot be claimed twice in a minute.       *)

\* A run decides with the time it began, and an answer arrives later.
TimesOrdered ==
  /\ \A w \in Worker :
       /\ worker[w].pc # "idle" => worker[w].now <= clock
       /\ worker[w].received_at # None => worker[w].received_at >= worker[w].now
       /\ worker[w].pc \notin {"idle", "claiming"} => worker[w].now = Held(w).at
  /\ \A c \in Made : claim[c].at <= clock

\* A task that was claimed is out of reach for a minute from its last claim.
OutOfReach(row) ==
  IF row.claimed_at = None
  THEN row.status \in {"absent", "pending"}
  ELSE /\ row.status \notin {"absent", "pending"}
       /\ row.status = "claimed" =>
            row.lease_expires_at \in Nat /\ row.lease_expires_at >= row.claimed_at + Minute
       /\ row.status \in {"retry", "deferred"} => row.not_before >= row.claimed_at + Minute
HeldBack ==
  /\ \A t \in Task :
       /\ OutOfReach(task[t])
       /\ task[t].lease_id # None => claim[task[t].lease_id].at = task[t].claimed_at
  /\ \A c \in Made : /\ task[claim[c].task].claimed_at # None
                     /\ claim[c].at <= task[claim[c].task].claimed_at

ClaimsSpread ==
  \A c, d \in Made : c # d /\ claim[c].task = claim[d].task =>
    claim[c].at + Minute <= claim[d].at \/ claim[d].at + Minute <= claim[c].at

ClaimsIn(start) == {c \in Made : MinuteStart(claim[c].at) = start}
MinuteClaims ==
  \A start \in Nat : Cardinality(ClaimsIn(start)) <= TasksPerMinute /\ IsFiniteSet(ClaimsIn(start))

ClaimInv == TimesOrdered /\ HeldBack /\ ClaimsSpread /\ MinuteClaims

LEMMA ClaimInit == Init => ClaimInv
<1>. SUFFICES ASSUME Init PROVE ClaimInv
  OBVIOUS
<1>1. Made = {} /\ \A start \in Nat : ClaimsIn(start) = {}
  BY DEF Init, Made, ClaimsIn
<1>2. TimesOrdered /\ HeldBack /\ ClaimsSpread
  BY <1>1 DEF Init, TimesOrdered, HeldBack, OutOfReach, ClaimsSpread, IdleWorker
<1>3. TasksPerMinute \in Nat
  BY TaskAssumption
<1>. QED
  BY <1>1, <1>2, <1>3, FS_EmptySet DEF ClaimInv, MinuteClaims

\* The facts about numbers that None must not spoil.
LEMMA TimeTypes ==
  ASSUME IInv
  PROVE  /\ Minute \in Nat /\ Minute > 0 /\ None \notin Nat /\ clock \in Nat
         /\ \A t \in Task : task[t] \in TaskRow
         /\ \A c \in Made : /\ claim[c] \in ClaimRecord /\ claim[c].task \in Task
                            /\ claim[c].at \in Nat /\ c \in ClaimId
         /\ \A w \in Worker : worker[w] \in WorkerState
<1>1. \A c \in Made : claim[c] \in ClaimRecord /\ c \in ClaimId
  BY DEF IInv, TypeOK, Made
<1>. QED
  BY <1>1, TaskAssumption DEF IInv, TypeOK, ClaimRecord

\* Claims are made once and keep their task and time.
ClaimsStay ==
  /\ Made' = Made
  /\ \A c \in Made : claim'[c].task = claim[c].task /\ claim'[c].at = claim[c].at

LEMMA ClaimsStayCounted ==
  ASSUME IInv, ClaimInv, ClaimsStay
  PROVE  ClaimsSpread' /\ MinuteClaims'
<1>1. \A start \in Nat : ClaimsIn(start)' = ClaimsIn(start)
  BY DEF ClaimsIn, ClaimsStay
<1>. QED
  BY <1>1 DEF ClaimInv, ClaimsSpread, MinuteClaims, ClaimsStay

\* A worker keeps its times, gets a time for an answer, or starts a new run.
TimesMove(v) ==
  \/ worker'[v] = worker[v]
  \/ worker'[v].pc \in {"idle", "claiming"} /\ worker'[v].received_at = None
       /\ (worker'[v].pc = "claiming" => worker'[v].now = clock)
  \/ /\ worker[v].pc \notin {"idle", "claiming"}
     /\ worker'[v].now = worker[v].now /\ worker'[v].claim = worker[v].claim
     /\ worker'[v].received_at \in {worker[v].received_at, clock}

LEMMA TimesStayOrdered ==
  ASSUME IInv, IInv', TimesOrdered, ClaimsStay, clock' >= clock, \A v \in Worker : TimesMove(v)
  PROVE  TimesOrdered'
<1>1. \A c \in Made' : claim'[c].at <= clock'
  BY TimeTypes DEF TimesOrdered, ClaimsStay, IInv, TypeOK
<1>2. ASSUME NEW v \in Worker
      PROVE  /\ worker'[v].pc # "idle" => worker'[v].now <= clock'
             /\ worker'[v].received_at # None => worker'[v].received_at >= worker'[v].now
             /\ worker'[v].pc \notin {"idle", "claiming"} => worker'[v].now = Held(v)'.at
  <2>1. /\ worker[v].pc # "idle" => worker[v].now \in Nat /\ worker[v].now <= clock
        /\ worker[v].received_at # None => worker[v].received_at >= worker[v].now
        /\ clock \in Nat /\ clock' \in Nat
    BY DEF IInv, WorkersHold, Holds, TimesOrdered, TypeOK
  <2>2. worker[v].pc \notin {"idle", "claiming"} =>
          worker[v].now = claim[worker[v].claim].at /\ worker[v].claim \in Made
    BY HeldTypes DEF TimesOrdered, Held, Made
  <2>3. CASE worker'[v] = worker[v]
    BY <2>1, <2>2, <2>3 DEF ClaimsStay, Held
  <2>4. CASE /\ worker'[v].pc \in {"idle", "claiming"} /\ worker'[v].received_at = None
             /\ worker'[v].pc = "claiming" => worker'[v].now = clock
    BY <2>1, <2>4
  <2>5. CASE /\ worker[v].pc \notin {"idle", "claiming"}
             /\ worker'[v].now = worker[v].now /\ worker'[v].claim = worker[v].claim
             /\ worker'[v].received_at \in {worker[v].received_at, clock}
    BY <2>1, <2>2, <2>5 DEF ClaimsStay, Held
  <2>. QED
    BY <2>3, <2>4, <2>5 DEF TimesMove
<1>. QED
  BY <1>1, <1>2 DEF TimesOrdered

LEMMA HeldBackStays ==
  ASSUME IInv, HeldBack, ClaimsStay,
         \A t \in Task : /\ OutOfReach(task'[t])
                         /\ task'[t].claimed_at = task[t].claimed_at
                         /\ task'[t].lease_id \in {task[t].lease_id, None}
  PROVE  HeldBack'
<1>1. \A t \in Task : task[t].lease_id # None => task[t].lease_id \in Made
  BY DEF IInv, TypeOK, TaskRow, LeaseOpen, Made
<1>2. \A c \in Made : claim[c].task \in Task
  BY TimeTypes
<1>. QED
  BY <1>1, <1>2 DEF HeldBack, ClaimsStay, OutOfReach

LEMMA CreatedOutOfReach ==
  ASSUME IInv, HeldBack, NEW tasks, NEW at, task' = Created(tasks, at)
  PROVE  \A t \in Task : /\ OutOfReach(task'[t])
                         /\ task'[t].claimed_at = task[t].claimed_at
                         /\ task'[t].lease_id \in {task[t].lease_id, None}
<1>. SUFFICES ASSUME NEW t \in Task
              PROVE  /\ OutOfReach(task'[t])
                     /\ task'[t].claimed_at = task[t].claimed_at
                     /\ task'[t].lease_id \in {task[t].lease_id, None}
  OBVIOUS
<1>1. task[t] \in TaskRow /\ OutOfReach(task[t])
  BY TimeTypes DEF HeldBack
<1>. DEFINE row == [task[t] EXCEPT !.status = "pending", !.created_at = at, !.not_before = at]
<1>2. /\ row.status = "pending" /\ row.claimed_at = task[t].claimed_at
      /\ row.lease_id = task[t].lease_id
  BY <1>1 DEF TaskRow
<1>3. task'[t] = task[t] \/ (task[t].status = "absent" /\ task'[t] = row)
  BY DEF Created
<1>. HIDE DEF row
<1>. QED
  BY <1>1, <1>2, <1>3 DEF OutOfReach

\* Steps that neither take a task nor end a claim.
LEMMA TimesUntouched ==
  ASSUME IInv, IInv', ClaimInv,
         \/ Tick \/ Stop \/ Restart \/ UNCHANGED vars
         \/ \E t \in Task : Nominate(t)
         \/ \E w \in Worker :
              \/ BeginRun(w) \/ ClaimNothing(w) \/ Reserve(w) \/ ReserveDenied(w)
              \/ FetchPage(w) \/ FetchFails(w)
              \/ RecordEvidence(w) \/ RejectEvidence(w) \/ Evaluate(w) \/ LoseLease(w)
  PROVE  ClaimInv'
<1>1. /\ UNCHANGED claim
      /\ UNCHANGED task \/ \E tasks, at : task' = Created(tasks, at)
  BY DEF Tick, Stop, Restart, vars, Nominate, BeginRun, ClaimNothing, Reserve, ReserveDenied,
         FetchPage, FetchFails, RecordEvidence, RejectEvidence, Evaluate, LoseLease, Collapse
<1>2. ClaimsStay
  BY <1>1 DEF ClaimsStay, Made
<1>3. HeldBack'
  <2>1. CASE UNCHANGED task
    BY <1>2, <2>1, HeldBackStays DEF ClaimInv, HeldBack
  <2>2. CASE \E tasks, at : task' = Created(tasks, at)
    BY <1>2, <2>2, CreatedOutOfReach, HeldBackStays DEF ClaimInv
  <2>. QED
    BY <1>1, <2>1, <2>2
<1>4. clock' >= clock
  <2>1. clock' = clock \/ clock' = clock + 1
    BY DEF Tick, Stop, Restart, vars, Nominate, BeginRun, ClaimNothing, Reserve, ReserveDenied,
           FetchPage, FetchFails, RecordEvidence, RejectEvidence, Evaluate, LoseLease, Collapse
  <2>. QED
    BY <2>1, TimeTypes
<1>5. \A v \in Worker : TimesMove(v)
  <2>1. CASE UNCHANGED worker
    BY <2>1 DEF TimesMove
  <2>2. CASE worker' = [v \in Worker |-> IdleWorker]
    BY <2>2 DEF TimesMove, IdleWorker
  <2>3. ASSUME NEW w \in Worker,
               \/ BeginRun(w) \/ ClaimNothing(w) \/ Reserve(w) \/ ReserveDenied(w)
               \/ FetchPage(w) \/ FetchFails(w) \/ RecordEvidence(w) \/ Evaluate(w)
        PROVE  \A v \in Worker : TimesMove(v)
    <3>1. worker \in [Worker -> WorkerState] /\ worker[w] \in WorkerState
      BY DEF IInv, TypeOK
    <3>2. \A v \in Worker : v # w => worker'[v] = worker[v]
      BY <2>3, <3>1 DEF BeginRun, ClaimNothing, Reserve, ReserveDenied, FetchPage, FetchFails,
         RecordEvidence, Evaluate
    <3>3. TimesMove(w)
      <4>1. CASE BeginRun(w)
        BY <3>1, <4>1 DEF BeginRun, IdleWorker, TimesMove
      <4>2. CASE ClaimNothing(w) \/ Evaluate(w)
        BY <3>1, <4>2 DEF ClaimNothing, Evaluate, IdleWorker, TimesMove
      <4>3. CASE Reserve(w) \/ ReserveDenied(w) \/ RecordEvidence(w)
        <5>1. worker[w].pc \in {"reserving", "answered"}
          BY <4>3 DEF Reserve, ReserveDenied, RecordEvidence
        <5>2. /\ worker'[w].now = worker[w].now /\ worker'[w].claim = worker[w].claim
              /\ worker'[w].received_at = worker[w].received_at
          BY <3>1, <4>3 DEF Reserve, ReserveDenied, RecordEvidence, WorkerState
        <5>. QED
          BY <5>1, <5>2 DEF TimesMove
      <4>4. CASE FetchPage(w) \/ FetchFails(w)
        <5>1. worker[w].pc = "fetching"
          BY <4>4 DEF FetchPage, FetchFails
        <5>2. /\ worker'[w].now = worker[w].now /\ worker'[w].claim = worker[w].claim
              /\ worker'[w].received_at = clock
          <6>1. CASE worker' = [worker EXCEPT ![w].pc = "reserving", ![w].page = @ + 1,
                                              ![w].received_at = clock]
            BY <3>1, <6>1 DEF WorkerState
          <6>2. CASE worker' = [worker EXCEPT ![w].pc = "answered", ![w].received_at = clock]
            BY <3>1, <6>2 DEF WorkerState
          <6>3. CASE worker' = [worker EXCEPT ![w].pc = "failing", ![w].received_at = clock]
            BY <3>1, <6>3 DEF WorkerState
          <6>. QED
            BY <4>4, <6>1, <6>2, <6>3 DEF FetchPage, FetchFails
        <5>. QED
          BY <5>1, <5>2 DEF TimesMove
      <4>. QED
        BY <2>3, <4>1, <4>2, <4>3, <4>4
    <3>. QED
      BY <3>2, <3>3 DEF TimesMove
  <2>. QED
    BY <2>1, <2>2, <2>3 DEF Tick, Stop, Restart, vars, Nominate, RejectEvidence, LoseLease, Collapse
<1>. QED
  BY <1>2, <1>3, <1>4, <1>5, ClaimsStayCounted, TimesStayOrdered DEF ClaimInv

\* The owner ends its claim: the task waits a minute, or is over.
LEMMA EndHoldsBack ==
  ASSUME IInv, IInv', ClaimInv, NEW w \in Worker,
         CompleteTask(w) \/ FailTask(w) \/ DeferTask(w)
  PROVE  ClaimInv'
<1>. DEFINE c == worker[w].claim
            t == HeldTask(w)
            over == [claim[c] EXCEPT !.ended = TRUE]
<1>1. /\ worker[w].pc \in {"recorded", "failing", "deferring"}
      /\ OwnsTask(w) /\ UNCHANGED clock
      /\ claim' = [claim EXCEPT ![c].ended = TRUE]
  BY DEF CompleteTask, FailTask, DeferTask, EndClaim
<1>2. /\ worker \in [Worker -> WorkerState] /\ worker[w] \in WorkerState
      /\ c \in ClaimId /\ claim[c] # None /\ t \in Task
      /\ task \in [Task -> TaskRow] /\ task[t] \in TaskRow
      /\ claim \in [ClaimId -> ClaimRecord \cup {None}] /\ claim[c] \in ClaimRecord
  BY <1>1, HeldTypes DEF IInv, TypeOK, Held
<1>3. ClaimsStay
  <2>1. over \in ClaimRecord /\ over.task = claim[c].task /\ over.at = claim[c].at
    BY <1>2 DEF ClaimRecord
  <2>2. over # None
    BY <2>1, TaskAssumption
  <2>3. claim' = [claim EXCEPT ![c] = over]
    BY <1>1, <1>2
  <2>. HIDE DEF over
  <2>. QED
    BY <1>2, <2>1, <2>2, <2>3 DEF ClaimsStay, Made
<1>4. /\ task[t].claimed_at = worker[w].now /\ worker[w].now \in Nat
      /\ worker[w].received_at # None => worker[w].received_at >= worker[w].now
  <2>1. task[t].lease_id = c /\ task[t].lease_id # None
    BY <1>1, <1>2, ClaimsNotNull DEF OwnsTask
  <2>. QED
    BY <1>1, <1>2, <2>1, HeldTypes DEF ClaimInv, HeldBack, TimesOrdered, Held
<1>5. /\ task[t].claimed_at # None /\ Minute \in Nat /\ None \notin Nat
  BY <1>4, TimeTypes
<1>6. PICK row : /\ task' = [task EXCEPT ![t] = row]
                 /\ OutOfReach(row) /\ row.claimed_at = task[t].claimed_at /\ row.lease_id = None
  <2>1. CASE CompleteTask(w)
    <3>. DEFINE row == [Released(t, "succeeded") EXCEPT !.result = c]
    <3>1. /\ row.lease_id = None /\ row.claimed_at = task[t].claimed_at
          /\ row.status = "succeeded"
      BY <1>2 DEF Released, TaskRow
    <3>2. task' = [task EXCEPT ![t] = row]
      BY <2>1 DEF CompleteTask, EndClaim
    <3>. HIDE DEF row
    <3>. QED
      BY <1>5, <3>1, <3>2 DEF OutOfReach
  <2>2. CASE FailTask(w)
    <3>. DEFINE terminal == task[t].attempt_count >= MaxAttempts
                row == [Released(t, IF terminal THEN "failed" ELSE "retry") EXCEPT
                          !.not_before = worker[w].received_at + IF terminal THEN 0 ELSE Minute]
    <3>1. task' = [task EXCEPT ![t] = row]
      BY <2>2 DEF FailTask, EndClaim
    <3>2. /\ row.lease_id = None /\ row.claimed_at = task[t].claimed_at
          /\ row.status = IF terminal THEN "failed" ELSE "retry"
          /\ row.not_before = worker[w].received_at + IF terminal THEN 0 ELSE Minute
      BY <1>2 DEF Released, TaskRow
    <3>3. worker[w].received_at \in Nat
      BY <2>2 DEF FailTask, IInv, WorkersHold, Holds
    <3>. HIDE DEF row, terminal
    <3>4. OutOfReach(row)
      BY <1>4, <1>5, <3>2, <3>3 DEF OutOfReach
    <3>. QED
      BY <3>1, <3>2, <3>4
  <2>3. CASE DeferTask(w)
    <3>. DEFINE row == [Released(t, "deferred") EXCEPT !.not_before = worker[w].now + Minute,
                                                       !.attempt_count = Refunded(@)]
    <3>1. task' = [task EXCEPT ![t] = row]
      BY <2>3 DEF DeferTask, EndClaim
    <3>2. /\ row.lease_id = None /\ row.claimed_at = task[t].claimed_at
          /\ row.status = "deferred" /\ row.not_before = worker[w].now + Minute
      BY <1>2 DEF Released, TaskRow
    <3>. HIDE DEF row
    <3>3. OutOfReach(row)
      BY <1>4, <1>5, <3>2 DEF OutOfReach
    <3>. QED
      BY <3>1, <3>2, <3>3
  <2>. QED
    BY <2>1, <2>2, <2>3
<1>7. \A u \in Task : /\ OutOfReach(task'[u])
                      /\ task'[u].claimed_at = task[u].claimed_at
                      /\ task'[u].lease_id \in {task[u].lease_id, None}
  <2>1. \A u \in Task : task'[u] = IF u = t THEN row ELSE task[u]
    BY <1>2, <1>6
  <2>. QED
    BY <1>6, <2>1 DEF ClaimInv, HeldBack
<1>8. \A v \in Worker : TimesMove(v)
  <2>1. CASE CompleteTask(w)
    BY <1>1, <1>2, <2>1 DEF CompleteTask, WorkerState, TimesMove
  <2>2. CASE FailTask(w) \/ DeferTask(w)
    <3>1. worker' = [worker EXCEPT ![w] = IdleWorker]
      BY <2>2 DEF FailTask, DeferTask
    <3>. QED
      BY <1>2, <3>1 DEF IdleWorker, TimesMove
  <2>. QED
    BY <2>1, <2>2
<1>9. clock' >= clock
  BY <1>1, TimeTypes
<1>. QED
  BY <1>3, <1>7, <1>8, <1>9, ClaimsStayCounted, HeldBackStays, TimesStayOrdered DEF ClaimInv

\* Only tasks that were not claimed within the last minute are claimed.
LEMMA EligibleRested ==
  ASSUME IInv, ClaimInv, NEW n \in Nat, NEW t \in Eligible(n)
  PROVE  \A c \in Made : claim[c].task = t => claim[c].at + Minute <= n
<1>1. /\ t \in Task /\ task[t] \in TaskRow
      /\ task[t].not_before # None /\ task[t].not_before <= n
      /\ task[t].status = "claimed" => task[t].lease_expires_at <= n
      /\ task[t].status \in {"pending", "retry", "deferred", "claimed"}
  BY TimeTypes DEF Eligible
<1>. SUFFICES ASSUME NEW c \in Made, claim[c].task = t
              PROVE  claim[c].at + Minute <= n
  OBVIOUS
<1>2. /\ claim[c].at \in Nat /\ Minute \in Nat /\ task[t].not_before \in Nat
      /\ task[t].claimed_at \in Nat \cup {None}
  BY <1>1, TimeTypes DEF TaskRow, MaybeTime
<1>3. /\ OutOfReach(task[t])
      /\ task[t].claimed_at # None /\ claim[c].at <= task[t].claimed_at
  BY <1>1 DEF ClaimInv, HeldBack
<1>. QED
  BY <1>1, <1>2, <1>3 DEF OutOfReach

\* The claims of a minute are of different tasks, all counted by the budget.
LEMMA ClaimsOfMinute ==
  ASSUME IInv, ClaimInv, NEW n \in Nat
  PROVE  /\ IsFiniteSet(ClaimsIn(MinuteStart(n)))
         /\ Cardinality(ClaimsIn(MinuteStart(n))) <= Cardinality(ClaimedSince(MinuteStart(n)))
<1>. DEFINE start == MinuteStart(n)
            of == [c \in ClaimsIn(start) |-> claim[c].task]
<1>1. start \in Nat /\ \A c \in ClaimsIn(start) :
        /\ c \in Made /\ claim[c].task \in Task /\ claim[c].at \in Nat
        /\ start <= claim[c].at /\ claim[c].at < start + Minute
  BY MinuteBounds, TimeTypes DEF ClaimsIn
<1>. HIDE DEF start
<1>2. ASSUME NEW c \in ClaimsIn(start)
      PROVE  claim[c].task \in ClaimedSince(start)
  <2>1. /\ task[claim[c].task].claimed_at # None
        /\ claim[c].at <= task[claim[c].task].claimed_at
    BY <1>1 DEF ClaimInv, HeldBack
  <2>2. task[claim[c].task].claimed_at \in Nat
    BY <1>1, <2>1, TimeTypes DEF TaskRow, MaybeTime
  <2>. QED
    BY <1>1, <2>1, <2>2 DEF ClaimedSince
<1>3. ASSUME NEW c \in ClaimsIn(start), NEW d \in ClaimsIn(start), claim[c].task = claim[d].task
      PROVE  c = d
  <2>1. Minute \in Nat
    BY TimeTypes
  <2>. QED
    BY <1>1, <1>3, <2>1 DEF ClaimInv, ClaimsSpread
<1>4. of \in Injection(ClaimsIn(start), ClaimedSince(start))
  BY <1>2, <1>3 DEF Injection, IsInjective
<1>5. IsFiniteSet(ClaimedSince(start))
  BY TaskAssumption, FS_Subset DEF ClaimedSince
<1>. HIDE DEF of
<1>. QED
  BY <1>4, <1>5, FS_Injection DEF start

\* A claim of an eligible task, within the capacity of its minute.
LEMMA ClaimKeepsBudget ==
  ASSUME LeaseDuration >= Minute, IInv, IInv', ClaimInv, NEW w \in Worker, ClaimTask(w)
  PROVE  ClaimInv'
<1>1. PICK t \in Task, c \in ClaimId :
        /\ Taken(w, t, c)
        /\ worker' = [worker EXCEPT ![w].pc = "reserving", ![w].claim = c]
  BY ClaimTakes
<1>. DEFINE n == worker[w].now
            row == ClaimedRow(t, c, n)
            made == ClaimMade(t, n)
<1>2. /\ worker \in [Worker -> WorkerState] /\ worker[w] \in WorkerState
      /\ task \in [Task -> TaskRow] /\ task[t] \in TaskRow
      /\ claim \in [ClaimId -> ClaimRecord \cup {None}] /\ claim[c] = None
      /\ worker[w].pc = "claiming" /\ UNCHANGED clock /\ TaskCapacity(n)
      /\ n \in Nat /\ t \in Eligible(n) /\ n <= clock
  BY <1>1 DEF IInv, TypeOK, Taken, ClaimTask, ClaimInv, TimesOrdered
<1>3. /\ row.claimed_at = n /\ row.status = "claimed" /\ row.lease_id = c
      /\ row.lease_expires_at = n + LeaseDuration
  BY <1>2 DEF ClaimedRow, TaskRow
<1>4. made.task = t /\ made.at = n /\ made # None
  <2>1. made \in ClaimRecord
    BY <1>1, <1>2 DEF Taken, ClaimMade, ClaimRecord, TaskRow
  <2>2. made # None
    BY <2>1, TaskAssumption
  <2>. QED
    BY <2>2 DEF ClaimMade
<1>5. \A d \in Made : claim[d].task = t => claim[d].at + Minute <= n
  BY <1>2, EligibleRested
<1>6. LeaseDuration \in Nat /\ Minute \in Nat /\ None \notin Nat
  BY TaskAssumption
<1>. HIDE DEF row, made
<1>7. /\ \A d \in ClaimId : claim'[d] = IF d = c THEN made ELSE claim[d]
      /\ \A u \in Task : task'[u] = IF u = t THEN row ELSE task[u]
  BY <1>1, <1>2 DEF Taken, row, made
<1>8. /\ Made' = Made \cup {c} /\ c \notin Made /\ claim'[c] = made
      /\ \A d \in Made : claim'[d] = claim[d] /\ claim[d].task \in Task /\ claim[d].at \in Nat
  BY <1>2, <1>4, <1>7, TimeTypes DEF Made
<1>9. TimesOrdered'
  <2>1. \A d \in Made' : claim'[d].at <= clock'
    BY <1>2, <1>4, <1>8 DEF ClaimInv, TimesOrdered
  <2>2. /\ \A v \in Worker : v # w => worker'[v] = worker[v]
        /\ worker'[w].pc = "reserving" /\ worker'[w].now = n /\ worker'[w].claim = c
        /\ worker'[w].received_at = worker[w].received_at
    BY <1>1, <1>2 DEF WorkerState
  <2>3. \A v \in Worker : worker[v].pc \notin {"idle", "claiming"} => worker[v].claim \in Made
    BY HeldTypes DEF Made
  <2>4. ASSUME NEW v \in Worker
        PROVE  /\ worker'[v].pc # "idle" => worker'[v].now <= clock'
               /\ worker'[v].received_at # None => worker'[v].received_at >= worker'[v].now
               /\ worker'[v].pc \notin {"idle", "claiming"} => worker'[v].now = Held(v)'.at
    <3>1. CASE v = w
      BY <1>2, <1>4, <1>8, <2>2, <3>1 DEF ClaimInv, TimesOrdered, Held
    <3>2. CASE v # w
      BY <1>2, <1>8, <2>2, <2>3, <3>2 DEF ClaimInv, TimesOrdered, Held
    <3>. QED
      BY <3>1, <3>2
  <2>. QED
    BY <2>1, <2>4 DEF TimesOrdered
<1>10. HeldBack'
  <2>1. \A u \in Task : task[u].lease_id # None => task[u].lease_id \in Made
    BY DEF IInv, TypeOK, TaskRow, LeaseOpen, Made
  <2>2. OutOfReach(row)
    BY <1>2, <1>3, <1>6 DEF OutOfReach
  <2>3. \A u \in Task :
          /\ OutOfReach(task'[u])
          /\ task'[u].lease_id # None => claim'[task'[u].lease_id].at = task'[u].claimed_at
    BY <1>3, <1>4, <1>7, <1>8, <2>1, <2>2 DEF ClaimInv, HeldBack
  <2>4. \A d \in Made' : /\ task'[claim'[d].task].claimed_at # None
                         /\ claim'[d].at <= task'[claim'[d].task].claimed_at
    BY <1>2, <1>3, <1>4, <1>5, <1>6, <1>7, <1>8 DEF ClaimInv, HeldBack
  <2>. QED
    BY <2>3, <2>4 DEF HeldBack
<1>11. ClaimsSpread'
  BY <1>4, <1>5, <1>8 DEF ClaimInv, ClaimsSpread
<1>12. MinuteClaims'
  <2>. SUFFICES ASSUME NEW start \in Nat
                PROVE  /\ Cardinality(ClaimsIn(start)') <= TasksPerMinute
                       /\ IsFiniteSet(ClaimsIn(start)')
    BY DEF MinuteClaims
  <2>1. CASE start = MinuteStart(n)
    <3>1. ClaimsIn(start)' \subseteq ClaimsIn(start) \cup {c}
      BY <1>8 DEF ClaimsIn
    <3>2. IsFiniteSet(ClaimsIn(start)) /\ Cardinality(ClaimsIn(start)) < TasksPerMinute
      <4>1. Cardinality(ClaimedSince(start)) < TasksPerMinute
        BY <1>2, <2>1 DEF TaskCapacity
      <4>2. Cardinality(ClaimedSince(start)) \in Nat
        BY TaskAssumption, FS_Subset, FS_CardinalityType DEF ClaimedSince
      <4>3. /\ IsFiniteSet(ClaimsIn(start))
            /\ Cardinality(ClaimsIn(start)) <= Cardinality(ClaimedSince(start))
        BY <1>2, <2>1, ClaimsOfMinute
      <4>. QED
        BY <4>1, <4>2, <4>3, FS_CardinalityType, TaskAssumption
    <3>3. TasksPerMinute \in Nat
      BY TaskAssumption
    <3>4. IsFiniteSet(ClaimsIn(start)')
      BY <3>1, <3>2, FS_AddElement, FS_Subset
    <3>. QED
      BY <3>1, <3>2, <3>3, <3>4, OneMore
  <2>2. CASE start # MinuteStart(n)
    <3>1. ClaimsIn(start)' = ClaimsIn(start)
      BY <1>4, <1>8, <2>2 DEF ClaimsIn
    <3>. QED
      BY <3>1 DEF ClaimInv, MinuteClaims
  <2>. QED
    BY <2>1, <2>2
<1>. QED
  BY <1>9, <1>10, <1>11, <1>12 DEF ClaimInv

LEMMA ClaimStep ==
  ASSUME LeaseDuration >= Minute, IInv, ClaimInv, [Next]_vars
  PROVE  ClaimInv'
<1>1. IInv'
  BY TasksStep
<1>2. CASE Tick \/ Stop \/ Restart \/ UNCHANGED vars \/ \E t \in Task : Nominate(t)
  BY <1>1, <1>2, TimesUntouched
<1>3. ASSUME NEW w \in Worker, WorkerStep(w)
      PROVE  ClaimInv'
  <2>1. CASE \/ BeginRun(w) \/ ClaimNothing(w) \/ Reserve(w) \/ ReserveDenied(w)
             \/ FetchPage(w) \/ FetchFails(w)
             \/ RecordEvidence(w) \/ RejectEvidence(w) \/ Evaluate(w) \/ LoseLease(w)
    BY <1>1, <2>1, TimesUntouched
  <2>2. CASE ClaimTask(w)
    BY <1>1, <2>2, ClaimKeepsBudget
  <2>3. CASE CompleteTask(w) \/ FailTask(w) \/ DeferTask(w)
    BY <1>1, <2>3, EndHoldsBack
  <2>. QED
    BY <1>3, <2>1, <2>2, <2>3 DEF WorkerStep
<1>. QED
  BY <1>2, <1>3 DEF Next

\* Claims and requests stay in the budgets of their minutes when a lease lasts a minute
\* at least: a task is then claimed once a minute at most, so counting tasks by their
\* last claim counts every claim.
THEOREM BudgetsStayKept ==
  ASSUME LeaseDuration >= Minute
  PROVE  Spec => []BudgetsKept
<1>1. ASSUME IInv, ClaimInv, ProviderBudgetKept
      PROVE  BudgetsKept
  <2>1. ASSUME NEW now \in 0 .. clock
        PROVE  Cardinality({c \in Made : MinuteStart(claim[c].at) = MinuteStart(now)})
                 <= TasksPerMinute
    <3>1. now \in Nat
      BY <1>1, TimeTypes
    <3>. QED
      BY <1>1, <3>1, MinuteBounds DEF ClaimInv, MinuteClaims, ClaimsIn
  <2>. QED
    BY <1>1, <2>1 DEF BudgetsKept, TaskBudgetKept
<1>2. IInv /\ ClaimInv /\ [Next]_vars => ClaimInv'
  BY ClaimStep
<1>3. IInv /\ ClaimInv /\ ProviderBudgetKept => BudgetsKept
  BY <1>1
<1>. QED
  BY <1>2, <1>3, TasksInit, TasksStep, ClaimInit, ProviderStaysInBudget, PTL DEF Spec
=============================================================================
