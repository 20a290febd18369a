---------------------------- MODULE PollScheduler ----------------------------
(***************************************************************************)
(* The durable poll scheduler of scheduling/scheduler.py together with the *)
(* workers that drive it (collection/worker.py, collection/polling.py).    *)
(*                                                                         *)
(* PostgreSQL holds one poll_schedules row per admitted token, the batches *)
(* ever claimed and their outcomes; each action below is one transaction,  *)
(* or one step a worker takes between two transactions.  A worker samples  *)
(* the clock before it queues for the exclusive advisory gate, so a claim  *)
(* runs with a time that may lie behind the clock and behind the claims    *)
(* that overtook it in the queue.                                          *)
(***************************************************************************)
EXTENDS CoveragePolicy, FiniteSets

CONSTANTS
  Token,             \* tokens, numbered in the order of their UUIDs
  Worker,            \* the scheduled_observation loops of the process
  Chain,             \* the chain of each token
  Minute, HalfMinute,
  BatchSize, LeaseDuration, MaxInFlight, RequestBudget, ControlTokens,
  Plans,             \* effective intervals a capacity decision may choose
  CoverageDigest,    \* hash behind _coverage_phase_microseconds
  EpochDigest,       \* hash behind _epoch_phase_microseconds
  CandidateTtl, CandidateInterval, MaxActiveCoverage,
  CandidateTokens,   \* tokens whose evidence may earn a candidate overlay
  EvidenceLag,       \* how long a candidate's evidence may wait for its gate
  Moves,             \* lifecycle transitions the market evidence may trigger
  Contended,         \* tokens whose row a boost transaction may hold locked
  InitialState,      \* lifecycle state of each token at time 0, or None
  MaxClock, MaxBatches   \* bounds of the model

VARIABLES
  clock,       \* wall-clock time
  running,     \* whether a collector process is up
  schedule,    \* poll_schedules without its lease columns; None: no row
  candidate,   \* candidate_current_state of the running epoch
  lease,       \* lease_id and lease_expires_at of every row
  poll_batch,  \* poll_batches with their poll_batch_members
  outcome,     \* completed_at of poll_batch_outcomes; None: no outcome
  worker       \* what every worker holds in memory

store == <<schedule, candidate, lease, poll_batch, outcome>>   \* PostgreSQL
vars == <<clock, running, store, worker>>

BatchId == 1 .. MaxBatches
NoLease == [id |-> None, expires_at |-> None]
NoCandidate == [promoted |-> FALSE, watermark |-> None, coverage_expires_at |-> None]
IdleWorker == [pc |-> "idle", now |-> None, batch |-> None]

\* The edges of lifecycle/policy.py; RESURRECTED is terminal.
LifecycleEdges ==
  {<<"NEW", "ACTIVE">>, <<"NEW", "WATCH">>, <<"ACTIVE", "FADING">>,
   <<"WATCH", "FADING">>, <<"FADING", "DORMANT">>, <<"DORMANT", "RESURRECTED">>}

ASSUME SchedulerAssumption ==
  /\ Token \subseteq Nat /\ IsFiniteSet(Token) /\ IsFiniteSet(Worker)
  /\ {Minute, HalfMinute, BatchSize, LeaseDuration, MaxInFlight, RequestBudget,
      ControlTokens, CandidateTtl, CandidateInterval} \subseteq Nat \ {0}
  /\ HalfMinute < Minute
  /\ {MaxActiveCoverage, EvidenceLag, MaxClock, MaxBatches} \subseteq Nat
  /\ Plans # {}
  /\ \A plan \in Plans :
       /\ plan \in [OrdinaryClass -> Nat \ {0}]
       /\ \A c \in OrdinaryClass : Intervals[c] <= plan[c]
  /\ CoverageDigest \in [Token -> Nat] /\ EpochDigest \in [Token -> Nat]
  /\ CandidateTokens \subseteq Token /\ Contended \subseteq Token
  /\ Moves \subseteq LifecycleEdges
  /\ InitialState \in [Token -> LifecycleState \cup {None}]

Row ==
  [lifecycle_state : LifecycleState, state_decided_at : Nat, admitted_at : Nat,
   coverage_class : CoverageClass, coverage_next_transition_at : MaybeTime,
   priority : Nat, next_due_at : MaybeTime,
   candidate_coverage_expires_at : MaybeTime, attempt_count : Nat,
   last_control_scan_at : MaybeTime, control_scan_count : Nat]

\* promoted stands for every tier above TIER_0_UNIVERSAL.
Candidate ==
  [promoted : BOOLEAN, watermark : MaybeTime, coverage_expires_at : MaybeTime]

Lease == [id : BatchId \cup {None}, expires_at : MaybeTime]

Batch ==
  [kind : {"ordinary", "retired_control"}, claimed_at : Nat,
   lease_expires_at : Nat, control_window : MaybeTime, plan : Plans,
   members : SUBSET Token, due_at : [Token -> MaybeTime],
   previous : [Token -> BatchId \cup {None}]]

\* NULL is neither a row, a batch nor a set of members.
ASSUME NullAssumption ==
  /\ None \notin Row /\ None \notin Batch
  /\ \A tokens \in SUBSET Token : tokens # None

WorkerState ==
  [pc : {"idle", "claiming", "polling", "received"}, now : MaybeTime,
   batch : BatchId \cup {None}]

\* Every variable has its type: the rows of poll_schedules, poll_batches,
\* poll_batch_members and poll_batch_outcomes satisfy their column types.
TypeOK ==
  /\ clock \in Nat
  /\ running \in BOOLEAN
  /\ schedule \in [Token -> Row \cup {None}]
  /\ candidate \in [Token -> Candidate]
  /\ lease \in [Token -> Lease]
  /\ poll_batch \in [BatchId -> Batch \cup {None}]
  /\ outcome \in [BatchId -> MaybeTime]
  /\ worker \in [Worker -> WorkerState]
-----------------------------------------------------------------------------
(* One row of the projection.                                              *)

Earliest(s, t) == IF s = None THEN t ELSE IF t = None \/ s <= t THEN s ELSE t
Smaller(m, n) == IF m <= n THEN m ELSE n

HasRow(t) == schedule[t] # None

OverlayActive(row, now) ==
  /\ row.candidate_coverage_expires_at # None
  /\ now < row.candidate_coverage_expires_at
OverlayExpired(row, now) ==
  /\ row.candidate_coverage_expires_at # None
  /\ row.candidate_coverage_expires_at <= now
OverlayEnd(row, now) ==
  IF OverlayActive(row, now) THEN row.candidate_coverage_expires_at ELSE None

ClassAt(row, now) ==
  CoverageClassFor(row.lifecycle_state, row.admitted_at, row.state_decided_at, now)
BoundaryAt(row, now) ==
  NextTransitionAt(row.lifecycle_state, row.admitted_at, row.state_decided_at, now)
TransitionAt(row, now) == Earliest(BoundaryAt(row, now), OverlayEnd(row, now))
PriorityAt(row, now) ==
  IF OverlayActive(row, now) THEN Smaller(Priorities[ClassAt(row, now)], 1)
                             ELSE Priorities[ClassAt(row, now)]

DueAfter(class, now, delay) ==
  IF class = "RETIRED_CONTROL" THEN None ELSE now + delay[class]

CoveragePhase(t) == [c \in OrdinaryClass |-> CoverageDigest[t] % Intervals[c]]

\* _refresh_one_coverage: a row whose class, boundary and overlay are current
\* is left alone; otherwise the class is derived anew, an obligation already
\* due stays due and any other due time is drawn from the new class's phase.

\* Mutation of RefreshCoverage: every boundary draws a new due time.
RefreshCoverageRephased(t, row, now) ==
  IF row.coverage_class = ClassAt(row, now) THEN row
  ELSE [row EXCEPT
         !.coverage_class = ClassAt(row, now),
         !.coverage_next_transition_at = TransitionAt(row, now),
         !.next_due_at = DueAfter(ClassAt(row, now), now, CoveragePhase(t))]
RefreshCoverage(t, row, now) ==
  LET class == ClassAt(row, now)
      phased == DueAfter(class, now, CoveragePhase(t))
  IN  IF /\ row.coverage_class = class
         /\ ~OverlayExpired(row, now)
         /\ row.coverage_next_transition_at = TransitionAt(row, now)
      THEN row
      ELSE [row EXCEPT
             !.candidate_coverage_expires_at =
                IF OverlayExpired(row, now) THEN None ELSE @,
             !.coverage_class = class,
             !.coverage_next_transition_at = TransitionAt(row, now),
             !.priority = PriorityAt(row, now),
             !.next_due_at =
                IF class # "RETIRED_CONTROL" /\ @ # None /\ @ <= now
                THEN @ ELSE phased]

\* set_lifecycle_state_in_session for a token without a row.
AdmittedRow(state, now, plan) ==
  LET class == CoverageClassFor(state, now, now, now)
  IN  [lifecycle_state |-> state, state_decided_at |-> now, admitted_at |-> now,
       coverage_class |-> class,
       coverage_next_transition_at |-> NextTransitionAt(state, now, now, now),
       priority |-> Priorities[class], next_due_at |-> DueAfter(class, now, plan),
       candidate_coverage_expires_at |-> None, attempt_count |-> 0,
       last_control_scan_at |-> None, control_scan_count |-> 0]

\* set_lifecycle_state_in_session for a row in another state; a decision
\* older than the last one changes nothing, one as old raises ValueError.
MovedRow(row, state, now, plan) ==
  LET class == CoverageClassFor(state, row.admitted_at, now, now)
  IN  IF now < row.state_decided_at THEN row
      ELSE [row EXCEPT
             !.lifecycle_state = state, !.state_decided_at = now,
             !.coverage_class = class,
             !.coverage_next_transition_at =
                NextTransitionAt(state, row.admitted_at, now, now),
             !.priority = Priorities[class],
             !.next_due_at = DueAfter(class, now, plan)]

\* CandidateRepository.apply_evaluation granting a finite coverage overlay.

\* Mutation of PromotedRow: the end of the overlay hides an earlier boundary.
PromotedRowHidingBoundary(row, at) ==
  [row EXCEPT
    !.candidate_coverage_expires_at = at + CandidateTtl,
    !.coverage_next_transition_at = at + CandidateTtl,
    !.priority = Smaller(@, 1),
    !.next_due_at = IF row.coverage_class = "RETIRED_CONTROL" THEN None
                    ELSE Earliest(@, at + CandidateInterval)]
PromotedRow(row, at) ==
  [row EXCEPT
    !.candidate_coverage_expires_at = at + CandidateTtl,
    !.coverage_next_transition_at = Earliest(@, at + CandidateTtl),
    !.priority = Smaller(@, 1),
    !.next_due_at = IF row.coverage_class = "RETIRED_CONTROL" THEN None
                    ELSE Earliest(@, at + CandidateInterval)]

\* CandidateRepository.apply_evaluation ending an overlay: the boundary "at"
\* asks the next claim to refresh the row.
WithdrawnRow(row, at) ==
  [row EXCEPT !.candidate_coverage_expires_at = None,
              !.coverage_next_transition_at = at]

\* The member loop of complete_batch_in_session.
CompletedRow(row, b, now) ==
  LET delay == [c \in OrdinaryClass |->
                  IF OverlayActive(row, now)
                  THEN Smaller(poll_batch[b].plan[c], CandidateInterval)
                  ELSE poll_batch[b].plan[c]]
      control == poll_batch[b].kind = "retired_control"
  IN  [row EXCEPT
        !.candidate_coverage_expires_at = OverlayEnd(row, now),
        !.coverage_class = ClassAt(row, now),
        !.coverage_next_transition_at = TransitionAt(row, now),
        !.priority = PriorityAt(row, now),
        !.next_due_at = DueAfter(ClassAt(row, now), now, delay),
        !.attempt_count = @ + 1,
        !.last_control_scan_at = IF control THEN now ELSE @,
        !.control_scan_count = IF control THEN @ + 1 ELSE @]
-----------------------------------------------------------------------------
Init ==
  /\ clock = 0
  /\ running = TRUE
  /\ \E plan \in Plans :
       schedule = [t \in Token |-> IF InitialState[t] = None THEN None
                                   ELSE AdmittedRow(InitialState[t], 0, plan)]
  /\ candidate = [t \in Token |-> NoCandidate]
  /\ lease = [t \in Token |-> NoLease]
  /\ poll_batch = [b \in BatchId |-> None]
  /\ outcome = [b \in BatchId |-> None]
  /\ worker = [w \in Worker |-> IdleWorker]

Tick ==
  /\ clock < MaxClock
  /\ clock' = clock + 1
  /\ UNCHANGED <<running, store, worker>>
-----------------------------------------------------------------------------
(* claim_next_batch.                                                       *)

\* The time is sampled before the transaction opens and queues for the gate.
BeginClaim(w) ==
  /\ running
  /\ worker[w].pc = "idle"
  /\ worker' = [worker EXCEPT ![w] = [IdleWorker EXCEPT !.pc = "claiming", !.now = clock]]
  /\ UNCHANGED <<clock, running, store>>

Claimed == {b \in BatchId : poll_batch[b] # None}
Open == {b \in Claimed : outcome[b] = None}

\* The rows _advance_coverage_transitions refreshes; it skips those another
\* transaction holds.
AtBoundary(now, skipped) ==
  {t \in Token \ skipped :
     /\ HasRow(t)
     /\ schedule[t].coverage_next_transition_at # None
     /\ schedule[t].coverage_next_transition_at <= now}

Advance(now, skipped) ==
  [t \in Token |-> IF t \in AtBoundary(now, skipped)
                   THEN RefreshCoverage(t, schedule[t], now) ELSE schedule[t]]

\* coverage_class_for raises ValueError for any other row.
CoverageDefined(row, at) ==
  /\ row.admitted_at <= at
  /\ row.lifecycle_state = "FADING" => row.state_decided_at <= at

InFlight(now) == {b \in Open : now < poll_batch[b].lease_expires_at}
ReservedInMinute(now) ==
  {b \in Claimed : /\ now < poll_batch[b].claimed_at + Minute
                   /\ poll_batch[b].claimed_at <= now}
\* Mutation of HasBatchCapacity: both limits are off by one.
HasBatchCapacityOffByOne(now) ==
  /\ Cardinality(InFlight(now)) <= MaxInFlight
  /\ Cardinality(ReservedInMinute(now)) <= RequestBudget
HasBatchCapacity(now) ==
  /\ Cardinality(InFlight(now)) < MaxInFlight
  /\ Cardinality(ReservedInMinute(now)) + 1 <= RequestBudget

Window(now) == now - (now % Minute)
ControlClaimed(now) ==
  \E b \in Claimed : poll_batch[b].control_window = Window(now)

\* Mutation of Unleased: a lease is reclaimable one unit early.
UnleasedEarly(t, now) == lease[t].id = None \/ lease[t].expires_at <= now + 1
Unleased(t, now) == lease[t].id = None \/ lease[t].expires_at <= now

OrdinaryEligible(rows, now) ==
  {t \in Token : /\ rows[t] # None
                 /\ rows[t].coverage_class # "RETIRED_CONTROL"
                 /\ rows[t].next_due_at # None
                 /\ rows[t].next_due_at <= now
                 /\ Unleased(t, now)}
ControlEligible(rows, now) ==
  {t \in Token : /\ rows[t] # None
                 /\ rows[t].coverage_class = "RETIRED_CONTROL"
                 /\ Unleased(t, now)}

\* ORDER BY priority, next_due_at, token_id
OrdinaryBefore(r, s, t, u) ==
  \/ r.priority < s.priority
  \/ r.priority = s.priority /\ r.next_due_at < s.next_due_at
  \/ r.priority = s.priority /\ r.next_due_at = s.next_due_at /\ t < u
OrdinaryOrder(rows, selection) ==
  {p \in selection \X selection :
     OrdinaryBefore(rows[p[1]], rows[p[2]], p[1], p[2])}

\* ORDER BY last_control_scan_at NULLS FIRST, admitted_at, token_id
ScanTime(row) == IF row.last_control_scan_at = None THEN -1 ELSE row.last_control_scan_at
\* Mutation of ControlBefore: the rotation forgets when a token was scanned.
ControlBeforeByAge(r, s, t, u) ==
  r.admitted_at < s.admitted_at \/ (r.admitted_at = s.admitted_at /\ t < u)
ControlBefore(r, s, t, u) ==
  \/ ScanTime(r) < ScanTime(s)
  \/ ScanTime(r) = ScanTime(s) /\ r.admitted_at < s.admitted_at
  \/ ScanTime(r) = ScanTime(s) /\ r.admitted_at = s.admitted_at /\ t < u
ControlOrder(rows, selection) ==
  {p \in selection \X selection :
     ControlBefore(rows[p[1]], rows[p[2]], p[1], p[2])}

\* The first row not held gives the chain; the batch is the first n rows of
\* that chain that are not taken by then.
HeadBatch(selection, held, taken, order, n) ==
  LET head == CHOOSE t \in selection \ held :
                \A u \in selection \ held : u = t \/ <<t, u>> \in order
      same == {t \in selection : (t \in taken => t = head) /\ Chain[t] = Chain[head]}
  IN  {t \in same : Cardinality({u \in same : <<u, t>> \in order}) < n}

\* The control batch is preferred in the second half of a window without one,
\* and is the fallback when no ordinary row is due.
ClaimsControl(now, control, ordinary) ==
  /\ ~ControlClaimed(now)
  /\ control # {}
  /\ (ordinary = {} \/ now >= Window(now) + HalfMinute)

\* Mutation of LeaseEnd: the lease is subtracted.
LeaseEndReversed(now) == now - LeaseDuration
LeaseEnd(now) == now + LeaseDuration

\* Mutation of MemberDue: a claim restarts the lateness of its members.
MemberDueRestarted(row, kind, now) == now
MemberDue(row, kind, now) == IF kind = "ordinary" THEN row.next_due_at ELSE now

\* The statements that create PollBatch and its members and lease the rows.
LeaseBatch(w, rows, now, kind, members) ==
  \E b \in BatchId, plan \in Plans :
    /\ poll_batch[b] = None
    /\ \A c \in BatchId : c < b => poll_batch[c] # None
    /\ poll_batch' = [poll_batch EXCEPT ![b] =
         [kind |-> kind, claimed_at |-> now,
          lease_expires_at |-> LeaseEnd(now),
          control_window |-> IF kind = "retired_control" THEN Window(now) ELSE None,
          plan |-> plan, members |-> members,
          due_at |-> [t \in Token |->
             IF t \in members THEN MemberDue(rows[t], kind, now) ELSE None],
          previous |-> [t \in Token |->
             IF t \in members THEN lease[t].id ELSE None]]]
    /\ lease' = [t \in Token |->
         IF t \in members THEN [id |-> b, expires_at |-> LeaseEnd(now)]
                          ELSE lease[t]]
    /\ schedule' = [t \in Token |->
         IF t \in members /\ kind = "ordinary"
         THEN [rows[t] EXCEPT !.priority = Priorities[rows[t].coverage_class]]
         ELSE rows[t]]
    /\ worker' = [worker EXCEPT ![w] = [pc |-> "polling", now |-> None, batch |-> b]]

\* skipped, held and taken are the rows another transaction has locked while
\* this one advances coverage, selects the head and selects the batch.
Claim(w) ==
  /\ running
  /\ worker[w].pc = "claiming"
  /\ \E skipped \in SUBSET Contended, held \in SUBSET Contended,
        taken \in SUBSET Contended :
       LET now == worker[w].now
           rows == Advance(now, skipped)
           ordinary == OrdinaryEligible(rows, now)
           control == ControlEligible(rows, now)
           claims_control == ClaimsControl(now, control \ held, ordinary \ held)
       IN  /\ \A t \in AtBoundary(now, skipped) : CoverageDefined(schedule[t], now)
           /\ HasBatchCapacity(now)
           /\ \/ /\ claims_control
                 /\ LeaseBatch(w, rows, now, "retired_control",
                      HeadBatch(control, held, taken, ControlOrder(rows, control),
                                ControlTokens))
              \/ /\ ~claims_control
                 /\ ordinary \ held # {}
                 /\ LeaseBatch(w, rows, now, "ordinary",
                      HeadBatch(ordinary, held, taken, OrdinaryOrder(rows, ordinary),
                                BatchSize))
  /\ UNCHANGED <<clock, running, candidate, outcome>>

\* claim_next_batch returns None; the coverage it advanced is committed.
ClaimNothing(w) ==
  /\ running
  /\ worker[w].pc = "claiming"
  /\ \E skipped \in SUBSET Contended, held \in SUBSET Contended :
       LET now == worker[w].now
           rows == Advance(now, skipped)
           ordinary == OrdinaryEligible(rows, now) \ held
           control == ControlEligible(rows, now) \ held
       IN  /\ \A t \in AtBoundary(now, skipped) : CoverageDefined(schedule[t], now)
           /\ \/ ~HasBatchCapacity(now)
              \/ ordinary = {} /\ ~ClaimsControl(now, control, ordinary)
           /\ schedule' = rows
  /\ worker' = [worker EXCEPT ![w] = IdleWorker]
  /\ UNCHANGED <<clock, running, candidate, lease, poll_batch, outcome>>

\* An error no loop expects: the transaction rolls back and the task group
\* cancels every component of the collector.
Collapse ==
  /\ running' = FALSE
  /\ worker' = [w \in Worker |-> IdleWorker]

\* A boundary lies behind the claim's time, the decision it follows does not.
ClaimRaises(w) ==
  /\ running
  /\ worker[w].pc = "claiming"
  /\ \E skipped \in SUBSET Contended :
       \E t \in AtBoundary(worker[w].now, skipped) :
         ~CoverageDefined(schedule[t], worker[w].now)
  /\ Collapse
  /\ UNCHANGED <<clock, store>>
-----------------------------------------------------------------------------
(* ScheduledObservationWorkflow.execute.                                   *)

\* The HTTP exchange ends, with a response or with an error; no transaction is
\* open meanwhile, so the lease may expire or be reclaimed.
Receive(w) ==
  /\ running
  /\ worker[w].pc = "polling"
  /\ worker' = [worker EXCEPT ![w].pc = "received", ![w].now = clock]
  /\ UNCHANGED <<clock, running, store>>

\* Mutation of OwnsBatch: one member still leased is enough, expiry ignored.
OwnsSomeMember(b) == \E t \in poll_batch[b].members : lease[t].id = b
OwnsBatch(b) ==
  /\ clock < poll_batch[b].lease_expires_at
  /\ \A t \in poll_batch[b].members : lease[t].id = b

\* Lifecycle evaluation of the observed members: new[t] is the state the
\* evidence received at the given time asks for.
LifecycleMoves(b, received) ==
  {new \in [poll_batch[b].members -> LifecycleState] :
     \A t \in poll_batch[b].members : new[t] # schedule[t].lifecycle_state =>
       /\ <<schedule[t].lifecycle_state, new[t]>> \in Moves
       /\ schedule[t].state_decided_at <= received
       /\ schedule[t].state_decided_at # clock}

LifecycleRows(new, plan) ==
  [t \in Token |-> IF t \in DOMAIN new /\ new[t] # schedule[t].lifecycle_state
                   THEN MovedRow(schedule[t], new[t], clock, plan) ELSE schedule[t]]

\* apply_evaluation ignores evidence older than the evidence it last acted on.
Promotable(at) ==
  {t \in CandidateTokens :
     candidate[t].watermark = None \/ candidate[t].watermark <= at}
\* Equal evidence cannot demote, and neither can any while coverage lasts.
Returnable(at) ==
  {t \in CandidateTokens :
     /\ candidate[t].promoted
     /\ candidate[t].watermark < at
     /\ \/ candidate[t].coverage_expires_at = None
        \/ candidate[t].coverage_expires_at <= at}

\* Promotions are evaluated in token order; one that is not a renewal needs a
\* free slot of the global coverage budget.
CoverageAdmitted(rows, promoted, at) ==
  LET active == {t \in Token : rows[t] # None /\ OverlayActive(rows[t], at)}
      fresh == promoted \ active
  IN  {t \in promoted : t \in active \/
         Cardinality(active) + Cardinality({u \in fresh : u < t}) < MaxActiveCoverage}

CandidateRows(rows, promoted, returned, at) ==
  LET admitted == CoverageAdmitted(rows, promoted, at)
  IN  [t \in Token |->
         IF t \in admitted THEN PromotedRow(rows[t], at)
         ELSE IF t \in returned \/ (t \in promoted /\ OverlayExpired(rows[t], at))
         THEN WithdrawnRow(rows[t], at)
         ELSE rows[t]]

CandidateState(rows, promoted, returned, at) ==
  LET admitted == CoverageAdmitted(rows, promoted, at)
  IN  [t \in Token |->
         IF t \in promoted \cup returned
         THEN [promoted |-> t \in promoted, watermark |-> at,
               coverage_expires_at |-> IF t \in admitted THEN at + CandidateTtl ELSE None]
         ELSE candidate[t]]

\* Mutation of FinishBatch: the completed batch stays on its rows.
FinishBatchKeepingLease(b, rows) ==
  /\ outcome' = [outcome EXCEPT ![b] = clock]
  /\ schedule' = [t \in Token |-> IF t \in poll_batch[b].members
                                  THEN CompletedRow(rows[t], b, clock) ELSE rows[t]]
  /\ lease' = lease
FinishBatch(b, rows) ==
  LET members == poll_batch[b].members
  IN  /\ outcome' = [outcome EXCEPT ![b] = clock]
      /\ schedule' = [t \in Token |-> IF t \in members
                                      THEN CompletedRow(rows[t], b, clock) ELSE rows[t]]
      /\ lease' = [t \in Token |-> IF t \in members THEN NoLease ELSE lease[t]]

\* One transaction: facts, lifecycle, candidates, completion.  A failed fetch
\* takes it with no lifecycle or candidate change.
Complete(w) ==
  LET b == worker[w].batch
      received == worker[w].now
  IN  /\ running
      /\ worker[w].pc = "received"
      /\ OwnsBatch(b)
      /\ \E new \in LifecycleMoves(b, received), plan \in Plans,
            promoted \in SUBSET (poll_batch[b].members \cap Promotable(received)),
            returned \in SUBSET (poll_batch[b].members \cap Returnable(received)) :
           LET rows == LifecycleRows(new, plan)
           IN  /\ promoted \cap returned = {}
               /\ FinishBatch(b, CandidateRows(rows, promoted, returned, received))
               /\ candidate' = CandidateState(rows, promoted, returned, received)
      /\ worker' = [worker EXCEPT ![w] = IdleWorker]
      /\ UNCHANGED <<clock, running, poll_batch>>

\* Lifecycle or candidate evaluation raises: its savepoint rolls back, the
\* batch completes as partial, and the error is raised after the commit.
CompleteAndFail(w) ==
  LET b == worker[w].batch
  IN  /\ running
      /\ worker[w].pc = "received"
      /\ OwnsBatch(b)
      /\ \E new \in LifecycleMoves(b, worker[w].now), plan \in Plans :
           FinishBatch(b, LifecycleRows(new, plan))
      /\ Collapse
      /\ UNCHANGED <<clock, candidate, poll_batch>>

\* complete_batch_in_session raises LostPollLeaseError.
LoseLease(w) ==
  /\ running
  /\ worker[w].pc = "received"
  /\ ~OwnsBatch(worker[w].batch)
  /\ Collapse
  /\ UNCHANGED <<clock, store>>
-----------------------------------------------------------------------------
(* The other writers of poll_schedules.                                    *)

\* DEX availability admits a token as NEW.
Admit(t) ==
  /\ running
  /\ ~HasRow(t)
  /\ \E plan \in Plans :
       schedule' = [schedule EXCEPT ![t] = AdmittedRow("NEW", clock, plan)]
  /\ UNCHANGED <<clock, running, candidate, lease, poll_batch, outcome, worker>>

\* set_lifecycle_state with the state the token already has.
ReapplyState(t) ==
  /\ running
  /\ HasRow(t)
  /\ schedule' = [schedule EXCEPT ![t] = RefreshCoverage(t, @, clock)]
  /\ UNCHANGED <<clock, running, candidate, lease, poll_batch, outcome, worker>>

\* A boost wake-up or a security result re-evaluates one candidate in a
\* transaction of its own, as of the time the evidence was received.
WakeCandidate(t) ==
  /\ running
  /\ t \in CandidateTokens
  /\ HasRow(t)
  /\ \E at \in {at \in schedule[t].admitted_at .. clock : clock <= at + EvidenceLag} :
     \E promoted \in SUBSET ({t} \cap Promotable(at)),
        returned \in SUBSET ({t} \cap Returnable(at)) :
       /\ promoted \cap returned = {}
       /\ schedule' = CandidateRows(schedule, promoted, returned, at)
       /\ candidate' = CandidateState(schedule, promoted, returned, at)
  /\ UNCHANGED <<clock, running, lease, poll_batch, outcome, worker>>
-----------------------------------------------------------------------------
(* The process.                                                            *)

\* The process dies or is stopped; memory is lost, the database is not.
Stop ==
  /\ running
  /\ Collapse
  /\ UNCHANGED <<clock, store>>

\* A restart inside a running epoch reads the projection as it is.
Restart ==
  /\ ~running
  /\ running' = TRUE
  /\ UNCHANGED <<clock, store, worker>>

\* initialize_epoch_in_session: the first start of a planned epoch derives all
\* coverage again, spreads the due times and clears every lease.
EpochDue(t, class, plan) ==
  DueAfter(class, clock, [c \in OrdinaryClass |-> EpochDigest[t] % plan[c]])

\* Mutation of RebasedRow: the epoch starts the history of the row afresh.
RebasedRowAfresh(t, row, plan) ==
  [AdmittedRow(row.lifecycle_state, clock, plan) EXCEPT
     !.candidate_coverage_expires_at = row.candidate_coverage_expires_at]
RebasedRow(t, row, plan) ==
  LET class == ClassAt(row, clock)
  IN  [row EXCEPT
        !.coverage_class = class,
        !.coverage_next_transition_at = BoundaryAt(row, clock),
        !.priority = Priorities[class],
        !.next_due_at = EpochDue(t, class, plan)]

StartEpoch ==
  /\ ~running
  /\ running' = TRUE
  /\ \E plan \in Plans :
       schedule' = [t \in Token |-> IF HasRow(t) THEN RebasedRow(t, schedule[t], plan)
                                                 ELSE None]
  /\ candidate' = [t \in Token |-> NoCandidate]
  /\ lease' = [t \in Token |-> NoLease]
  /\ UNCHANGED <<clock, poll_batch, outcome, worker>>
-----------------------------------------------------------------------------
WorkerStep(w) ==
  \/ BeginClaim(w) \/ Claim(w) \/ ClaimNothing(w) \/ ClaimRaises(w)
  \/ Receive(w) \/ Complete(w) \/ CompleteAndFail(w) \/ LoseLease(w)

TokenStep(t) == Admit(t) \/ ReapplyState(t) \/ WakeCandidate(t)

Next ==
  \/ Tick \/ Stop \/ Restart \/ StartEpoch
  \/ \E w \in Worker : WorkerStep(w)
  \/ \E t \in Token : TokenStep(t)

Spec == Init /\ [][Next]_vars
-----------------------------------------------------------------------------
(* Leases.                                                                 *)

\* The lease columns of a row always name a batch that has the token among its
\* members, that carries the same expiry and that has no outcome yet.
LeaseMatchesOpenBatch ==
  \A t \in Token : LET b == lease[t].id IN
    /\ b = None => lease[t].expires_at = None
    /\ b # None => /\ b \in Open
                   /\ t \in poll_batch[b].members
                   /\ lease[t].expires_at = poll_batch[b].lease_expires_at

\* A batch that lost one of its tokens to a later claim never gets an outcome:
\* its worker is rejected when it comes back with the answer.
ReclaimedNeverCompletes ==
  \A c \in Claimed : \A t \in poll_batch[c].members :
    poll_batch[c].previous[t] # None => outcome[poll_batch[c].previous[t]] = None

\* attempt_count and control_scan_count of a row count the completed batches
\* (the completed control batches) of the token, each exactly once.
CompletionsCountedOnce ==
  \A t \in Token : HasRow(t) =>
    LET done == {b \in Claimed \ Open : t \in poll_batch[b].members}
    IN  /\ schedule[t].attempt_count = Cardinality(done)
        /\ schedule[t].control_scan_count =
             Cardinality({b \in done : poll_batch[b].kind = "retired_control"})

\* The scheduler implements LeasedWork: whatever workers, crashes and epochs do,
\* a batch finishes once and only while the lease columns still name it.
Work == INSTANCE LeasedWork WITH
  Job <- BatchId,
  work <- [b \in BatchId |-> IF poll_batch[b] = None THEN None ELSE poll_batch[b].members],
  owner <- [t \in Token |-> lease[t].id],
  done <- {b \in BatchId : outcome[b] # None}
ImplementsLeasedWork == Work!Spec

\* Two workers never poll one token under leases that are both still valid.
Polling(w) == worker[w].pc \in {"polling", "received"}
OnePollerPerToken ==
  \A v, w \in Worker : v # w /\ Polling(v) /\ Polling(w) =>
    LET b == worker[v].batch  c == worker[w].batch
    IN  \/ poll_batch[b].lease_expires_at <= clock
        \/ poll_batch[c].lease_expires_at <= clock
        \/ poll_batch[b].members \cap poll_batch[c].members = {}

\* scheduler_max_in_flight_batches bounds the outstanding leased batches, also
\* across crashes, restarts and new epochs.
InFlightBounded == Cardinality(InFlight(clock)) <= MaxInFlight

\* Late work keeps its original due time: an ordinary batch that reclaims a token from an
\* abandoned ordinary batch is due when that one was.  A row with an overlay may become due
\* earlier in between, and one a claim skipped, because another transaction held it, may
\* meet its boundary in a claim with an older time and be given a new due time.
OriginalDueKept ==
  \A c \in Claimed : \A t \in poll_batch[c].members \ (Contended \cup CandidateTokens) :
    LET b == poll_batch[c].previous[t]
    IN  b # None /\ poll_batch[b].kind = "ordinary" /\ poll_batch[c].kind = "ordinary"
          => poll_batch[c].due_at[t] = poll_batch[b].due_at[t]

\* However often a poll is abandoned and reclaimed, it is accounted for once, with the due
\* time it had at first.
PollsAccounted == CompletionsCountedOnce /\ OriginalDueKept

\* The batches of any trailing minute exceed the request budget by less than
\* the number of workers: a claim that slept behind the gate counts only the
\* reservations that are not later than its own time.
BudgetOvershootBounded ==
  \A now \in 0 .. clock :
    Cardinality(ReservedInMinute(now)) < RequestBudget + Cardinality(Worker)

\* Both limits the gate guards, for claims that slept behind it as well.
BudgetsBounded == InFlightBounded /\ BudgetOvershootBounded

\* docs/scheduler.md: claims are serialized, so workers cannot collectively
\* overshoot the rolling request budget.
BudgetNeverOvershot ==
  \A now \in 0 .. clock : Cardinality(ReservedInMinute(now)) <= RequestBudget
-----------------------------------------------------------------------------
(* Coverage.                                                               *)

\* A retired row waits for the control rotation, every other row for its due
\* time: no writer leaves a token out of both queues or in both.
EveryTokenScheduled ==
  \A t \in Token : HasRow(t) =>
    (schedule[t].coverage_class = "RETIRED_CONTROL" <=> schedule[t].next_due_at = None)

\* The boundary at which a row's class ends is in coverage_next_transition_at,
\* or the row is refreshed even before it: no row outlives its class.
BoundaryNeverMissed ==
  \A t \in Token : HasRow(t) =>
    LET row == schedule[t]
        end == BoundaryOf(row.coverage_class, row.admitted_at, row.state_decided_at)
    IN  end # None =>
          /\ row.coverage_next_transition_at # None
          /\ \/ row.coverage_next_transition_at <= end
             \/ row.coverage_next_transition_at <= clock

\* Whatever writers a row goes through, something will make it move: its due time or the
\* control rotation, and the end of its class.
RowsKeepTheirEvents == EveryTokenScheduled /\ BoundaryNeverMissed

\* While a token without overlays keeps its lifecycle state its coverage only cools: no
\* claim with an old time, no reapplied state and no new epoch makes it younger again.  A
\* withdrawn overlay asks for a refresh at the time of its evidence, and a claim that
\* waited behind the gate may answer with a time before that of the last refresh.
CoverageNeverRejuvenates ==
  [][\A t \in Token \ CandidateTokens :
       /\ HasRow(t)
       /\ schedule'[t].lifecycle_state = schedule[t].lifecycle_state
       => Priorities[schedule[t].coverage_class]
            <= Priorities[schedule'[t].coverage_class]]_vars

\* A due boundary never lies before the decision it must be evaluated against,
\* so a claim can always derive the class of the rows it refreshes.
ClaimCoverageDefined ==
  \A w \in Worker : worker[w].pc = "claiming" =>
    \A t \in AtBoundary(worker[w].now, {}) : CoverageDefined(schedule[t], worker[w].now)

\* The finite candidate overlays never exceed their global budget.
CoverageBudgetKept ==
  Cardinality({t \in Token : HasRow(t) /\ OverlayActive(schedule[t], clock)})
    <= MaxActiveCoverage

\* The time a step works with: a claim's own time, otherwise the clock.
StepTime ==
  IF \E w \in Worker : worker[w].pc = "claiming" /\ worker'[w].pc # "claiming"
  THEN worker[CHOOSE w \in Worker :
                worker[w].pc = "claiming" /\ worker'[w].pc # "claiming"].now
  ELSE clock

\* No batch of the token completes and no epoch starts in this step.
Undisturbed(t) ==
  /\ HasRow(t)
  /\ \A b \in Open : t \in poll_batch[b].members => outcome'[b] = None
  /\ ~(~running /\ running' /\ schedule # schedule')

\* An obligation that is due stays due, and no later than it was, until the token is
\* polled or retires: no boundary, overlay or reapplied state postpones it.
DueObligationKept ==
  [][\A t \in Token :
       /\ Undisturbed(t)
       /\ schedule[t].next_due_at # None
       /\ schedule[t].next_due_at <= StepTime
       /\ schedule'[t].coverage_class # "RETIRED_CONTROL"
       => /\ schedule'[t].next_due_at # None
          /\ schedule'[t].next_due_at <= schedule[t].next_due_at]_vars

\* The control rotation passes over no DORMANT token: when a token scanned by b
\* is claimed again by c, every other one of its chain (whose row no boost
\* transaction can hold) was scanned since or is under a lease.
ControlRotationFair ==
  LET control == {b \in Claimed : poll_batch[b].kind = "retired_control"}
      waiting(c, t) ==
        {u \in Token \ Contended :
           /\ HasRow(u) /\ Chain[u] = Chain[t]
           /\ schedule[u].lifecycle_state = "DORMANT"
           /\ schedule[u].state_decided_at < poll_batch[c].claimed_at}
  IN  \A b, c \in control : b < c /\ outcome[b] # None =>
        \A t \in poll_batch[b].members \cap poll_batch[c].members :
          \A u \in waiting(c, t) :
            \E d \in control :
              /\ u \in poll_batch[d].members
              /\ \/ outcome[d] # None /\ outcome[d] >= outcome[b]
                 \/ poll_batch[c].claimed_at < poll_batch[d].lease_expires_at
=============================================================================
