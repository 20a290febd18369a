------------------------- MODULE PollSchedulerProofs -------------------------
(* What the coverage policy returns, for every choice of its durations, and *)
(* type correctness, the coverage, the batches and the control rotation.    *)
EXTENDS PollScheduler, FiniteSetTheorems, TLAPS

\* A class has a priority, and every state and age has a class.
LEMMA PriorityType == \A c \in CoverageClass : Priorities[c] \in Nat
  BY DEF CoverageClass, OrdinaryClass, Priorities

LEMMA ClassType ==
  ASSUME NEW state, NEW admitted \in Nat, NEW decided \in Nat, NEW at \in Nat
  PROVE  CoverageClassFor(state, admitted, decided, at) \in CoverageClass
<1>1. FadingClass(at - decided) \in CoverageClass
  BY DEF FadingClass, CoverageClass, OrdinaryClass
<1>2. AgeClass(at - admitted) \in CoverageClass
  BY PolicyAssumption DEF AgeClass, CoverageClass, OrdinaryClass
<1> QED
  BY <1>1, <1>2 DEF CoverageClassFor, CoverageClass, OrdinaryClass

LEMMA BoundaryType ==
  ASSUME NEW class, NEW admitted \in Nat, NEW decided \in Nat
  PROVE  BoundaryOf(class, admitted, decided) \in MaybeTime
  BY PolicyAssumption DEF BoundaryOf, MaybeTime

\* next_transition_at names a boundary that is still ahead: a row refreshed at a
\* boundary has left it behind, so CoverageTransitionProgressError never rises
\* from the age and FADING boundaries.
THEOREM BoundaryAhead ==
  ASSUME NEW state \in LifecycleState,
         NEW admitted \in Nat, NEW decided \in Nat, NEW at \in Nat,
         NextTransitionAt(state, admitted, decided, at) # None
  PROVE  at < NextTransitionAt(state, admitted, decided, at)
<1> DEFINE class == CoverageClassFor(state, admitted, decided, at)
<1>1. CASE state = "FADING"
  <2>1. class = FadingClass(at - decided)
    BY <1>1 DEF CoverageClassFor
  <2> QED
    BY <1>1, <2>1, PolicyAssumption DEF NextTransitionAt, BoundaryOf, FadingClass
<1>2. CASE state = "NEW"
  <2>1. class = AgeClass(at - admitted)
    BY <1>2 DEF CoverageClassFor
  <2> QED
    BY <1>2, <2>1, PolicyAssumption DEF NextTransitionAt, BoundaryOf, AgeClass
<1>3. CASE state \in LifecycleState \ {"FADING", "NEW"}
  BY <1>3 DEF LifecycleState, NextTransitionAt, CoverageClassFor, BoundaryOf
<1> QED
  BY <1>1, <1>2, <1>3

\* While the state, the admission and the decision stay the same, time only cools a token.
LEMMA ClassesAge ==
  ASSUME NEW state \in LifecycleState, NEW admitted \in Nat, NEW decided \in Nat,
         NEW earlier \in Nat, NEW later \in Nat, earlier <= later
  PROVE  Priorities[CoverageClassFor(state, admitted, decided, earlier)]
           <= Priorities[CoverageClassFor(state, admitted, decided, later)]
<1>1. CASE state = "FADING"
  <2>1. /\ CoverageClassFor(state, admitted, decided, earlier) = FadingClass(earlier - decided)
        /\ CoverageClassFor(state, admitted, decided, later) = FadingClass(later - decided)
    BY <1>1 DEF CoverageClassFor
  <2> QED
    BY <2>1, PolicyAssumption DEF FadingClass, Priorities
<1>2. CASE state = "NEW"
  <2>1. /\ CoverageClassFor(state, admitted, decided, earlier) = AgeClass(earlier - admitted)
        /\ CoverageClassFor(state, admitted, decided, later) = AgeClass(later - admitted)
    BY <1>2 DEF CoverageClassFor
  <2> QED
    BY <2>1, PolicyAssumption DEF AgeClass, Priorities
<1>3. CASE state \in LifecycleState \ {"FADING", "NEW"}
  <2>1. CoverageClassFor(state, admitted, decided, earlier)
          = CoverageClassFor(state, admitted, decided, later)
    BY <1>3 DEF LifecycleState, CoverageClassFor
  <2> QED
    BY <2>1, ClassType, PriorityType
<1> QED
  BY <1>1, <1>2, <1>3
-----------------------------------------------------------------------------

(* The operators on one row return rows.                                   *)

LEMMA EarliestType ==
  ASSUME NEW s \in MaybeTime, NEW t \in MaybeTime
  PROVE  Earliest(s, t) \in MaybeTime
  BY DEF Earliest, MaybeTime

LEMMA SmallerType ==
  ASSUME NEW m \in Nat, NEW n \in Nat
  PROVE  Smaller(m, n) \in Nat
  BY DEF Smaller

LEMMA DueAfterType ==
  ASSUME NEW class \in CoverageClass, NEW now \in Nat, NEW delay \in [OrdinaryClass -> Nat]
  PROVE  DueAfter(class, now, delay) \in MaybeTime
  BY DEF DueAfter, CoverageClass, MaybeTime

LEMMA ModType ==
  ASSUME NEW m \in Nat, NEW n \in Nat \ {0}
  PROVE  m % n \in Nat
  OBVIOUS

LEMMA PlanType ==
  ASSUME NEW plan \in Plans
  PROVE  plan \in [OrdinaryClass -> Nat]
  BY SchedulerAssumption

LEMMA PhaseType ==
  ASSUME NEW t \in Token
  PROVE  CoveragePhase(t) \in [OrdinaryClass -> Nat]
<1>1. \A c \in OrdinaryClass : CoverageDigest[t] % Intervals[c] \in Nat
  BY ModType, PolicyAssumption, SchedulerAssumption
<1> QED
  BY <1>1 DEF CoveragePhase

LEMMA OverlayType ==
  ASSUME NEW row \in Row, NEW now \in Nat
  PROVE  /\ OverlayEnd(row, now) \in MaybeTime
         /\ ClassAt(row, now) \in CoverageClass
         /\ BoundaryAt(row, now) \in MaybeTime
         /\ TransitionAt(row, now) \in MaybeTime
         /\ PriorityAt(row, now) \in Nat
<1>1. /\ row.candidate_coverage_expires_at \in MaybeTime
      /\ row.admitted_at \in Nat
      /\ row.state_decided_at \in Nat
  BY DEF Row
<1>2. OverlayEnd(row, now) \in MaybeTime
  BY <1>1 DEF OverlayEnd, MaybeTime
<1>3. ClassAt(row, now) \in CoverageClass
  BY <1>1, ClassType DEF ClassAt
<1>4. BoundaryAt(row, now) \in MaybeTime
  BY <1>1, BoundaryType DEF BoundaryAt, NextTransitionAt
<1>5. TransitionAt(row, now) \in MaybeTime
  BY <1>2, <1>4, EarliestType DEF TransitionAt
<1>6. PriorityAt(row, now) \in Nat
  BY <1>3, PriorityType, SmallerType DEF PriorityAt
<1> QED
  BY <1>2, <1>3, <1>4, <1>5, <1>6

LEMMA RefreshType ==
  ASSUME NEW t \in Token, NEW row \in Row, NEW now \in Nat
  PROVE  RefreshCoverage(t, row, now) \in Row
<1>1. DueAfter(ClassAt(row, now), now, CoveragePhase(t)) \in MaybeTime
  BY OverlayType, PhaseType, DueAfterType
<1>2. None \in MaybeTime
  BY DEF MaybeTime
<1> QED
  BY <1>1, <1>2, OverlayType DEF RefreshCoverage, Row

LEMMA AdmittedType ==
  ASSUME NEW state \in LifecycleState, NEW now \in Nat, NEW plan \in Plans
  PROVE  AdmittedRow(state, now, plan) \in Row
<1> DEFINE class == CoverageClassFor(state, now, now, now)
<1>1. class \in CoverageClass
  BY ClassType
<1>2. NextTransitionAt(state, now, now, now) \in MaybeTime
  BY BoundaryType DEF NextTransitionAt
<1>3. DueAfter(class, now, plan) \in MaybeTime
  BY <1>1, PlanType, DueAfterType
<1>4. Priorities[class] \in Nat
  BY <1>1, PriorityType
<1>5. None \in MaybeTime /\ 0 \in Nat
  BY DEF MaybeTime
<1> HIDE DEF class
<1> QED
  BY <1>1, <1>2, <1>3, <1>4, <1>5 DEF AdmittedRow, Row, class

LEMMA MovedType ==
  ASSUME NEW row \in Row, NEW state \in LifecycleState, NEW now \in Nat, NEW plan \in Plans
  PROVE  MovedRow(row, state, now, plan) \in Row
<1> DEFINE class == CoverageClassFor(state, row.admitted_at, now, now)
<1>0. row.admitted_at \in Nat
  BY DEF Row
<1>1. class \in CoverageClass
  BY <1>0, ClassType
<1>2. NextTransitionAt(state, row.admitted_at, now, now) \in MaybeTime
  BY <1>0, BoundaryType DEF NextTransitionAt
<1>3. DueAfter(class, now, plan) \in MaybeTime
  BY <1>1, PlanType, DueAfterType
<1>4. Priorities[class] \in Nat
  BY <1>1, PriorityType
<1> HIDE DEF class
<1> QED
  BY <1>1, <1>2, <1>3, <1>4 DEF MovedRow, Row, class

LEMMA PromotedType ==
  ASSUME NEW row \in Row, NEW at \in Nat
  PROVE  PromotedRow(row, at) \in Row
<1>1. /\ at + CandidateTtl \in MaybeTime
      /\ at + CandidateInterval \in MaybeTime
      /\ None \in MaybeTime
  BY SchedulerAssumption DEF MaybeTime
<1>2. /\ row.coverage_next_transition_at \in MaybeTime
      /\ row.next_due_at \in MaybeTime
      /\ row.priority \in Nat
  BY DEF Row
<1>3. /\ Earliest(row.coverage_next_transition_at, at + CandidateTtl) \in MaybeTime
      /\ Earliest(row.next_due_at, at + CandidateInterval) \in MaybeTime
      /\ Smaller(row.priority, 1) \in Nat
  BY <1>1, <1>2, EarliestType, SmallerType
<1> QED
  BY <1>1, <1>3 DEF PromotedRow, Row

LEMMA WithdrawnType ==
  ASSUME NEW row \in Row, NEW at \in Nat
  PROVE  WithdrawnRow(row, at) \in Row
  BY DEF WithdrawnRow, Row, MaybeTime

LEMMA CompletedType ==
  ASSUME NEW row \in Row, NEW b, poll_batch[b] \in Batch, NEW now \in Nat
  PROVE  CompletedRow(row, b, now) \in Row
<1> DEFINE delay == [c \in OrdinaryClass |->
                       IF OverlayActive(row, now)
                       THEN Smaller(poll_batch[b].plan[c], CandidateInterval)
                       ELSE poll_batch[b].plan[c]]
<1>1. poll_batch[b].plan \in [OrdinaryClass -> Nat]
  BY PlanType DEF Batch
<1>2. delay \in [OrdinaryClass -> Nat]
  BY <1>1, SmallerType, SchedulerAssumption
<1> HIDE DEF delay
<1>3. DueAfter(ClassAt(row, now), now, delay) \in MaybeTime
  BY <1>2, OverlayType, DueAfterType
<1>4. row.attempt_count + 1 \in Nat /\ row.control_scan_count + 1 \in Nat
  BY DEF Row
<1>5. now \in MaybeTime
  BY DEF MaybeTime
<1> QED
  BY <1>3, <1>4, <1>5, OverlayType DEF CompletedRow, Row, delay

LEMMA RebasedType ==
  ASSUME NEW t \in Token, NEW row \in Row, NEW plan \in Plans, clock \in Nat
  PROVE  RebasedRow(t, row, plan) \in Row
<1> DEFINE delay == [c \in OrdinaryClass |-> EpochDigest[t] % plan[c]]
<1>1. \A c \in OrdinaryClass : EpochDigest[t] % plan[c] \in Nat
  BY ModType, SchedulerAssumption
<1>2. delay \in [OrdinaryClass -> Nat]
  BY <1>1
<1> HIDE DEF delay
<1>3. DueAfter(ClassAt(row, clock), clock, delay) \in MaybeTime
  BY <1>2, OverlayType, DueAfterType
<1>4. EpochDue(t, ClassAt(row, clock), plan) \in MaybeTime
  BY <1>3 DEF EpochDue, delay
<1>5. Priorities[ClassAt(row, clock)] \in Nat
  BY OverlayType, PriorityType
<1> QED
  BY <1>4, <1>5, OverlayType DEF RebasedRow, Row
-----------------------------------------------------------------------------
(* The inductive invariant behind TypeOK: a worker in the middle of a poll  *)
(* holds what its next transaction needs, and the members of a batch are    *)
(* admitted tokens.                                                         *)
WorkerReady ==
  \A w \in Worker :
    /\ worker[w].pc \in {"claiming", "received"} =>
         worker[w].now \in Nat /\ worker[w].now <= clock
    /\ worker[w].pc \in {"polling", "received"} => worker[w].batch \in Claimed
    /\ worker[w].pc # "idle" => running

MembersAdmitted ==
  \A b \in Claimed : \A t \in poll_batch[b].members : HasRow(t)

TypeInv == TypeOK /\ WorkerReady /\ MembersAdmitted

LEMMA TypeInit == Init => TypeInv
<1> SUFFICES ASSUME Init PROVE TypeInv
  OBVIOUS
<1>1. None \in MaybeTime
  BY DEF MaybeTime
<1>2. schedule \in [Token -> Row \cup {None}]
  <2>1. PICK plan \in Plans :
          schedule = [t \in Token |-> IF InitialState[t] = None THEN None
                                      ELSE AdmittedRow(InitialState[t], 0, plan)]
    BY DEF Init
  <2>2. \A t \in Token : InitialState[t] # None =>
          AdmittedRow(InitialState[t], 0, plan) \in Row
    BY AdmittedType, SchedulerAssumption
  <2> QED
    BY <2>1, <2>2
<1>3. /\ candidate \in [Token -> Candidate]
      /\ lease \in [Token -> Lease]
      /\ poll_batch \in [BatchId -> Batch \cup {None}]
      /\ outcome \in [BatchId -> MaybeTime]
      /\ worker \in [Worker -> WorkerState]
  BY <1>1 DEF Init, NoCandidate, Candidate, NoLease, Lease, IdleWorker, WorkerState
<1>4. TypeOK
  BY <1>2, <1>3 DEF Init, TypeOK
<1>5. WorkerReady
  BY DEF Init, WorkerReady, IdleWorker
<1>6. MembersAdmitted
  BY DEF Init, MembersAdmitted, Claimed
<1> QED
  BY <1>4, <1>5, <1>6 DEF TypeInv
-----------------------------------------------------------------------------
(* Every action preserves TypeInv.                                         *)

LEMMA AdvanceType ==
  ASSUME TypeOK, NEW now \in Nat, NEW skipped
  PROVE  /\ Advance(now, skipped) \in [Token -> Row \cup {None}]
         /\ \A t \in Token : Advance(now, skipped)[t] # None <=> HasRow(t)
         /\ \A t \in Token : HasRow(t) => Advance(now, skipped)[t] \in Row
<1>1. None \notin Row
  BY NullAssumption
<1>2. \A t \in Token : HasRow(t) => schedule[t] \in Row
  BY DEF TypeOK, HasRow
<1>3. \A t \in AtBoundary(now, skipped) : HasRow(t) /\ RefreshCoverage(t, schedule[t], now) \in Row
  BY <1>2, RefreshType DEF AtBoundary
<1> QED
  BY <1>1, <1>2, <1>3 DEF Advance, TypeOK, HasRow

LEMMA WindowType ==
  ASSUME NEW now \in Nat
  PROVE  Window(now) \in MaybeTime
<1>1. Minute \in Nat \ {0}
  BY SchedulerAssumption
<1>2. now % Minute \in Nat /\ now % Minute <= now
  BY <1>1
<1> QED
  BY <1>2 DEF Window, MaybeTime

\* Leasing a batch of rows that exist keeps the types.
LEMMA LeaseBatchType ==
  ASSUME TypeInv, running, NEW w \in Worker, NEW rows, NEW now \in Nat, now <= clock,
         NEW kind \in {"ordinary", "retired_control"}, NEW members \in SUBSET Token,
         rows \in [Token -> Row \cup {None}],
         \A t \in members : rows[t] \in Row,
         \A t \in Token : HasRow(t) => rows[t] # None,
         \A t \in members : rows[t] # None => HasRow(t),
         LeaseBatch(w, rows, now, kind, members),
         UNCHANGED <<clock, running, candidate, outcome>>
  PROVE  TypeInv'
<1>1. PICK b \in BatchId, plan \in Plans :
        /\ poll_batch[b] = None
        /\ poll_batch' = [poll_batch EXCEPT ![b] =
             [kind |-> kind, claimed_at |-> now,
              lease_expires_at |-> LeaseEnd(now),
              control_window |-> IF kind = "retired_control" THEN Window(now) ELSE None,
              plan |-> plan, members |-> members,
              due_at |-> [t \in Token |->
                 IF t \in members THEN MemberDue(rows[t], kind, now) ELSE None],
              previous |-> [t \in Token |->
                 IF t \in members THEN lease[t].id ELSE None]]]
        /\ lease' = [t \in Token |->
             IF t \in members THEN [id |-> b, expires_at |-> LeaseEnd(now)] ELSE lease[t]]
        /\ schedule' = [t \in Token |->
             IF t \in members /\ kind = "ordinary"
             THEN [rows[t] EXCEPT !.priority = Priorities[rows[t].coverage_class]]
             ELSE rows[t]]
        /\ worker' = [worker EXCEPT ![w] = [pc |-> "polling", now |-> None, batch |-> b]]
  BY DEF LeaseBatch
<1>2. /\ None \in MaybeTime /\ now \in MaybeTime
      /\ LeaseEnd(now) \in Nat /\ LeaseEnd(now) \in MaybeTime
  BY SchedulerAssumption DEF LeaseEnd, MaybeTime
<1>3. \A t \in members :
        /\ MemberDue(rows[t], kind, now) \in MaybeTime
        /\ [rows[t] EXCEPT !.priority = Priorities[rows[t].coverage_class]] \in Row
  <2> TAKE t \in members
  <2>1. rows[t].next_due_at \in MaybeTime /\ rows[t].coverage_class \in CoverageClass
    BY DEF Row
  <2>2. Priorities[rows[t].coverage_class] \in Nat
    BY <2>1, PriorityType
  <2> QED
    BY <1>2, <2>1, <2>2 DEF MemberDue, Row
<1>4. \A t \in Token : lease[t].id \in BatchId \cup {None}
  BY DEF TypeInv, TypeOK, Lease
<1>5. poll_batch'[b] \in Batch
  <2>1. poll_batch'[b] =
          [kind |-> kind, claimed_at |-> now,
           lease_expires_at |-> LeaseEnd(now),
           control_window |-> IF kind = "retired_control" THEN Window(now) ELSE None,
           plan |-> plan, members |-> members,
           due_at |-> [t \in Token |->
              IF t \in members THEN MemberDue(rows[t], kind, now) ELSE None],
           previous |-> [t \in Token |-> IF t \in members THEN lease[t].id ELSE None]]
    BY <1>1 DEF TypeInv, TypeOK
  <2>2. [t \in Token |-> IF t \in members THEN MemberDue(rows[t], kind, now) ELSE None]
          \in [Token -> MaybeTime]
    BY <1>2, <1>3
  <2>3. [t \in Token |-> IF t \in members THEN lease[t].id ELSE None]
          \in [Token -> BatchId \cup {None}]
    BY <1>4
  <2>4. (IF kind = "retired_control" THEN Window(now) ELSE None) \in MaybeTime
    BY <1>2, WindowType
  <2> QED
    BY <1>2, <2>1, <2>2, <2>3, <2>4 DEF Batch
<1>6. /\ poll_batch' \in [BatchId -> Batch \cup {None}]
      /\ \A c \in BatchId : c # b => poll_batch'[c] = poll_batch[c]
  BY <1>1, <1>5 DEF TypeInv, TypeOK
<1>7. /\ schedule' \in [Token -> Row \cup {None}]
      /\ \A t \in members : schedule'[t] \in Row
      /\ \A t \in Token : HasRow(t) => schedule'[t] # None
  BY <1>1, <1>3, NullAssumption
<1>8. lease' \in [Token -> Lease]
  BY <1>1, <1>2 DEF TypeInv, TypeOK, Lease
<1>9. /\ worker' \in [Worker -> WorkerState]
      /\ worker'[w] = [pc |-> "polling", now |-> None, batch |-> b]
      /\ \A v \in Worker : v # w => worker'[v] = worker[v]
  BY <1>1, <1>2 DEF TypeInv, TypeOK, WorkerState
<1>10. TypeOK'
  BY <1>6, <1>7, <1>8, <1>9 DEF TypeInv, TypeOK
<1>11. b \in Claimed' /\ \A c \in Claimed : c \in Claimed'
  BY <1>5, <1>6, NullAssumption DEF Claimed
<1>12. WorkerReady'
  BY <1>9, <1>11 DEF TypeInv, WorkerReady
<1>13. MembersAdmitted'
  <2> SUFFICES ASSUME NEW c \in Claimed', NEW t \in poll_batch'[c].members
               PROVE  schedule'[t] # None
    BY DEF MembersAdmitted, HasRow
  <2>1. CASE c = b
    <3>1. poll_batch'[b].members = members
      BY <1>1 DEF TypeInv, TypeOK
    <3> QED
      BY <2>1, <3>1, <1>7, NullAssumption
  <2>2. CASE c # b
    <3>1. c \in Claimed /\ t \in poll_batch[c].members /\ HasRow(t)
      BY <2>2, <1>6 DEF Claimed, TypeInv, MembersAdmitted
    <3>2. t \in Token
      BY <3>1 DEF TypeInv, TypeOK, Claimed, Batch
    <3> QED
      BY <3>1, <3>2, <1>7
  <2> QED
    BY <2>1, <2>2
<1> QED
  BY <1>10, <1>12, <1>13 DEF TypeInv

LEMMA HeadBatchMembers ==
  ASSUME NEW selection, NEW held, NEW taken, NEW order, NEW n
  PROVE  HeadBatch(selection, held, taken, order, n) \subseteq selection
  BY DEF HeadBatch

LEMMA ClaimType ==
  ASSUME TypeInv, NEW w \in Worker, Claim(w)
  PROVE  TypeInv'
<1> DEFINE now == worker[w].now
<1>1. now \in Nat /\ now <= clock /\ running
  BY DEF Claim, TypeInv, WorkerReady
<1>2. PICK skipped \in SUBSET Contended, held \in SUBSET Contended,
           taken \in SUBSET Contended :
        \E kind \in {"ordinary", "retired_control"}, members \in SUBSET Token :
          /\ LeaseBatch(w, Advance(now, skipped), now, kind, members)
          /\ \A t \in members : Advance(now, skipped)[t] # None
  <2>1. PICK skipped \in SUBSET Contended, held \in SUBSET Contended,
             taken \in SUBSET Contended :
          LET rows == Advance(now, skipped)
              ordinary == OrdinaryEligible(rows, now)
              control == ControlEligible(rows, now)
          IN  \/ LeaseBatch(w, rows, now, "retired_control",
                   HeadBatch(control, held, taken, ControlOrder(rows, control),
                             ControlTokens))
              \/ LeaseBatch(w, rows, now, "ordinary",
                   HeadBatch(ordinary, held, taken, OrdinaryOrder(rows, ordinary),
                             BatchSize))
    BY DEF Claim
  <2> DEFINE rows == Advance(now, skipped)
             ordinary == OrdinaryEligible(rows, now)
             control == ControlEligible(rows, now)
             scan == HeadBatch(control, held, taken, ControlOrder(rows, control),
                               ControlTokens)
             poll == HeadBatch(ordinary, held, taken, OrdinaryOrder(rows, ordinary),
                               BatchSize)
  <2>2. scan \in SUBSET Token /\ \A t \in scan : rows[t] # None
    <3>1. \A t \in control : t \in Token /\ rows[t] # None
      BY DEF ControlEligible
    <3> QED
      BY <3>1, HeadBatchMembers
  <2>3. poll \in SUBSET Token /\ \A t \in poll : rows[t] # None
    <3>1. \A t \in ordinary : t \in Token /\ rows[t] # None
      BY DEF OrdinaryEligible
    <3> QED
      BY <3>1, HeadBatchMembers
  <2> HIDE DEF now, rows, ordinary, control, scan, poll
  <2> QED
    BY <2>1, <2>2, <2>3 DEF rows, ordinary, control, scan, poll
<1>3. /\ Advance(now, skipped) \in [Token -> Row \cup {None}]
      /\ \A t \in Token : Advance(now, skipped)[t] # None <=> HasRow(t)
      /\ \A t \in Token : HasRow(t) => Advance(now, skipped)[t] \in Row
  BY <1>1, AdvanceType DEF TypeInv
<1>4. UNCHANGED <<clock, running, candidate, outcome>>
  BY DEF Claim
<1> HIDE DEF now
<1> QED
  BY <1>1, <1>2, <1>3, <1>4, LeaseBatchType

LEMMA ClaimNothingType ==
  ASSUME TypeInv, NEW w \in Worker, ClaimNothing(w)
  PROVE  TypeInv'
<1> DEFINE now == worker[w].now
<1>1. PICK skipped \in SUBSET Contended : schedule' = Advance(now, skipped)
  BY DEF ClaimNothing
<1>2. now \in Nat
  BY DEF ClaimNothing, TypeInv, WorkerReady
<1>3. /\ schedule' \in [Token -> Row \cup {None}]
      /\ \A t \in Token : schedule'[t] # None <=> HasRow(t)
  BY <1>1, <1>2, AdvanceType DEF TypeInv
<1>4. worker' = [worker EXCEPT ![w] = IdleWorker]
  BY DEF ClaimNothing
<1>5. UNCHANGED <<clock, running, candidate, lease, poll_batch, outcome>>
  BY DEF ClaimNothing
<1>6. worker' \in [Worker -> WorkerState]
  BY <1>4 DEF TypeInv, TypeOK, IdleWorker, WorkerState, MaybeTime
<1>7. TypeOK'
  BY <1>3, <1>5, <1>6 DEF TypeInv, TypeOK
<1>8. WorkerReady'
  BY <1>4, <1>5 DEF TypeInv, TypeOK, WorkerReady, IdleWorker, Claimed
<1>9. MembersAdmitted'
  BY <1>3, <1>5 DEF TypeInv, TypeOK, MembersAdmitted, Claimed, HasRow, Batch
<1> QED
  BY <1>7, <1>8, <1>9 DEF TypeInv

\* The completion of a batch: rows and candidates are replaced, its members
\* completed and its outcome written.
LEMMA FinishType ==
  ASSUME TypeInv, NEW b \in Claimed, NEW rows,
         rows \in [Token -> Row \cup {None}],
         \A t \in Token : HasRow(t) => rows[t] \in Row,
         FinishBatch(b, rows),
         candidate' \in [Token -> Candidate],
         worker' \in [Worker -> WorkerState],
         \A v \in Worker : worker'[v] \in {worker[v], IdleWorker},
         \A v \in Worker : worker'[v] # IdleWorker => running',
         running' \in BOOLEAN,
         UNCHANGED <<clock, poll_batch>>
  PROVE  TypeInv'
<1>1. poll_batch[b] \in Batch /\ b \in BatchId
  BY DEF Claimed, TypeInv, TypeOK
<1>2. poll_batch[b].members \subseteq Token
  BY <1>1 DEF Batch
<1>3. \A t \in poll_batch[b].members : HasRow(t)
  BY DEF TypeInv, MembersAdmitted
<1>4. \A t \in poll_batch[b].members : CompletedRow(rows[t], b, clock) \in Row
  BY <1>1, <1>2, <1>3, CompletedType DEF TypeInv, TypeOK
<1>5. /\ schedule' \in [Token -> Row \cup {None}]
      /\ \A t \in Token : HasRow(t) => schedule'[t] # None
  BY <1>4, NullAssumption DEF FinishBatch
<1>6. outcome' \in [BatchId -> MaybeTime] /\ lease' \in [Token -> Lease]
  BY <1>1 DEF FinishBatch, TypeInv, TypeOK, NoLease, Lease, MaybeTime
<1>7. TypeOK'
  BY <1>5, <1>6 DEF TypeInv, TypeOK
<1>8. WorkerReady'
  BY DEF TypeInv, WorkerReady, IdleWorker, Claimed
<1>9. MembersAdmitted'
  BY <1>5 DEF TypeInv, TypeOK, MembersAdmitted, Claimed, HasRow, Batch
<1> QED
  BY <1>7, <1>8, <1>9 DEF TypeInv

LEMMA LifecycleRowsType ==
  ASSUME TypeInv, NEW b \in Claimed, NEW received, NEW new \in LifecycleMoves(b, received),
         NEW plan \in Plans
  PROVE  /\ LifecycleRows(new, plan) \in [Token -> Row \cup {None}]
         /\ \A t \in Token : HasRow(t) => LifecycleRows(new, plan)[t] \in Row
<1>1. \A t \in Token : HasRow(t) => schedule[t] \in Row
  BY DEF TypeInv, TypeOK, HasRow
<1>2. new \in [poll_batch[b].members -> LifecycleState]
  BY DEF LifecycleMoves
<1>3. \A t \in DOMAIN new : HasRow(t) /\ new[t] \in LifecycleState
  BY <1>2 DEF TypeInv, MembersAdmitted
<1>4. \A t \in Token : t \in DOMAIN new => MovedRow(schedule[t], new[t], clock, plan) \in Row
  BY <1>1, <1>3, MovedType DEF TypeInv, TypeOK
<1> QED
  BY <1>1, <1>4 DEF LifecycleRows, TypeInv, TypeOK

LEMMA CandidateRowsType ==
  ASSUME NEW rows \in [Token -> Row \cup {None}], NEW promoted, NEW returned, NEW at \in Nat,
         \A t \in Token \cap (promoted \cup returned) : rows[t] \in Row
  PROVE  /\ CandidateRows(rows, promoted, returned, at) \in [Token -> Row \cup {None}]
         /\ \A t \in Token : rows[t] \in Row =>
              CandidateRows(rows, promoted, returned, at)[t] \in Row
<1> DEFINE admitted == CoverageAdmitted(rows, promoted, at)
<1>1. admitted \subseteq promoted
  BY DEF CoverageAdmitted
<1> HIDE DEF admitted
<1>2. \A t \in Token : t \in promoted \cup returned =>
        /\ PromotedRow(rows[t], at) \in Row
        /\ WithdrawnRow(rows[t], at) \in Row
  BY PromotedType, WithdrawnType
<1> QED
  BY <1>1, <1>2 DEF CandidateRows, admitted

LEMMA CandidateStateType ==
  ASSUME TypeInv, NEW rows, NEW promoted, NEW returned, NEW at \in Nat
  PROVE  CandidateState(rows, promoted, returned, at) \in [Token -> Candidate]
<1>1. at \in MaybeTime /\ at + CandidateTtl \in MaybeTime /\ None \in MaybeTime
  BY SchedulerAssumption DEF MaybeTime
<1> QED
  BY <1>1 DEF CandidateState, Candidate, TypeInv, TypeOK

LEMMA CompleteType ==
  ASSUME TypeInv, NEW w \in Worker, Complete(w)
  PROVE  TypeInv'
<1> DEFINE b == worker[w].batch
           received == worker[w].now
<1>1. b \in Claimed /\ received \in Nat /\ running
  BY DEF Complete, TypeInv, WorkerReady
<1>2. PICK new \in LifecycleMoves(b, received), plan \in Plans,
           promoted \in SUBSET (poll_batch[b].members \cap Promotable(received)),
           returned \in SUBSET (poll_batch[b].members \cap Returnable(received)) :
        /\ FinishBatch(b, CandidateRows(LifecycleRows(new, plan), promoted, returned, received))
        /\ candidate' = CandidateState(LifecycleRows(new, plan), promoted, returned, received)
  BY DEF Complete
<1>3. /\ worker' = [worker EXCEPT ![w] = IdleWorker]
      /\ UNCHANGED <<clock, running, poll_batch>>
  BY DEF Complete
<1> HIDE DEF b, received
<1> DEFINE rows == LifecycleRows(new, plan)
           after == CandidateRows(rows, promoted, returned, received)
<1>4. rows \in [Token -> Row \cup {None}] /\ \A t \in Token : HasRow(t) => rows[t] \in Row
  BY <1>1, LifecycleRowsType
<1> HIDE DEF rows
<1>5. \A t \in promoted \cup returned : HasRow(t)
  BY <1>1 DEF TypeInv, MembersAdmitted
<1>6. /\ after \in [Token -> Row \cup {None}]
      /\ \A t \in Token : HasRow(t) => after[t] \in Row
  BY <1>1, <1>4, <1>5, CandidateRowsType
<1>7. candidate' \in [Token -> Candidate]
  BY <1>1, <1>2, CandidateStateType
<1>8. /\ worker' \in [Worker -> WorkerState]
      /\ \A v \in Worker : worker'[v] \in {worker[v], IdleWorker}
      /\ \A v \in Worker : worker'[v] # IdleWorker => running'
  BY <1>1, <1>3 DEF TypeInv, TypeOK, WorkerReady, IdleWorker, WorkerState, MaybeTime
<1>9. running' \in BOOLEAN
  BY <1>3 DEF TypeInv, TypeOK
<1>10. FinishBatch(b, after)
  BY <1>2 DEF rows
<1> HIDE DEF after
<1> QED
  BY <1>1, <1>3, <1>6, <1>7, <1>8, <1>9, <1>10, FinishType

LEMMA CollapseWorkers ==
  ASSUME TypeInv, Collapse
  PROVE  /\ worker' \in [Worker -> WorkerState]
         /\ \A v \in Worker : worker'[v] = IdleWorker
         /\ running' = FALSE
  BY DEF Collapse, IdleWorker, WorkerState, MaybeTime

LEMMA CompleteAndFailType ==
  ASSUME TypeInv, NEW w \in Worker, CompleteAndFail(w)
  PROVE  TypeInv'
<1> DEFINE b == worker[w].batch
<1>1. b \in Claimed
  BY DEF CompleteAndFail, TypeInv, WorkerReady
<1>2. PICK new \in LifecycleMoves(b, worker[w].now), plan \in Plans :
        FinishBatch(b, LifecycleRows(new, plan))
  BY DEF CompleteAndFail
<1>3. Collapse /\ UNCHANGED <<clock, candidate, poll_batch>>
  BY DEF CompleteAndFail
<1> HIDE DEF b
<1>4. /\ LifecycleRows(new, plan) \in [Token -> Row \cup {None}]
      /\ \A t \in Token : HasRow(t) => LifecycleRows(new, plan)[t] \in Row
  BY <1>1, LifecycleRowsType
<1>5. candidate' \in [Token -> Candidate]
  BY <1>3 DEF TypeInv, TypeOK
<1> QED
  BY <1>1, <1>2, <1>3, <1>4, <1>5, CollapseWorkers, FinishType

\* The steps that touch neither poll_schedules nor the batches.
LEMMA MemoryStepType ==
  ASSUME TypeInv, UNCHANGED store, clock' = clock \/ clock' = clock + 1,
         running' \in BOOLEAN,
         worker' \in [Worker -> WorkerState],
         WorkerReady'
  PROVE  TypeInv'
<1>1. TypeOK'
  BY DEF TypeInv, TypeOK, store
<1>2. MembersAdmitted'
  BY DEF TypeInv, MembersAdmitted, store, Claimed, HasRow
<1> QED
  BY <1>1, <1>2 DEF TypeInv

LEMMA MemorySteps ==
  ASSUME TypeInv
  PROVE  /\ Tick => TypeInv'
         /\ Stop => TypeInv'
         /\ Restart => TypeInv'
         /\ \A w \in Worker : BeginClaim(w) => TypeInv'
         /\ \A w \in Worker : ClaimRaises(w) => TypeInv'
         /\ \A w \in Worker : Receive(w) => TypeInv'
         /\ \A w \in Worker : LoseLease(w) => TypeInv'
<1>1. ASSUME Tick PROVE TypeInv'
  <2>1. WorkerReady'
    BY <1>1 DEF Tick, TypeInv, TypeOK, WorkerReady, store, Claimed
  <2> QED
    BY <1>1, <2>1, MemoryStepType DEF Tick, TypeInv, TypeOK
<1>2. ASSUME Collapse, UNCHANGED <<clock, store>> PROVE TypeInv'
  <2>1. WorkerReady'
    BY <1>2, CollapseWorkers DEF WorkerReady, IdleWorker
  <2> QED
    BY <1>2, <2>1, CollapseWorkers, MemoryStepType
<1>3. ASSUME Restart PROVE TypeInv'
  <2>1. WorkerReady'
    BY <1>3 DEF Restart, TypeInv, TypeOK, WorkerReady, store, Claimed
  <2> QED
    BY <1>3, <2>1, MemoryStepType DEF Restart, TypeInv, TypeOK
<1>4. ASSUME NEW w \in Worker, BeginClaim(w) PROVE TypeInv'
  <2>1. worker' \in [Worker -> WorkerState]
    BY <1>4 DEF BeginClaim, TypeInv, TypeOK, IdleWorker, WorkerState, MaybeTime
  <2>2. WorkerReady'
    BY <1>4 DEF BeginClaim, TypeInv, TypeOK, WorkerReady, store, Claimed, IdleWorker
  <2> QED
    BY <1>4, <2>1, <2>2, MemoryStepType DEF BeginClaim, TypeInv, TypeOK
<1>5. ASSUME NEW w \in Worker, Receive(w) PROVE TypeInv'
  <2>1. worker' \in [Worker -> WorkerState]
    BY <1>5 DEF Receive, TypeInv, TypeOK, WorkerState, MaybeTime
  <2>2. WorkerReady'
    BY <1>5 DEF Receive, TypeInv, TypeOK, WorkerState, WorkerReady, store, Claimed
  <2> QED
    BY <1>5, <2>1, <2>2, MemoryStepType DEF Receive, TypeInv, TypeOK
<1> QED
  BY <1>1, <1>2, <1>3, <1>4, <1>5 DEF Stop, ClaimRaises, LoseLease

\* The steps that only rewrite rows and candidates.
LEMMA RowStepType ==
  ASSUME TypeInv,
         schedule' \in [Token -> Row \cup {None}],
         \A t \in Token : HasRow(t) => schedule'[t] # None,
         candidate' \in [Token -> Candidate],
         UNCHANGED <<clock, running, lease, poll_batch, outcome, worker>>
  PROVE  TypeInv'
<1>1. TypeOK'
  BY DEF TypeInv, TypeOK
<1>2. WorkerReady'
  BY DEF TypeInv, WorkerReady, Claimed
<1>3. MembersAdmitted'
  BY DEF TypeInv, TypeOK, MembersAdmitted, Claimed, HasRow, Batch
<1> QED
  BY <1>1, <1>2, <1>3 DEF TypeInv

LEMMA TokenStepType ==
  ASSUME TypeInv, NEW t \in Token, TokenStep(t)
  PROVE  TypeInv'
<1> USE NullAssumption
<1>0. \A u \in Token : HasRow(u) => schedule[u] \in Row
  BY DEF TypeInv, TypeOK, HasRow
<1>1. CASE Admit(t)
  <2>1. PICK plan \in Plans :
          schedule' = [schedule EXCEPT ![t] = AdmittedRow("NEW", clock, plan)]
    BY <1>1 DEF Admit
  <2>2. AdmittedRow("NEW", clock, plan) \in Row
    BY AdmittedType DEF TypeInv, TypeOK, LifecycleState
  <2> QED
    BY <1>1, <2>1, <2>2, RowStepType DEF Admit, TypeInv, TypeOK, HasRow
<1>2. CASE ReapplyState(t)
  <2>1. RefreshCoverage(t, schedule[t], clock) \in Row
    BY <1>0, <1>2, RefreshType DEF ReapplyState, TypeInv, TypeOK
  <2> QED
    BY <1>2, <2>1, RowStepType DEF ReapplyState, TypeInv, TypeOK, HasRow
<1>3. CASE WakeCandidate(t)
  <2>1. HasRow(t) /\ schedule[t] \in Row
    BY <1>0, <1>3 DEF WakeCandidate
  <2>2. PICK at \in schedule[t].admitted_at .. clock :
          \E promoted \in SUBSET ({t} \cap Promotable(at)),
             returned \in SUBSET ({t} \cap Returnable(at)) :
            /\ schedule' = CandidateRows(schedule, promoted, returned, at)
            /\ candidate' = CandidateState(schedule, promoted, returned, at)
    BY <1>3 DEF WakeCandidate
  <2>3. PICK promoted \in SUBSET {t}, returned \in SUBSET {t} :
          /\ schedule' = CandidateRows(schedule, promoted, returned, at)
          /\ candidate' = CandidateState(schedule, promoted, returned, at)
    BY <2>2
  <2>4. at \in Nat
    BY <2>1 DEF TypeInv, TypeOK, Row
  <2>5. /\ schedule' \in [Token -> Row \cup {None}]
        /\ \A u \in Token : HasRow(u) => schedule'[u] \in Row
    BY <1>0, <2>1, <2>3, <2>4, CandidateRowsType DEF TypeInv, TypeOK
  <2>6. candidate' \in [Token -> Candidate]
    BY <2>3, <2>4, CandidateStateType
  <2> QED
    BY <1>3, <2>5, <2>6, RowStepType DEF WakeCandidate
<1> QED
  BY <1>1, <1>2, <1>3 DEF TokenStep

LEMMA StartEpochType ==
  ASSUME TypeInv, StartEpoch
  PROVE  TypeInv'
<1>1. PICK plan \in Plans :
        schedule' = [t \in Token |-> IF HasRow(t) THEN RebasedRow(t, schedule[t], plan)
                                                  ELSE None]
  BY DEF StartEpoch
<1>2. \A t \in Token : HasRow(t) => RebasedRow(t, schedule[t], plan) \in Row
  BY RebasedType DEF TypeInv, TypeOK, HasRow
<1>3. /\ schedule' \in [Token -> Row \cup {None}]
      /\ \A t \in Token : HasRow(t) => schedule'[t] # None
  BY <1>1, <1>2, NullAssumption
<1>4. None \in MaybeTime
  BY DEF MaybeTime
<1>5. /\ candidate' \in [Token -> Candidate]
      /\ lease' \in [Token -> Lease]
  BY <1>4 DEF StartEpoch, NoCandidate, Candidate, NoLease, Lease
<1>6. TypeOK'
  BY <1>3, <1>5 DEF StartEpoch, TypeInv, TypeOK
<1>7. WorkerReady'
  BY DEF StartEpoch, TypeInv, WorkerReady, Claimed
<1>8. MembersAdmitted'
  BY <1>3 DEF StartEpoch, TypeInv, TypeOK, MembersAdmitted, Claimed, HasRow, Batch
<1> QED
  BY <1>6, <1>7, <1>8 DEF TypeInv

LEMMA TypeStep == TypeInv /\ [Next]_vars => TypeInv'
<1> SUFFICES ASSUME TypeInv, [Next]_vars PROVE TypeInv'
  OBVIOUS
<1>1. CASE Tick \/ Stop \/ Restart
  BY <1>1, MemorySteps
<1>2. CASE StartEpoch
  BY <1>2, StartEpochType
<1>3. ASSUME NEW w \in Worker, WorkerStep(w) PROVE TypeInv'
  BY <1>3, MemorySteps, ClaimType, ClaimNothingType, CompleteType, CompleteAndFailType
     DEF WorkerStep
<1>4. ASSUME NEW t \in Token, TokenStep(t) PROVE TypeInv'
  BY <1>4, TokenStepType
<1>5. CASE UNCHANGED vars
  BY <1>5 DEF vars, store, TypeInv, TypeOK, WorkerReady, MembersAdmitted, Claimed, HasRow
<1> QED
  BY <1>1, <1>2, <1>3, <1>4, <1>5 DEF Next

THEOREM TypeInvariance == Spec => []TypeInv
<1> QED
  BY TypeInit, TypeStep, PTL DEF Spec

\* The rows of the database keep the types of their columns, whatever the
\* number of tokens, workers and batches and whatever the durations are.
THEOREM TypeCorrect == Spec => []TypeOK
<1>1. TypeInv => TypeOK
  BY DEF TypeInv
<1> QED
  BY <1>1, TypeInvariance, PTL
-----------------------------------------------------------------------------
(* What a step does to one row.                                            *)

\* The row as a claim with the time now leaves it after advancing coverage.
Advanced(t, now, row) ==
  \/ row = schedule[t]
  \/ /\ schedule[t].coverage_next_transition_at # None
     /\ schedule[t].coverage_next_transition_at <= now
     /\ row = RefreshCoverage(t, schedule[t], now)
RowClaimed(t, now) ==
  \E row \in Row :
    /\ Advanced(t, now, row)
    /\ schedule'[t] \in {row, [row EXCEPT !.priority = Priorities[row.coverage_class]]}

\* A completion may find the row moved to another state and with another overlay.
Moved(row, moved) ==
  \/ moved = row
  \/ \E state \in LifecycleState \ {row.lifecycle_state}, plan \in Plans :
       moved = MovedRow(row, state, clock, plan)
Overlaid(t, at, row, after) ==
  \/ after = row
  \/ t \in CandidateTokens /\ after \in {PromotedRow(row, at), WithdrawnRow(row, at)}
RowFinished(t, b, received) ==
  \E moved \in Row, after \in Row :
    /\ Moved(schedule[t], moved)
    /\ Overlaid(t, received, moved, after)
    /\ schedule'[t] = CompletedRow(after, b, clock)

RowWoken(t) ==
  \E at \in Nat : at <= clock /\ Overlaid(t, at, schedule[t], schedule'[t])

Finishes(w) == Complete(w) \/ CompleteAndFail(w)

\* The seven things that may happen to a token in one step.
RowStep(t) ==
  \/ /\ Admit(t) /\ ~HasRow(t)
     /\ \E plan \in Plans : schedule'[t] = AdmittedRow("NEW", clock, plan)
  \/ HasRow(t) /\ schedule'[t] = schedule[t]
  \/ HasRow(t) /\ \E w \in Worker : (Claim(w) \/ ClaimNothing(w)) /\ RowClaimed(t, worker[w].now)
  \/ /\ HasRow(t)
     /\ \E w \in Worker : /\ Finishes(w)
                          /\ t \in poll_batch[worker[w].batch].members
                          /\ RowFinished(t, worker[w].batch, worker[w].now)
  \/ HasRow(t) /\ ReapplyState(t) /\ schedule'[t] = RefreshCoverage(t, schedule[t], clock)
  \/ HasRow(t) /\ WakeCandidate(t) /\ RowWoken(t)
  \/ /\ HasRow(t) /\ StartEpoch
     /\ \E plan \in Plans : schedule'[t] = RebasedRow(t, schedule[t], plan)

\* A control batch has the head of the rotation, but for rows another transaction holds.
Rotates(rows, now, members) ==
  LET control == ControlEligible(rows, now) IN
  \E held \in SUBSET Contended, taken \in SUBSET Contended :
    members = HeadBatch(control, held, taken, ControlOrder(rows, control), ControlTokens)

\* What a claim leases: rows of its selection.
LEMMA ClaimLeases ==
  ASSUME TypeInv, NEW w \in Worker, Claim(w)
  PROVE  \E skipped \in SUBSET Contended, members \in SUBSET Token,
            kind \in {"ordinary", "retired_control"} :
           LET rows == Advance(worker[w].now, skipped) IN
             /\ LeaseBatch(w, rows, worker[w].now, kind, members)
             /\ \A t \in members :
                  /\ rows[t] # None /\ Unleased(t, worker[w].now)
                  /\ kind = "ordinary" => /\ rows[t].coverage_class # "RETIRED_CONTROL"
                                          /\ rows[t].next_due_at # None
                                          /\ rows[t].next_due_at <= worker[w].now
             /\ kind = "retired_control" => Rotates(rows, worker[w].now, members)
<1>. DEFINE now == worker[w].now
<1>1. PICK skipped \in SUBSET Contended, held \in SUBSET Contended, taken \in SUBSET Contended :
        LET rows == Advance(now, skipped)
            ordinary == OrdinaryEligible(rows, now)
            control == ControlEligible(rows, now)
        IN  \/ LeaseBatch(w, rows, now, "retired_control",
                 HeadBatch(control, held, taken, ControlOrder(rows, control), ControlTokens))
            \/ LeaseBatch(w, rows, now, "ordinary",
                 HeadBatch(ordinary, held, taken, OrdinaryOrder(rows, ordinary), BatchSize))
  BY DEF Claim
<1>. DEFINE rows == Advance(now, skipped)
            ordinary == OrdinaryEligible(rows, now)
            control == ControlEligible(rows, now)
            scan == HeadBatch(control, held, taken, ControlOrder(rows, control), ControlTokens)
            poll == HeadBatch(ordinary, held, taken, OrdinaryOrder(rows, ordinary), BatchSize)
<1>2. /\ scan \in SUBSET Token /\ \A t \in scan : rows[t] # None /\ Unleased(t, now)
  <2>1. \A t \in control : t \in Token /\ rows[t] # None /\ Unleased(t, now)
    BY DEF ControlEligible
  <2>. QED
    BY <2>1, HeadBatchMembers
<1>3. /\ poll \in SUBSET Token
      /\ \A t \in poll : /\ rows[t] # None /\ Unleased(t, now)
                         /\ rows[t].coverage_class # "RETIRED_CONTROL"
                         /\ rows[t].next_due_at # None /\ rows[t].next_due_at <= now
  <2>1. \A t \in ordinary : /\ t \in Token /\ rows[t] # None /\ Unleased(t, now)
                            /\ rows[t].coverage_class # "RETIRED_CONTROL"
                            /\ rows[t].next_due_at # None /\ rows[t].next_due_at <= now
    BY DEF OrdinaryEligible
  <2>. QED
    BY <2>1, HeadBatchMembers
<1>4. \/ LeaseBatch(w, rows, now, "retired_control", scan)
      \/ LeaseBatch(w, rows, now, "ordinary", poll)
  BY <1>1
<1>5. Rotates(rows, now, scan)
  BY DEF Rotates
<1>. HIDE DEF now, rows, ordinary, control, scan, poll
<1>6. \E members \in SUBSET Token, kind \in {"ordinary", "retired_control"} :
        /\ LeaseBatch(w, rows, now, kind, members)
        /\ \A t \in members :
             /\ rows[t] # None /\ Unleased(t, now)
             /\ kind = "ordinary" => /\ rows[t].coverage_class # "RETIRED_CONTROL"
                                     /\ rows[t].next_due_at # None
                                     /\ rows[t].next_due_at <= now
        /\ kind = "retired_control" => Rotates(rows, now, members)
  BY <1>2, <1>3, <1>4, <1>5
<1>. QED
  BY <1>6 DEF rows, now

LEMMA AdvanceMoves ==
  ASSUME TypeInv, NEW t \in Token, HasRow(t), NEW now \in Nat, NEW skipped
  PROVE  Advanced(t, now, Advance(now, skipped)[t]) /\ Advance(now, skipped)[t] \in Row
<1>1. Advance(now, skipped)[t] \in Row
  BY AdvanceType DEF TypeInv
<1>2. Advanced(t, now, Advance(now, skipped)[t])
  BY DEF Advance, AtBoundary, Advanced
<1>. QED
  BY <1>1, <1>2

LEMMA ClaimMoves ==
  ASSUME TypeInv, NEW t \in Token, HasRow(t), NEW w \in Worker, Claim(w) \/ ClaimNothing(w)
  PROVE  RowClaimed(t, worker[w].now)
<1>. DEFINE now == worker[w].now
<1>1. now \in Nat
  BY DEF Claim, ClaimNothing, TypeInv, WorkerReady
<1>2. PICK skipped : \/ schedule' = Advance(now, skipped)
                     \/ \E kind, members :
                          LeaseBatch(w, Advance(now, skipped), now, kind, members)
  BY ClaimLeases DEF ClaimNothing
<1>. DEFINE row == Advance(now, skipped)[t]
<1>3. Advanced(t, now, row) /\ row \in Row
  BY <1>1, AdvanceMoves
<1>4. schedule'[t] \in {row, [row EXCEPT !.priority = Priorities[row.coverage_class]]}
  BY <1>2 DEF LeaseBatch
<1>. HIDE DEF row, now
<1>5. RowClaimed(t, now)
  BY <1>3, <1>4 DEF RowClaimed
<1>. QED
  BY <1>5 DEF now

LEMMA LifecycleMoved ==
  ASSUME TypeInv, NEW b \in Claimed, NEW received, NEW new \in LifecycleMoves(b, received),
         NEW plan \in Plans, NEW t \in Token, HasRow(t)
  PROVE  Moved(schedule[t], LifecycleRows(new, plan)[t])
<1>1. new \in [poll_batch[b].members -> LifecycleState]
  BY DEF LifecycleMoves
<1>2. t \in DOMAIN new => new[t] \in LifecycleState
  BY <1>1
<1>3. LifecycleRows(new, plan)[t] = IF t \in DOMAIN new /\ new[t] # schedule[t].lifecycle_state
                                    THEN MovedRow(schedule[t], new[t], clock, plan)
                                    ELSE schedule[t]
  BY DEF LifecycleRows
<1>. QED
  BY <1>2, <1>3 DEF Moved

LEMMA CandidateMoved ==
  ASSUME NEW rows, NEW promoted \in SUBSET CandidateTokens,
         NEW returned \in SUBSET CandidateTokens, NEW at, NEW t \in Token
  PROVE  Overlaid(t, at, rows[t], CandidateRows(rows, promoted, returned, at)[t])
  BY DEF CandidateRows, CoverageAdmitted, Overlaid

LEMMA FinishMoves ==
  ASSUME TypeInv, NEW w \in Worker, Finishes(w), NEW t \in Token, HasRow(t)
  PROVE  IF t \in poll_batch[worker[w].batch].members
         THEN RowFinished(t, worker[w].batch, worker[w].now)
         ELSE schedule'[t] = schedule[t]
<1>. DEFINE b == worker[w].batch
            received == worker[w].now
<1>1. b \in Claimed /\ received \in Nat
  BY DEF Finishes, Complete, CompleteAndFail, TypeInv, WorkerReady
<1>2. PICK new \in LifecycleMoves(b, received), plan \in Plans :
        \/ FinishBatch(b, LifecycleRows(new, plan))
        \/ \E promoted \in SUBSET (poll_batch[b].members \cap Promotable(received)),
              returned \in SUBSET (poll_batch[b].members \cap Returnable(received)) :
             FinishBatch(b, CandidateRows(LifecycleRows(new, plan), promoted, returned, received))
  BY DEF Finishes, Complete, CompleteAndFail
<1>. DEFINE rows == LifecycleRows(new, plan)
<1>. HIDE DEF b, received
<1>3. rows[t] \in Row /\ Moved(schedule[t], rows[t])
  BY <1>1, LifecycleRowsType, LifecycleMoved
<1>4. t \notin poll_batch[b].members => rows[t] = schedule[t]
  BY DEF LifecycleRows, LifecycleMoves
<1>. HIDE DEF rows
<1>5. PICK after : /\ FinishBatch(b, after) /\ after[t] \in Row
                   /\ Overlaid(t, received, rows[t], after[t])
                   /\ t \notin poll_batch[b].members => after[t] = schedule[t]
  <2>1. CASE FinishBatch(b, rows)
    BY <2>1, <1>3, <1>4 DEF Overlaid
  <2>2. ASSUME NEW promoted \in SUBSET (poll_batch[b].members \cap Promotable(received)),
               NEW returned \in SUBSET (poll_batch[b].members \cap Returnable(received)),
               FinishBatch(b, CandidateRows(rows, promoted, returned, received))
        PROVE  \E after : /\ FinishBatch(b, after) /\ after[t] \in Row
                          /\ Overlaid(t, received, rows[t], after[t])
                          /\ t \notin poll_batch[b].members => after[t] = schedule[t]
    <3>. DEFINE after == CandidateRows(rows, promoted, returned, received)
    <3>1. rows \in [Token -> Row \cup {None}]
      BY <1>1, LifecycleRowsType DEF rows
    <3>2. \A u \in Token \cap (promoted \cup returned) : rows[u] \in Row
      <4>1. \A u \in promoted \cup returned : HasRow(u)
        BY <1>1 DEF TypeInv, MembersAdmitted
      <4>. QED
        BY <1>1, <4>1, LifecycleRowsType DEF rows
    <3>3. after[t] \in Row
      BY <1>1, <1>3, <3>1, <3>2, CandidateRowsType
    <3>4. Overlaid(t, received, rows[t], after[t])
      BY CandidateMoved DEF Promotable, Returnable
    <3>5. t \notin poll_batch[b].members => after[t] = schedule[t]
      BY <1>4 DEF CandidateRows, CoverageAdmitted
    <3>. HIDE DEF after
    <3>. QED
      BY <2>2, <3>3, <3>4, <3>5 DEF after
  <2>. QED
    BY <1>2, <2>1, <2>2 DEF rows
<1>6. schedule'[t] = IF t \in poll_batch[b].members THEN CompletedRow(after[t], b, clock)
                     ELSE after[t]
  BY <1>5 DEF FinishBatch
<1>7. CASE t \in poll_batch[b].members
  <2>1. RowFinished(t, b, received)
    BY <1>3, <1>5, <1>6, <1>7 DEF RowFinished
  <2>. QED
    BY <1>7, <2>1 DEF b, received
<1>8. CASE t \notin poll_batch[b].members
  BY <1>5, <1>6, <1>8 DEF b
<1>. QED
  BY <1>7, <1>8

\* Every row, and every token that gets one, makes one of these steps; no row is lost.
LEMMA RowSteps ==
  ASSUME TypeInv, [Next]_vars, NEW t \in Token, HasRow(t) \/ HasRow(t)'
  PROVE  RowStep(t)
<1>1. schedule \in [Token -> Row \cup {None}] /\ (HasRow(t) => schedule[t] \in Row)
  BY DEF TypeInv, TypeOK, HasRow
<1>2. CASE UNCHANGED schedule
  BY <1>2 DEF RowStep, HasRow
<1>3. ASSUME NEW w \in Worker, Claim(w) \/ ClaimNothing(w) PROVE RowStep(t)
  <2>1. CASE HasRow(t)
    BY <2>1, <1>3, ClaimMoves DEF RowStep
  <2>2. CASE ~HasRow(t)
    <3>. DEFINE now == worker[w].now
    <3>1. now \in Nat
      BY <1>3 DEF Claim, ClaimNothing, TypeInv, WorkerReady
    <3>2. PICK skipped :
            \/ schedule' = Advance(now, skipped)
            \/ \E kind, members : /\ LeaseBatch(w, Advance(now, skipped), now, kind, members)
                                  /\ \A u \in members : Advance(now, skipped)[u] # None
      BY <1>3, ClaimLeases DEF ClaimNothing
    <3>3. Advance(now, skipped)[t] = None
      BY <2>2, <3>1, AdvanceType DEF TypeInv
    <3>4. schedule'[t] = None
      BY <3>2, <3>3 DEF LeaseBatch
    <3>. QED
      BY <2>2, <3>4 DEF HasRow
  <2>. QED
    BY <2>1, <2>2
<1>4. ASSUME NEW w \in Worker, Finishes(w) PROVE RowStep(t)
  <2>1. CASE HasRow(t)
    BY <2>1, <1>4, FinishMoves DEF RowStep
  <2>2. CASE ~HasRow(t)
    <3>1. schedule'[t] = None
      <4>. DEFINE b == worker[w].batch
      <4>1. b \in Claimed
        BY <1>4 DEF Finishes, Complete, CompleteAndFail, TypeInv, WorkerReady
      <4>2. t \notin poll_batch[b].members
        BY <2>2, <4>1 DEF TypeInv, MembersAdmitted
      <4>3. \A new \in LifecycleMoves(b, worker[w].now), plan \in Plans :
              LifecycleRows(new, plan)[t] = None
        BY <2>2, <4>2 DEF LifecycleMoves, LifecycleRows, HasRow
      <4>4. PICK rows : FinishBatch(b, rows) /\ rows[t] = None
        <5>1. CASE CompleteAndFail(w)
          BY <4>3, <5>1 DEF CompleteAndFail
        <5>2. CASE Complete(w)
          <6>1. PICK new \in LifecycleMoves(b, worker[w].now), plan \in Plans,
                     promoted \in SUBSET (poll_batch[b].members \cap Promotable(worker[w].now)),
                     returned \in SUBSET (poll_batch[b].members \cap Returnable(worker[w].now)) :
                  FinishBatch(b, CandidateRows(LifecycleRows(new, plan), promoted, returned,
                                               worker[w].now))
            BY <5>2 DEF Complete
          <6>2. CandidateRows(LifecycleRows(new, plan), promoted, returned, worker[w].now)[t]
                  = None
            BY <4>2, <4>3 DEF CandidateRows, CoverageAdmitted
          <6>. QED
            BY <6>1, <6>2
        <5>. QED
          BY <1>4, <5>1, <5>2 DEF Finishes
      <4>. QED
        BY <4>2, <4>4 DEF FinishBatch
    <3>. QED
      BY <2>2, <3>1 DEF HasRow
  <2>. QED
    BY <2>1, <2>2
<1>5. ASSUME NEW u \in Token, Admit(u) PROVE RowStep(t)
  BY <1>1, <1>5 DEF Admit, RowStep, HasRow
<1>6. ASSUME NEW u \in Token, ReapplyState(u) PROVE RowStep(t)
  BY <1>1, <1>6 DEF ReapplyState, RowStep, HasRow
<1>7. ASSUME NEW u \in Token, WakeCandidate(u) PROVE RowStep(t)
  <2>1. PICK at \in schedule[u].admitted_at .. clock :
          \E promoted \in SUBSET ({u} \cap Promotable(at)),
             returned \in SUBSET ({u} \cap Returnable(at)) :
            schedule' = CandidateRows(schedule, promoted, returned, at)
    BY <1>7 DEF WakeCandidate
  <2>2. PICK promoted \in SUBSET ({u} \cap CandidateTokens),
             returned \in SUBSET ({u} \cap CandidateTokens) :
          schedule' = CandidateRows(schedule, promoted, returned, at)
    BY <2>1 DEF Promotable, Returnable
  <2>3. HasRow(u) /\ schedule[u] \in Row /\ clock \in Nat
    BY <1>7 DEF WakeCandidate, TypeInv, TypeOK, HasRow
  <2>4. at \in Nat /\ at <= clock
    BY <2>3 DEF Row
  <2>5. CASE u = t
    <3>1. Overlaid(t, at, schedule[t], schedule'[t])
      BY <2>2, CandidateMoved
    <3>2. RowWoken(t)
      BY <2>4, <3>1 DEF RowWoken
    <3>. QED
      BY <1>7, <2>3, <2>5, <3>2 DEF RowStep
  <2>6. CASE u # t
    <3>1. schedule'[t] = schedule[t]
      BY <2>2, <2>6 DEF CandidateRows, CoverageAdmitted
    <3>. QED
      BY <3>1 DEF RowStep, HasRow
  <2>. QED
    BY <2>5, <2>6
<1>8. CASE StartEpoch
  BY <1>8 DEF StartEpoch, RowStep, HasRow
<1>9. CASE UNCHANGED vars \/ Tick \/ Stop \/ Restart
  BY <1>2, <1>9 DEF vars, store, Tick, Stop, Restart
<1>10. ASSUME NEW w \in Worker, BeginClaim(w) \/ ClaimRaises(w) \/ Receive(w) \/ LoseLease(w)
       PROVE  RowStep(t)
  BY <1>2, <1>10 DEF BeginClaim, ClaimRaises, Receive, LoseLease, store
<1>. QED
  BY <1>3, <1>4, <1>5, <1>6, <1>7, <1>8, <1>9, <1>10 DEF Next, WorkerStep, TokenStep, Finishes

LEMMA ClockStep == [Next]_vars => clock' \in {clock, clock + 1}
  BY DEF Next, WorkerStep, TokenStep, vars, Tick, Stop, Restart, StartEpoch, BeginClaim, Claim,
         ClaimNothing, ClaimRaises, Receive, Complete, CompleteAndFail, LoseLease, Admit,
         ReapplyState, WakeCandidate
-----------------------------------------------------------------------------
(* A row always waits for something: its due time or the control rotation,  *)
(* and the end of its class.                                                *)

\* The same of one row, at a time.
Queued(row) == row.coverage_class = "RETIRED_CONTROL" <=> row.next_due_at = None
Watched(row, time) ==
  LET end == BoundaryOf(row.coverage_class, row.admitted_at, row.state_decided_at)
  IN  end # None =>
        /\ row.coverage_next_transition_at # None
        /\ \/ row.coverage_next_transition_at <= end
           \/ row.coverage_next_transition_at <= time
Events(row, time) == Queued(row) /\ Watched(row, time)
Evented(rows, time) == \A t \in Token : rows[t] # None => Events(rows[t], time)

LEMMA EventsAreKept == RowsKeepTheirEvents <=> Evented(schedule, clock)
BY DEF RowsKeepTheirEvents, EveryTokenScheduled, BoundaryNeverMissed, Evented, Events, Queued,
   Watched, HasRow

\* A class and its due time are set together.
LEMMA DueOfClass ==
  ASSUME NEW class \in CoverageClass, NEW now \in Nat, NEW delay \in [OrdinaryClass -> Nat]
  PROVE  class = "RETIRED_CONTROL" <=> DueAfter(class, now, delay) = None
BY PolicyAssumption DEF DueAfter, CoverageClass, OrdinaryClass

\* A boundary that is earlier, or none, watches what the later one watched.
LEMMA EarliestWatches ==
  ASSUME NEW s \in MaybeTime, NEW t \in MaybeTime
  PROVE  /\ s # None => Earliest(s, t) # None /\ Earliest(s, t) \in Nat /\ Earliest(s, t) <= s
         /\ t # None => Earliest(s, t) # None
BY PolicyAssumption DEF Earliest, MaybeTime

LEMMA RefreshKeepsEvents ==
  ASSUME NEW t \in Token, NEW row \in Row, NEW now \in Nat, NEW time \in Nat, Events(row, time)
  PROVE  Events(RefreshCoverage(t, row, now), time)
<1>. DEFINE class == ClassAt(row, now)
            phased == DueAfter(class, now, CoveragePhase(t))
            transition == TransitionAt(row, now)
            due == IF class # "RETIRED_CONTROL" /\ row.next_due_at # None /\ row.next_due_at <= now
                   THEN row.next_due_at ELSE phased
            overlay == IF OverlayExpired(row, now) THEN None
                       ELSE row.candidate_coverage_expires_at
            new == [row EXCEPT !.candidate_coverage_expires_at = overlay,
                               !.coverage_class = class,
                               !.coverage_next_transition_at = transition,
                               !.priority = PriorityAt(row, now), !.next_due_at = due]
<1>1. RefreshCoverage(t, row, now) \in {row, new}
  BY DEF RefreshCoverage
<1>2. class \in CoverageClass /\ (class = "RETIRED_CONTROL" <=> phased = None)
  BY OverlayType, PhaseType, DueOfClass
<1>3. class = "RETIRED_CONTROL" <=> due = None
  BY <1>2
<1>. DEFINE end == BoundaryOf(class, row.admitted_at, row.state_decided_at)
<1>4. end \in MaybeTime /\ end = BoundaryAt(row, now)
  BY OverlayType DEF BoundaryAt, ClassAt, NextTransitionAt
<1>5. end # None => transition # None /\ transition <= end
  BY <1>4, OverlayType, EarliestWatches DEF TransitionAt
<1>6. /\ new.coverage_class = class /\ new.next_due_at = due
      /\ new.coverage_next_transition_at = transition
      /\ new.admitted_at = row.admitted_at /\ new.state_decided_at = row.state_decided_at
  <2>. HIDE DEF class, due, transition, overlay
  <2>. QED
    BY DEF Row
<1>. HIDE DEF new, class, due, transition
<1>7. Events(new, time)
  BY <1>3, <1>5, <1>6 DEF Events, Queued, Watched
<1>. QED
  BY <1>1, <1>7

LEMMA AdmittedHasEvents ==
  ASSUME NEW state \in LifecycleState, NEW now \in Nat, NEW plan \in Plans, NEW time \in Nat
  PROVE  Events(AdmittedRow(state, now, plan), time)
<1>. DEFINE class == CoverageClassFor(state, now, now, now)
            end == BoundaryOf(class, now, now)
            new == AdmittedRow(state, now, plan)
<1>1. class \in CoverageClass /\ end \in MaybeTime
  BY ClassType, BoundaryType
<1>2. class = "RETIRED_CONTROL" <=> DueAfter(class, now, plan) = None
  BY <1>1, PlanType, DueOfClass
<1>3. /\ new.coverage_class = class /\ new.next_due_at = DueAfter(class, now, plan)
      /\ new.coverage_next_transition_at = end
      /\ new.admitted_at = now /\ new.state_decided_at = now
  BY DEF AdmittedRow, NextTransitionAt
<1>4. end # None => end \in Nat
  BY <1>1 DEF MaybeTime
<1>. HIDE DEF new, class
<1>. QED
  BY <1>2, <1>3, <1>4 DEF Events, Queued, Watched, new

LEMMA PromotedKeepsEvents ==
  ASSUME NEW row \in Row, NEW at \in Nat, NEW time \in Nat, Events(row, time)
  PROVE  Events(PromotedRow(row, at), time)
<1>. DEFINE transition == Earliest(row.coverage_next_transition_at, at + CandidateTtl)
            due == IF row.coverage_class = "RETIRED_CONTROL" THEN None
                   ELSE Earliest(row.next_due_at, at + CandidateInterval)
            new == PromotedRow(row, at)
<1>1. /\ at + CandidateTtl \in MaybeTime /\ at + CandidateInterval \in MaybeTime
      /\ at + CandidateInterval # None
  BY SchedulerAssumption, PolicyAssumption DEF MaybeTime
<1>2. /\ row.coverage_next_transition_at \in MaybeTime /\ row.next_due_at \in MaybeTime
  BY DEF Row
<1>3. row.coverage_class = "RETIRED_CONTROL" <=> due = None
  BY <1>1, <1>2, EarliestWatches
<1>4. row.coverage_next_transition_at # None =>
        /\ transition # None /\ transition \in Nat
        /\ transition <= row.coverage_next_transition_at
  BY <1>1, <1>2, EarliestWatches
<1>5. /\ new.coverage_class = row.coverage_class /\ new.next_due_at = due
      /\ new.coverage_next_transition_at = transition
      /\ new.admitted_at = row.admitted_at /\ new.state_decided_at = row.state_decided_at
  <2>. HIDE DEF transition, due
  <2>1. new = [row EXCEPT !.candidate_coverage_expires_at = at + CandidateTtl,
                          !.coverage_next_transition_at = transition,
                          !.priority = Smaller(@, 1), !.next_due_at = due]
    BY DEF PromotedRow, transition, due
  <2>. HIDE DEF new
  <2>. QED
    BY <2>1 DEF Row
<1>. DEFINE end == BoundaryOf(row.coverage_class, row.admitted_at, row.state_decided_at)
<1>6. end \in MaybeTime
  BY BoundaryType DEF Row
<1>7. Watched(new, time)
  <2>. HIDE DEF new, transition
  <2>. QED
    BY <1>2, <1>4, <1>5, <1>6 DEF Events, Watched, MaybeTime
<1>8. Queued(new)
  <2>. HIDE DEF new, due
  <2>. QED
    BY <1>3, <1>5 DEF Queued
<1>. QED
  BY <1>7, <1>8 DEF Events

LEMMA WithdrawnKeepsEvents ==
  ASSUME NEW row \in Row, NEW at \in Nat, NEW time \in Nat, at <= time, Events(row, time)
  PROVE  Events(WithdrawnRow(row, at), time)
<1>. DEFINE new == WithdrawnRow(row, at)
<1>1. /\ new.coverage_class = row.coverage_class /\ new.next_due_at = row.next_due_at
      /\ new.coverage_next_transition_at = at
      /\ new.admitted_at = row.admitted_at /\ new.state_decided_at = row.state_decided_at
  BY DEF WithdrawnRow, Row
<1>2. at # None
  BY PolicyAssumption
<1>. HIDE DEF new
<1>3. Events(new, time)
  BY <1>1, <1>2 DEF Events, Queued, Watched
<1>. QED
  BY <1>3 DEF new

LEMMA CompletedHasEvents ==
  ASSUME NEW row \in Row, NEW b, poll_batch[b] \in Batch, NEW now \in Nat, NEW time \in Nat
  PROVE  Events(CompletedRow(row, b, now), time)
<1>. DEFINE delay == [c \in OrdinaryClass |->
                        IF OverlayActive(row, now)
                        THEN Smaller(poll_batch[b].plan[c], CandidateInterval)
                        ELSE poll_batch[b].plan[c]]
            class == ClassAt(row, now)
            due == DueAfter(class, now, delay)
            new == CompletedRow(row, b, now)
            end == BoundaryOf(class, row.admitted_at, row.state_decided_at)
<1>1. poll_batch[b].plan \in [OrdinaryClass -> Nat]
  BY PlanType DEF Batch
<1>2. delay \in [OrdinaryClass -> Nat]
  BY <1>1, SmallerType, SchedulerAssumption
<1>3. class \in CoverageClass /\ (class = "RETIRED_CONTROL" <=> due = None)
  <2>. HIDE DEF delay, class
  <2>1. class \in CoverageClass
    BY OverlayType DEF class
  <2>. QED
    BY <1>2, <2>1, DueOfClass
<1>4. /\ end \in MaybeTime /\ end = BoundaryAt(row, now)
  BY OverlayType DEF BoundaryAt, ClassAt, NextTransitionAt
<1>5. end # None => TransitionAt(row, now) # None /\ TransitionAt(row, now) <= end
  BY <1>4, OverlayType, EarliestWatches DEF TransitionAt
<1>6. /\ new.coverage_class = class /\ new.next_due_at = due
      /\ new.coverage_next_transition_at = TransitionAt(row, now)
      /\ new.admitted_at = row.admitted_at /\ new.state_decided_at = row.state_decided_at
  BY DEF CompletedRow, Row
<1>. HIDE DEF new, class, due, delay
<1>7. Events(new, time)
  BY <1>3, <1>5, <1>6 DEF Events, Queued, Watched
<1>. QED
  BY <1>7 DEF new

LEMMA RebasedHasEvents ==
  ASSUME NEW t \in Token, NEW row \in Row, NEW plan \in Plans, clock \in Nat, NEW time \in Nat
  PROVE  Events(RebasedRow(t, row, plan), time)
<1>. DEFINE delay == [c \in OrdinaryClass |-> EpochDigest[t] % plan[c]]
            class == ClassAt(row, clock)
            due == EpochDue(t, class, plan)
            new == RebasedRow(t, row, plan)
            end == BoundaryAt(row, clock)
<1>1. \A c \in OrdinaryClass : EpochDigest[t] % plan[c] \in Nat
  BY ModType, SchedulerAssumption
<1>2. delay \in [OrdinaryClass -> Nat]
  BY <1>1
<1>3. class \in CoverageClass /\ (class = "RETIRED_CONTROL" <=> due = None)
  <2>1. class \in CoverageClass /\ due = DueAfter(class, clock, delay)
    BY OverlayType DEF EpochDue
  <2>. HIDE DEF delay, class, due
  <2>. QED
    BY <1>2, <2>1, DueOfClass
<1>4. end \in MaybeTime /\ end = BoundaryOf(class, row.admitted_at, row.state_decided_at)
  BY OverlayType DEF BoundaryAt, ClassAt, NextTransitionAt
<1>5. end # None => end \in Nat
  BY <1>4 DEF MaybeTime
<1>6. /\ new.coverage_class = class /\ new.next_due_at = due
      /\ new.coverage_next_transition_at = end
      /\ new.admitted_at = row.admitted_at /\ new.state_decided_at = row.state_decided_at
  BY DEF RebasedRow, Row
<1>. HIDE DEF new, class, due, delay, end
<1>7. Events(new, time)
  BY <1>3, <1>4, <1>5, <1>6 DEF Events, Queued, Watched
<1>. QED
  BY <1>7 DEF new

LEMMA LaterKeepsEvents ==
  ASSUME NEW row \in Row, NEW time \in Nat, Events(row, time)
  PROVE  Events(row, time + 1)
<1>1. row.coverage_next_transition_at \in MaybeTime
  BY DEF Row
<1>. QED
  BY <1>1 DEF Events, Queued, Watched, MaybeTime

\* The rows as they are when only their priorities changed.
SameEvents(r, s) ==
  /\ s.coverage_class = r.coverage_class /\ s.next_due_at = r.next_due_at
  /\ s.coverage_next_transition_at = r.coverage_next_transition_at
  /\ s.admitted_at = r.admitted_at /\ s.state_decided_at = r.state_decided_at

LEMMA EventsStep ==
  ASSUME TypeInv, Evented(schedule, clock), [Next]_vars
  PROVE  Evented(schedule', clock')
<1>. SUFFICES ASSUME NEW t \in Token, HasRow(t)'
              PROVE  Events(schedule'[t], clock')
  BY DEF Evented, HasRow
<1>1. /\ clock \in Nat
      /\ HasRow(t) => schedule[t] \in Row /\ Events(schedule[t], clock)
      /\ \A w \in Worker : worker[w].pc \in {"claiming", "received"} =>
           worker[w].now \in Nat /\ worker[w].now <= clock
  BY DEF TypeInv, TypeOK, HasRow, WorkerReady, Evented
<1>2. RowStep(t) /\ clock' \in {clock, clock + 1}
  BY RowSteps, ClockStep
<1>3. Events(schedule'[t], clock)
  <2>1. ASSUME NEW plan \in Plans, schedule'[t] = AdmittedRow("NEW", clock, plan)
        PROVE  Events(schedule'[t], clock)
    BY <1>1, <2>1, AdmittedHasEvents DEF LifecycleState
  <2>2. ASSUME HasRow(t), NEW w \in Worker, Claim(w) \/ ClaimNothing(w),
               RowClaimed(t, worker[w].now)
        PROVE  Events(schedule'[t], clock)
    <3>1. worker[w].now \in Nat
      BY <1>1, <2>2 DEF Claim, ClaimNothing
    <3>2. PICK row \in Row :
            /\ Advanced(t, worker[w].now, row)
            /\ schedule'[t] \in {row, [row EXCEPT !.priority = Priorities[row.coverage_class]]}
      BY <2>2 DEF RowClaimed
    <3>3. Events(row, clock)
      BY <1>1, <2>2, <3>1, <3>2, RefreshKeepsEvents DEF Advanced
    <3>4. SameEvents(row, schedule'[t])
      BY <3>2 DEF SameEvents, Row
    <3>. QED
      BY <3>3, <3>4 DEF SameEvents, Events, Queued, Watched
  <2>3. ASSUME NEW w \in Worker, Finishes(w), RowFinished(t, worker[w].batch, worker[w].now)
        PROVE  Events(schedule'[t], clock)
    <3>1. poll_batch[worker[w].batch] \in Batch
      BY <2>3 DEF Finishes, Complete, CompleteAndFail, TypeInv, TypeOK, WorkerReady, Claimed
    <3>2. \E row \in Row : schedule'[t] = CompletedRow(row, worker[w].batch, clock)
      BY <2>3 DEF RowFinished
    <3>. QED
      BY <1>1, <3>1, <3>2, CompletedHasEvents
  <2>4. ASSUME HasRow(t), RowWoken(t) PROVE Events(schedule'[t], clock)
    BY <1>1, <2>4, PromotedKeepsEvents, WithdrawnKeepsEvents DEF RowWoken, Overlaid
  <2>5. ASSUME HasRow(t), schedule'[t] = RefreshCoverage(t, schedule[t], clock)
        PROVE  Events(schedule'[t], clock)
    BY <1>1, <2>5, RefreshKeepsEvents
  <2>6. ASSUME HasRow(t), NEW plan \in Plans, schedule'[t] = RebasedRow(t, schedule[t], plan)
        PROVE  Events(schedule'[t], clock)
    BY <1>1, <2>6, RebasedHasEvents
  <2>. QED
    BY <1>1, <1>2, <2>1, <2>2, <2>3, <2>4, <2>5, <2>6 DEF RowStep
<1>4. schedule'[t] \in Row
  BY TypeStep DEF TypeInv, TypeOK, HasRow
<1>. QED
  BY <1>1, <1>2, <1>3, <1>4, LaterKeepsEvents

\* No writer leaves a token out of both queues or in both, and no row outlives its class:
\* claims with an old time, moves, overlays granted and withdrawn, completions and new epochs
\* all leave a row its due time or the control rotation, and a boundary that is not later
\* than the end of its class or already behind (scheduling/scheduler.py).
THEOREM RowsWaitForEvents == Spec => []RowsKeepTheirEvents
<1>1. Init => Evented(schedule, clock)
  <2>. SUFFICES ASSUME Init PROVE Evented(schedule, clock)
    OBVIOUS
  <2>1. PICK plan \in Plans :
          schedule = [t \in Token |-> IF InitialState[t] = None THEN None
                                      ELSE AdmittedRow(InitialState[t], 0, plan)]
    BY DEF Init
  <2>2. \A t \in Token : InitialState[t] # None =>
          Events(AdmittedRow(InitialState[t], 0, plan), 0)
    BY AdmittedHasEvents, SchedulerAssumption
  <2>. QED
    BY <2>1, <2>2 DEF Init, Evented
<1>2. TypeInv /\ TypeInv' /\ Evented(schedule, clock) /\ [Next]_vars => Evented(schedule, clock)'
  <2>. SUFFICES ASSUME TypeInv, TypeInv', Evented(schedule, clock), [Next]_vars
                PROVE  Evented(schedule', clock')
    BY DEF Evented, Events, Queued, Watched
  <2>. QED
    BY EventsStep
<1>3. Evented(schedule, clock) => RowsKeepTheirEvents
  BY EventsAreKept
<1>. QED
  BY <1>1, <1>2, <1>3, TypeInvariance, PTL DEF Spec
-----------------------------------------------------------------------------
(* Coverage only cools.                                                    *)

\* A row without overlay has a class it earned by some time, and waits for its end.
Aged(row, time) ==
  /\ row.candidate_coverage_expires_at = None
  /\ row.coverage_next_transition_at =
       BoundaryOf(row.coverage_class, row.admitted_at, row.state_decided_at)
  /\ \E earned \in Nat : earned <= time /\ row.coverage_class = ClassAt(row, earned)

AllAged == \A t \in Token \ CandidateTokens : HasRow(t) => Aged(schedule[t], clock)

\* What a row of that kind is derived from.
SameHistory(row, new) ==
  /\ new.lifecycle_state = row.lifecycle_state
  /\ new.admitted_at = row.admitted_at /\ new.state_decided_at = row.state_decided_at

\* The row as it is derived anew at a time; all writers leave a row they change in this form.
DerivedAt(new, now) ==
  /\ new.candidate_coverage_expires_at = None
  /\ new.coverage_class = ClassAt(new, now)
  /\ new.coverage_next_transition_at = BoundaryAt(new, now)

LEMMA DerivedIsAged ==
  ASSUME NEW new \in Row, NEW now \in Nat, NEW time \in Nat, now <= time, DerivedAt(new, now)
  PROVE  Aged(new, time)
  BY DEF DerivedAt, Aged, BoundaryAt, NextTransitionAt, ClassAt

\* A row that is derived anew after its boundary, or now, does not get younger.
LEMMA DerivedCools ==
  ASSUME NEW row \in Row, NEW new \in Row, NEW now \in Nat, NEW time \in Nat, Aged(row, time),
         SameHistory(row, new), DerivedAt(new, now),
         \/ now = time
         \/ /\ row.coverage_next_transition_at # None
            /\ row.coverage_next_transition_at <= now
  PROVE  Priorities[row.coverage_class] <= Priorities[new.coverage_class]
<1>1. PICK earned \in Nat : earned <= time /\ row.coverage_class = ClassAt(row, earned)
  BY DEF Aged
<1>2. /\ row.lifecycle_state \in LifecycleState
      /\ row.admitted_at \in Nat /\ row.state_decided_at \in Nat
  BY DEF Row
<1>3. earned <= now
  <2>1. CASE now = time
    BY <1>1, <2>1
  <2>2. CASE row.coverage_next_transition_at # None /\ row.coverage_next_transition_at <= now
    <3>1. row.coverage_next_transition_at = NextTransitionAt(row.lifecycle_state, row.admitted_at,
                                                             row.state_decided_at, earned)
      BY <1>1 DEF Aged, NextTransitionAt, ClassAt
    <3>2. earned < row.coverage_next_transition_at /\ row.coverage_next_transition_at \in Nat
      BY <1>2, <2>2, <3>1, BoundaryAhead DEF Row, MaybeTime
    <3>. QED
      BY <2>2, <3>2
  <2>. QED
    BY <2>1, <2>2
<1>4. Priorities[ClassAt(row, earned)] <= Priorities[ClassAt(row, now)]
  BY <1>2, <1>3, ClassesAge DEF ClassAt
<1>5. new.coverage_class = ClassAt(row, now)
  BY DEF DerivedAt, SameHistory, ClassAt
<1>. QED
  BY <1>1, <1>4, <1>5

LEMMA NoOverlay ==
  ASSUME NEW row \in Row, row.candidate_coverage_expires_at = None, NEW now \in Nat
  PROVE  /\ ~OverlayActive(row, now) /\ ~OverlayExpired(row, now) /\ OverlayEnd(row, now) = None
         /\ TransitionAt(row, now) = BoundaryAt(row, now)
  BY DEF OverlayActive, OverlayExpired, OverlayEnd, TransitionAt, Earliest

LEMMA RefreshDerives ==
  ASSUME NEW t \in Token, NEW row \in Row, row.candidate_coverage_expires_at = None, NEW now \in Nat
  PROVE  /\ DerivedAt(RefreshCoverage(t, row, now), now)
         /\ SameHistory(row, RefreshCoverage(t, row, now))
<1>. DEFINE class == ClassAt(row, now)
            due == IF class # "RETIRED_CONTROL" /\ row.next_due_at # None /\ row.next_due_at <= now
                   THEN row.next_due_at ELSE DueAfter(class, now, CoveragePhase(t))
            new == RefreshCoverage(t, row, now)
<1>1. \/ new = row /\ row.coverage_class = class
         /\ row.coverage_next_transition_at = TransitionAt(row, now)
      \/ new = [row EXCEPT !.candidate_coverage_expires_at = None, !.coverage_class = class,
                           !.coverage_next_transition_at = TransitionAt(row, now),
                           !.priority = PriorityAt(row, now), !.next_due_at = due]
  BY NoOverlay DEF RefreshCoverage
<1>2. /\ new.candidate_coverage_expires_at = None /\ new.coverage_class = class
      /\ new.coverage_next_transition_at = TransitionAt(row, now)
      /\ SameHistory(row, new)
  <2>. HIDE DEF new, class, due
  <2>. QED
    BY <1>1 DEF Row, SameHistory
<1>. HIDE DEF new
<1>3. DerivedAt(new, now)
  BY <1>2, NoOverlay DEF DerivedAt, SameHistory, ClassAt, BoundaryAt
<1>. QED
  BY <1>2, <1>3 DEF new

LEMMA AdmittedDerives ==
  ASSUME NEW state, NEW now, NEW plan
  PROVE  DerivedAt(AdmittedRow(state, now, plan), now)
  BY DEF AdmittedRow, DerivedAt, ClassAt, BoundaryAt

LEMMA MovedKeepsOverlay ==
  ASSUME NEW row \in Row, NEW moved, Moved(row, moved)
  PROVE  /\ moved.candidate_coverage_expires_at = row.candidate_coverage_expires_at
         /\ moved.admitted_at = row.admitted_at
         /\ moved.lifecycle_state = row.lifecycle_state => SameHistory(row, moved)
  BY DEF Moved, MovedRow, Row, SameHistory

LEMMA CompletedDerives ==
  ASSUME NEW row \in Row, row.candidate_coverage_expires_at = None, NEW b, NEW now \in Nat
  PROVE  /\ DerivedAt(CompletedRow(row, b, now), now)
         /\ SameHistory(row, CompletedRow(row, b, now))
<1>. DEFINE new == CompletedRow(row, b, now)
<1>1. /\ new.candidate_coverage_expires_at = OverlayEnd(row, now)
      /\ new.coverage_class = ClassAt(row, now)
      /\ new.coverage_next_transition_at = TransitionAt(row, now)
      /\ SameHistory(row, new)
  BY DEF CompletedRow, Row, SameHistory
<1>. HIDE DEF new
<1>2. DerivedAt(new, now)
  BY <1>1, NoOverlay DEF DerivedAt, SameHistory, ClassAt, BoundaryAt
<1>. QED
  BY <1>1, <1>2 DEF new

LEMMA RebasedDerives ==
  ASSUME NEW t, NEW row \in Row, row.candidate_coverage_expires_at = None, NEW plan
  PROVE  /\ DerivedAt(RebasedRow(t, row, plan), clock)
         /\ SameHistory(row, RebasedRow(t, row, plan))
<1>. DEFINE new == RebasedRow(t, row, plan)
<1>1. /\ new.candidate_coverage_expires_at = None
      /\ new.coverage_class = ClassAt(row, clock)
      /\ new.coverage_next_transition_at = BoundaryAt(row, clock)
      /\ SameHistory(row, new)
  BY DEF RebasedRow, Row, SameHistory
<1>. HIDE DEF new
<1>2. DerivedAt(new, clock)
  BY <1>1 DEF DerivedAt, SameHistory, ClassAt, BoundaryAt
<1>. QED
  BY <1>1, <1>2 DEF new

LEMMA RowCools ==
  ASSUME TypeInv, TypeInv', AllAged, [Next]_vars, NEW t \in Token \ CandidateTokens,
         HasRow(t) \/ HasRow(t)'
  PROVE  /\ HasRow(t)' /\ Aged(schedule'[t], clock')
         /\ HasRow(t) /\ schedule'[t].lifecycle_state = schedule[t].lifecycle_state =>
              Priorities[schedule[t].coverage_class] <= Priorities[schedule'[t].coverage_class]
<1>. DEFINE row == schedule[t]
            new == schedule'[t]
            Cooled == /\ new # None /\ Aged(new, clock)
                      /\ HasRow(t) /\ new.lifecycle_state = row.lifecycle_state =>
                           Priorities[row.coverage_class] <= Priorities[new.coverage_class]
<1>1. /\ clock \in Nat /\ clock' \in Nat /\ clock <= clock'
      /\ HasRow(t) => row \in Row /\ Aged(row, clock) /\ row.candidate_coverage_expires_at = None
                      /\ Priorities[row.coverage_class] \in Nat
      /\ new # None => new \in Row
      /\ \A w \in Worker : worker[w].pc \in {"claiming", "received"} =>
           worker[w].now \in Nat /\ worker[w].now <= clock
  <2>1. clock \in Nat /\ clock' \in Nat /\ clock <= clock'
    BY ClockStep DEF TypeInv, TypeOK
  <2>2. HasRow(t) => row \in Row /\ Aged(row, clock) /\ row.candidate_coverage_expires_at = None
    BY DEF TypeInv, TypeOK, HasRow, AllAged, Aged
  <2>3. HasRow(t) => Priorities[row.coverage_class] \in Nat
    BY <2>2, PriorityType DEF Row
  <2>4. new # None => new \in Row
    BY DEF TypeInv, TypeOK
  <2>. QED
    BY <2>1, <2>2, <2>3, <2>4 DEF TypeInv, WorkerReady
<1>2. RowStep(t)
  BY RowSteps
<1>0. None \notin Row
  BY NullAssumption
<1>. HIDE DEF row, new
<1>3. ASSUME HasRow(t), row = new PROVE Cooled
  BY <1>1, <1>3 DEF HasRow, row
<1>4. ASSUME NEW plan \in Plans, ~HasRow(t), new = AdmittedRow("NEW", clock, plan) PROVE Cooled
  <2>1. new \in Row
    BY <1>1, <1>4, AdmittedType DEF LifecycleState
  <2>. QED
    BY <1>0, <1>1, <1>4, <2>1, AdmittedDerives, DerivedIsAged
\* A row derived anew at the present time, or by a claim behind its boundary.
<1>5. ASSUME HasRow(t), NEW now \in Nat, now <= clock, new \in Row, SameHistory(row, new),
             DerivedAt(new, now),
             \/ now = clock
             \/ /\ row.coverage_next_transition_at # None
                /\ row.coverage_next_transition_at <= now
      PROVE  Cooled
  <2>1. Aged(new, clock)
    BY <1>1, <1>5, DerivedIsAged
  <2>2. Priorities[row.coverage_class] <= Priorities[new.coverage_class]
    BY <1>1, <1>5, DerivedCools
  <2>. QED
    BY <1>0, <1>5, <2>1, <2>2
<1>6. ASSUME HasRow(t), NEW w \in Worker, Claim(w) \/ ClaimNothing(w),
             RowClaimed(t, worker[w].now)
      PROVE  Cooled
  <2>. DEFINE now == worker[w].now
  <2>1. now \in Nat /\ now <= clock
    BY <1>1, <1>6 DEF Claim, ClaimNothing
  <2>2. PICK after \in Row :
          /\ Advanced(t, now, after)
          /\ new \in {after, [after EXCEPT !.priority = Priorities[after.coverage_class]]}
    BY <1>6 DEF RowClaimed, new
  <2>. HIDE DEF now
  <2>3. /\ SameHistory(after, new) /\ new.coverage_class = after.coverage_class
        /\ new.candidate_coverage_expires_at = after.candidate_coverage_expires_at
        /\ new.coverage_next_transition_at = after.coverage_next_transition_at
    BY <2>2 DEF Row, SameHistory
  <2>4. CASE after = row
    <3>1. Aged(new, clock)
      BY <1>1, <1>6, <2>3, <2>4 DEF Aged, ClassAt, SameHistory
    <3>2. new \in Row
      <4>1. Priorities[after.coverage_class] \in Nat
        BY PriorityType DEF Row
      <4>. QED
        BY <2>2, <4>1 DEF Row
    <3>. QED
      BY <1>0, <1>1, <1>6, <2>3, <2>4, <3>1, <3>2
  <2>5. CASE /\ row.coverage_next_transition_at # None
             /\ row.coverage_next_transition_at <= now
             /\ after = RefreshCoverage(t, row, now)
    <3>1. DerivedAt(after, now) /\ SameHistory(row, after)
      BY <1>1, <1>6, <2>1, <2>5, RefreshDerives
    <3>2. DerivedAt(new, now) /\ SameHistory(row, new)
      BY <2>3, <3>1 DEF DerivedAt, SameHistory, ClassAt, BoundaryAt
    <3>3. new \in Row
      <4>1. Priorities[after.coverage_class] \in Nat
        BY PriorityType DEF Row
      <4>. QED
        BY <2>2, <4>1 DEF Row
    <3>. QED
      BY <1>5, <1>6, <2>1, <2>5, <3>2, <3>3
  <2>. QED
    BY <2>2, <2>4, <2>5 DEF Advanced, row
<1>7. ASSUME HasRow(t), NEW w \in Worker, Finishes(w),
             RowFinished(t, worker[w].batch, worker[w].now)
      PROVE  Cooled
  <2>. DEFINE b == worker[w].batch
  <2>1. PICK moved \in Row : Moved(row, moved) /\ new = CompletedRow(moved, b, clock)
    BY <1>7 DEF RowFinished, Overlaid, row, new
  <2>2. poll_batch[b] \in Batch
    BY <1>7 DEF Finishes, Complete, CompleteAndFail, TypeInv, TypeOK, WorkerReady, Claimed
  <2>. HIDE DEF b
  <2>3. /\ moved.candidate_coverage_expires_at = None
        /\ moved.lifecycle_state = row.lifecycle_state => SameHistory(row, moved)
    BY <1>1, <1>7, <2>1, MovedKeepsOverlay
  <2>4. DerivedAt(new, clock) /\ SameHistory(moved, new)
    BY <1>1, <2>1, <2>3, CompletedDerives
  <2>5. new \in Row
    BY <1>1, <2>1, <2>2, CompletedType
  <2>6. Aged(new, clock)
    BY <1>1, <2>4, <2>5, DerivedIsAged
  <2>7. CASE new.lifecycle_state = row.lifecycle_state
    <3>1. SameHistory(row, new)
      BY <2>3, <2>4, <2>7 DEF SameHistory
    <3>. QED
      BY <1>1, <1>5, <1>7, <2>4, <2>5, <3>1
  <2>. QED
    BY <1>0, <2>5, <2>6, <2>7
<1>8. ASSUME HasRow(t), RowWoken(t) PROVE Cooled
  <2>1. new = row
    BY <1>8 DEF RowWoken, Overlaid, row, new
  <2>. QED
    BY <1>3, <1>8, <2>1
<1>9. ASSUME HasRow(t), new = RefreshCoverage(t, row, clock) PROVE Cooled
  BY <1>1, <1>5, <1>9, RefreshDerives, RefreshType
<1>10. ASSUME HasRow(t), NEW plan \in Plans, new = RebasedRow(t, row, plan) PROVE Cooled
  BY <1>1, <1>5, <1>10, RebasedDerives, RebasedType
<1>11. Cooled
  BY <1>2, <1>3, <1>4, <1>6, <1>7, <1>8, <1>9, <1>10 DEF RowStep, row, new
<1>12. Aged(new, clock) => Aged(new, clock')
  BY <1>1 DEF Aged
<1>. QED
  BY <1>11, <1>12 DEF HasRow, row, new

LEMMA AllAgedInit == Init => AllAged
<1>. SUFFICES ASSUME Init, NEW t \in Token, HasRow(t) PROVE Aged(schedule[t], clock)
  BY DEF AllAged
<1>1. PICK plan \in Plans : schedule[t] = AdmittedRow(InitialState[t], 0, plan)
  BY DEF Init, HasRow
<1>2. schedule[t] \in Row /\ clock = 0
  BY TypeInit DEF Init, TypeInv, TypeOK, HasRow
<1>. QED
  BY <1>1, <1>2, AdmittedDerives, DerivedIsAged

THEOREM AgedInvariance == Spec => []AllAged
<1>1. TypeInv /\ TypeInv' /\ AllAged /\ [Next]_vars => AllAged'
  <2>. SUFFICES ASSUME TypeInv, TypeInv', AllAged, [Next]_vars,
                       NEW t \in Token \ CandidateTokens, HasRow(t)'
                PROVE  Aged(schedule'[t], clock')
    BY DEF AllAged, Aged, HasRow, ClassAt
  <2>. QED
    BY RowCools
<1>. QED
  BY <1>1, AllAgedInit, TypeInvariance, PTL DEF Spec

\* While a token that evaluations never cover keeps its lifecycle state its coverage only
\* cools: a claim that slept behind the gate refreshes a row only behind its boundary, hence
\* after the time its class was earned, and a reapplied state, a completion and a new epoch
\* derive the class with the present time (scheduling/policy.py, scheduling/scheduler.py).
THEOREM CoverageOnlyCools == Spec => CoverageNeverRejuvenates
<1>. DEFINE Cools == \A t \in Token \ CandidateTokens :
              /\ HasRow(t)
              /\ schedule'[t].lifecycle_state = schedule[t].lifecycle_state
              => Priorities[schedule[t].coverage_class]
                   <= Priorities[schedule'[t].coverage_class]
<1>1. TypeInv /\ TypeInv' /\ AllAged /\ [Next]_vars => [Cools]_vars
  BY RowCools
<1>. HIDE DEF Cools
<1>2. Spec => [][Cools]_vars
  BY <1>1, TypeInvariance, AgedInvariance, PTL DEF Spec
<1>. QED
  BY <1>2 DEF CoverageNeverRejuvenates, Cools
-----------------------------------------------------------------------------
(* The batches: no batch completes on rows it lost, no two workers hold one *)
(* token, the whole implements LeasedWork; the request budget holds, and     *)
(* every poll is accounted for once, with the due time it had at first.      *)

(* Every step does one of four things to the lease columns, the batches and *)
(* the outcomes.                                                            *)

\* A claim made at an earlier or the present time leases unleased rows.
LeaseTaken(b, now, members) ==
  /\ b \in BatchId
  /\ poll_batch[b] = None
  /\ now \in Nat /\ now <= clock
  /\ members \in SUBSET Token
  /\ \A t \in members : Unleased(t, now)
  /\ HasBatchCapacity(now)
  /\ poll_batch'[b] # None
  /\ poll_batch'[b].members = members
  /\ poll_batch'[b].lease_expires_at = LeaseEnd(now)
  /\ \A t \in members : poll_batch'[b].previous[t] = lease[t].id
  /\ \A c \in BatchId : c # b => poll_batch'[c] = poll_batch[c]
  /\ lease' = [t \in Token |-> IF t \in members THEN [id |-> b, expires_at |-> LeaseEnd(now)]
                                                ELSE lease[t]]
  /\ UNCHANGED <<clock, outcome>>

LeaseFinished(b) ==
  /\ b \in Claimed
  /\ OwnsBatch(b)
  /\ outcome' = [outcome EXCEPT ![b] = clock]
  /\ lease' = [t \in Token |-> IF t \in poll_batch[b].members THEN NoLease ELSE lease[t]]
  /\ UNCHANGED <<clock, poll_batch>>

LeasesReleased ==
  /\ ~running
  /\ lease' = [t \in Token |-> NoLease]
  /\ UNCHANGED <<clock, poll_batch, outcome>>

LeasesKept ==
  /\ UNCHANGED <<lease, poll_batch, outcome>>
  /\ clock' = clock \/ clock' = clock + 1

\* A worker that polls after the step polled the same batch before it.
PollersKept ==
  \A v \in Worker : Polling(v)' => Polling(v) /\ worker'[v].batch = worker[v].batch

LEMMA LeaseBatchTakes ==
  ASSUME TypeInv, TypeInv', NEW w \in Worker, NEW rows, NEW now \in Nat, now <= clock,
         NEW kind \in {"ordinary", "retired_control"}, NEW members \in SUBSET Token,
         \A t \in members : Unleased(t, now), HasBatchCapacity(now),
         LeaseBatch(w, rows, now, kind, members), UNCHANGED <<clock, outcome>>
  PROVE  \E b \in BatchId :
           /\ LeaseTaken(b, now, members)
           /\ worker' = [worker EXCEPT ![w] = [pc |-> "polling", now |-> None, batch |-> b]]
<1>1. PICK b \in BatchId, plan \in Plans :
        /\ poll_batch[b] = None
        /\ poll_batch' = [poll_batch EXCEPT ![b] =
             [kind |-> kind, claimed_at |-> now,
              lease_expires_at |-> LeaseEnd(now),
              control_window |-> IF kind = "retired_control" THEN Window(now) ELSE None,
              plan |-> plan, members |-> members,
              due_at |-> [t \in Token |->
                 IF t \in members THEN MemberDue(rows[t], kind, now) ELSE None],
              previous |-> [t \in Token |->
                 IF t \in members THEN lease[t].id ELSE None]]]
        /\ lease' = [t \in Token |->
             IF t \in members THEN [id |-> b, expires_at |-> LeaseEnd(now)] ELSE lease[t]]
        /\ worker' = [worker EXCEPT ![w] = [pc |-> "polling", now |-> None, batch |-> b]]
  BY DEF LeaseBatch
<1>2. poll_batch'[b] =
        [kind |-> kind, claimed_at |-> now,
         lease_expires_at |-> LeaseEnd(now),
         control_window |-> IF kind = "retired_control" THEN Window(now) ELSE None,
         plan |-> plan, members |-> members,
         due_at |-> [t \in Token |->
            IF t \in members THEN MemberDue(rows[t], kind, now) ELSE None],
         previous |-> [t \in Token |-> IF t \in members THEN lease[t].id ELSE None]]
  BY <1>1 DEF TypeInv, TypeOK
<1>3. \A c \in BatchId : c # b => poll_batch'[c] = poll_batch[c]
  BY <1>1 DEF TypeInv, TypeOK
<1>4. poll_batch'[b] # None
  <2>1. worker'[w].pc = "polling" /\ worker'[w].batch = b
    BY <1>1 DEF TypeInv, TypeOK
  <2> QED
    BY <2>1 DEF TypeInv, WorkerReady, Claimed
<1>5. \A t \in members : poll_batch'[b].previous[t] = lease[t].id
  BY <1>2
<1>6. poll_batch'[b].members = members /\ poll_batch'[b].lease_expires_at = LeaseEnd(now)
  BY <1>2
<1>7. LeaseTaken(b, now, members)
  BY <1>1, <1>3, <1>4, <1>5, <1>6 DEF LeaseTaken
<1> QED
  BY <1>1, <1>7

LEMMA ClaimTakes ==
  ASSUME TypeInv, TypeInv', NEW w \in Worker, Claim(w)
  PROVE  \E b \in BatchId, members \in SUBSET Token :
           /\ LeaseTaken(b, worker[w].now, members)
           /\ worker' = [worker EXCEPT ![w] = [pc |-> "polling", now |-> None, batch |-> b]]
<1> DEFINE now == worker[w].now
<1>1. now \in Nat /\ now <= clock
  BY DEF Claim, TypeInv, WorkerReady
<1>2. PICK skipped \in SUBSET Contended, held \in SUBSET Contended,
           taken \in SUBSET Contended :
        LET rows == Advance(now, skipped)
            ordinary == OrdinaryEligible(rows, now)
            control == ControlEligible(rows, now)
        IN  /\ HasBatchCapacity(now)
            /\ \/ LeaseBatch(w, rows, now, "retired_control",
                    HeadBatch(control, held, taken, ControlOrder(rows, control),
                              ControlTokens))
               \/ LeaseBatch(w, rows, now, "ordinary",
                    HeadBatch(ordinary, held, taken, OrdinaryOrder(rows, ordinary),
                              BatchSize))
  BY DEF Claim
<1> DEFINE rows == Advance(now, skipped)
           ordinary == OrdinaryEligible(rows, now)
           control == ControlEligible(rows, now)
           scan == HeadBatch(control, held, taken, ControlOrder(rows, control), ControlTokens)
           poll == HeadBatch(ordinary, held, taken, OrdinaryOrder(rows, ordinary), BatchSize)
<1>3. scan \in SUBSET Token /\ \A t \in scan : Unleased(t, now)
  <2>1. \A t \in control : t \in Token /\ Unleased(t, now)
    BY DEF ControlEligible
  <2> QED
    BY <2>1, HeadBatchMembers
<1>4. poll \in SUBSET Token /\ \A t \in poll : Unleased(t, now)
  <2>1. \A t \in ordinary : t \in Token /\ Unleased(t, now)
    BY DEF OrdinaryEligible
  <2> QED
    BY <2>1, HeadBatchMembers
<1>5. UNCHANGED <<clock, outcome>>
  BY DEF Claim
<1> HIDE DEF now, rows, ordinary, control, scan, poll
<1>6. /\ HasBatchCapacity(now)
      /\ \/ LeaseBatch(w, rows, now, "retired_control", scan)
         \/ LeaseBatch(w, rows, now, "ordinary", poll)
  BY <1>2 DEF rows, ordinary, control, scan, poll
<1>7. \E b \in BatchId, members \in SUBSET Token :
        /\ LeaseTaken(b, now, members)
        /\ worker' = [worker EXCEPT ![w] = [pc |-> "polling", now |-> None, batch |-> b]]
  BY <1>1, <1>3, <1>4, <1>5, <1>6, LeaseBatchTakes
<1> QED
  BY <1>7 DEF now

LEMMA CompletionFinishes ==
  ASSUME TypeInv, NEW w \in Worker, Complete(w) \/ CompleteAndFail(w)
  PROVE  /\ LeaseFinished(worker[w].batch)
         /\ Polling(w) /\ ~Polling(w)'
         /\ PollersKept
<1> DEFINE b == worker[w].batch
<1>1. /\ worker[w].pc = "received"
      /\ OwnsBatch(b)
      /\ \E rows : FinishBatch(b, rows)
      /\ UNCHANGED <<clock, poll_batch>>
  BY DEF Complete, CompleteAndFail
<1>2. b \in Claimed
  BY <1>1 DEF TypeInv, WorkerReady
<1>3. LeaseFinished(b)
  BY <1>1, <1>2 DEF LeaseFinished, FinishBatch
<1>4. worker'[w] = IdleWorker /\ \A v \in Worker : worker'[v] \in {worker[v], IdleWorker}
  BY DEF Complete, CompleteAndFail, Collapse, TypeInv, TypeOK
<1> QED
  BY <1>1, <1>3, <1>4 DEF Polling, PollersKept, IdleWorker

\* The four kinds of steps.
LeaseStep ==
  \/ \E w \in Worker, b \in BatchId, members \in SUBSET Token :
       /\ LeaseTaken(b, worker[w].now, members)
       /\ worker' = [worker EXCEPT ![w] = [pc |-> "polling", now |-> None, batch |-> b]]
  \/ \E w \in Worker :
       LeaseFinished(worker[w].batch) /\ Polling(w) /\ ~Polling(w)' /\ PollersKept
  \/ LeasesReleased /\ PollersKept
  \/ LeasesKept /\ PollersKept

LEMMA LeaseSteps == TypeInv /\ TypeInv' /\ [Next]_vars => LeaseStep
<1> SUFFICES ASSUME TypeInv, TypeInv', [Next]_vars PROVE LeaseStep
  OBVIOUS
<1>1. CASE Tick \/ Restart \/ UNCHANGED vars
  BY <1>1 DEF Tick, Restart, vars, store, LeaseStep, LeasesKept, PollersKept, Polling,
              TypeInv, TypeOK
<1>2. CASE StartEpoch
  BY <1>2 DEF StartEpoch, LeaseStep, LeasesReleased, PollersKept, Polling
<1>3. ASSUME Collapse, UNCHANGED <<clock, store>> PROVE LeaseStep
  BY <1>3, CollapseWorkers DEF store, LeaseStep, LeasesKept, PollersKept, Polling, IdleWorker
<1>4. ASSUME NEW w \in Worker, WorkerStep(w) PROVE LeaseStep
  <2>1. CASE Claim(w)
    BY <2>1, ClaimTakes DEF LeaseStep
  <2>2. CASE Complete(w) \/ CompleteAndFail(w)
    BY <2>2, CompletionFinishes DEF LeaseStep
  <2>3. CASE BeginClaim(w)
    BY <2>3 DEF BeginClaim, store, LeaseStep, LeasesKept, PollersKept, Polling, IdleWorker,
                TypeInv, TypeOK
  <2>4. CASE ClaimNothing(w)
    BY <2>4 DEF ClaimNothing, LeaseStep, LeasesKept, PollersKept, Polling, IdleWorker,
                TypeInv, TypeOK
  <2>5. CASE Receive(w)
    BY <2>5 DEF Receive, store, LeaseStep, LeasesKept, PollersKept, Polling,
                TypeInv, TypeOK, WorkerState
  <2>6. CASE ClaimRaises(w) \/ LoseLease(w)
    BY <1>3, <2>6 DEF ClaimRaises, LoseLease
  <2> QED
    BY <1>4, <2>1, <2>2, <2>3, <2>4, <2>5, <2>6 DEF WorkerStep
<1>5. ASSUME NEW t \in Token, TokenStep(t) PROVE LeaseStep
  BY <1>5 DEF TokenStep, Admit, ReapplyState, WakeCandidate, LeaseStep, LeasesKept,
              PollersKept, Polling
<1>6. CASE Stop
  BY <1>3, <1>6 DEF Stop
<1> QED
  BY <1>1, <1>2, <1>4, <1>5, <1>6 DEF Next
-----------------------------------------------------------------------------
(* The inductive invariant of the leases.                                  *)

OutcomesClaimed == \A b \in BatchId : outcome[b] # None => b \in Claimed

\* The batch a token was reclaimed from is gone for good: it has no outcome and
\* no lease will ever name it for that token again.
ReclaimedForGood ==
  \A c \in Claimed : \A t \in poll_batch[c].members :
    LET b == poll_batch[c].previous[t]
    IN  b # None => /\ b \in Claimed
                    /\ t \in poll_batch[b].members
                    /\ lease[t].id # b
                    /\ outcome[b] = None

PollersApart ==
  \A v, w \in Worker : v # w /\ Polling(v) /\ Polling(w) => worker[v].batch # worker[w].batch

\* A polled batch has no outcome yet.
PollersOpen == \A w \in Worker : Polling(w) => outcome[worker[w].batch] = None

\* While its lease lasts, a polled batch owns all its rows.
PollersOwn ==
  \A w \in Worker : Polling(w) /\ clock < poll_batch[worker[w].batch].lease_expires_at =>
    \A t \in poll_batch[worker[w].batch].members : lease[t].id = worker[w].batch

LeaseInv ==
  /\ LeaseMatchesOpenBatch
  /\ OutcomesClaimed
  /\ ReclaimedForGood
  /\ PollersApart
  /\ PollersOpen
  /\ PollersOwn

LEMMA NoneNotBatchId == None \notin BatchId
  BY PolicyAssumption, SchedulerAssumption DEF BatchId

LEMMA LeaseInit == Init => LeaseInv
  BY DEF Init, LeaseInv, LeaseMatchesOpenBatch, NoLease, OutcomesClaimed, ReclaimedForGood,
         Claimed, PollersApart, PollersOpen, PollersOwn, Polling, IdleWorker

\* What TypeInv says of the leases and batches.
LEMMA LeaseTypes ==
  ASSUME TypeInv
  PROVE  /\ clock \in Nat
         /\ lease \in [Token -> Lease]
         /\ \A t \in Token : lease[t].id \in BatchId \cup {None}
         /\ outcome \in [BatchId -> MaybeTime]
         /\ DOMAIN poll_batch = BatchId
         /\ \A b \in Claimed : /\ b \in BatchId
                               /\ poll_batch[b].members \subseteq Token
                               /\ poll_batch[b].lease_expires_at \in Nat
         /\ \A w \in Worker : Polling(w) => worker[w].batch \in Claimed
         /\ \A w \in Worker : ~running => ~Polling(w)
  BY DEF TypeInv, TypeOK, Lease, Claimed, Batch, WorkerReady, Polling

LEMMA TakenKeeps ==
  ASSUME TypeInv, TypeInv', LeaseInv,
         NEW w \in Worker, NEW b \in BatchId, NEW members \in SUBSET Token, NEW now,
         LeaseTaken(b, now, members),
         worker' = [worker EXCEPT ![w] = [pc |-> "polling", now |-> None, batch |-> b]]
  PROVE  LeaseInv'
<1> USE NoneNotBatchId
<1>1. Claimed' = Claimed \cup {b} /\ b \notin Claimed
  BY DEF LeaseTaken, Claimed
<1>2. \A c \in Claimed : poll_batch'[c] = poll_batch[c]
  BY LeaseTypes DEF LeaseTaken, Claimed
<1>3. /\ \A t \in members : lease'[t].id = b /\ lease'[t].expires_at = LeaseEnd(now)
      /\ \A t \in Token \ members : lease'[t] = lease[t]
  BY DEF LeaseTaken
<1>4. outcome' = outcome /\ clock' = clock
  BY DEF LeaseTaken
<1>5. outcome[b] = None
  BY <1>1 DEF LeaseInv, OutcomesClaimed
<1>6. LeaseMatchesOpenBatch'
  <2> SUFFICES ASSUME NEW t \in Token
               PROVE  LET c == lease'[t].id IN
                        /\ c = None => lease'[t].expires_at = None
                        /\ c # None => /\ c \in Claimed' /\ outcome'[c] = None
                                       /\ t \in poll_batch'[c].members
                                       /\ lease'[t].expires_at = poll_batch'[c].lease_expires_at
    BY DEF LeaseMatchesOpenBatch, Open
  <2>1. CASE t \in members
    BY <2>1, <1>1, <1>3, <1>4, <1>5 DEF LeaseTaken
  <2>2. CASE t \notin members
    BY <2>2, <1>1, <1>2, <1>3, <1>4 DEF LeaseInv, LeaseMatchesOpenBatch, Open
  <2> QED
    BY <2>1, <2>2
<1>7. OutcomesClaimed'
  BY <1>1, <1>4 DEF LeaseInv, OutcomesClaimed
<1>8. ReclaimedForGood'
  <2> SUFFICES ASSUME NEW c \in Claimed', NEW t \in poll_batch'[c].members,
                      poll_batch'[c].previous[t] # None
               PROVE  LET p == poll_batch'[c].previous[t]
                      IN  /\ p \in Claimed'
                          /\ t \in poll_batch'[p].members
                          /\ lease'[t].id # p
                          /\ outcome'[p] = None
    BY DEF ReclaimedForGood
  <2> DEFINE p == poll_batch'[c].previous[t]
  <2>0. t \in Token
    BY LeaseTypes, <1>1, <1>2 DEF LeaseTaken
  <2>1. CASE c = b
    <3>1. t \in members /\ p = lease[t].id
      BY <2>1 DEF LeaseTaken
    <3>2. p \in Claimed /\ outcome[p] = None /\ t \in poll_batch[p].members
      BY <3>1, <2>0 DEF LeaseInv, LeaseMatchesOpenBatch, Open
    <3> QED
      BY <3>1, <3>2, <1>1, <1>2, <1>3, <1>4
  <2>2. CASE c # b
    <3>1. /\ c \in Claimed /\ p = poll_batch[c].previous[t] /\ t \in poll_batch[c].members
      BY <2>2, <1>1, <1>2
    <3>2. p \in Claimed /\ outcome[p] = None /\ t \in poll_batch[p].members /\ lease[t].id # p
      BY <3>1 DEF LeaseInv, ReclaimedForGood
    <3> QED
      BY <2>0, <3>2, <1>1, <1>2, <1>3, <1>4
  <2> QED
    BY <2>1, <2>2
<1>9. /\ worker'[w].batch = b
      /\ \A v \in Worker : v # w => worker'[v] = worker[v]
  BY DEF TypeInv, TypeOK
<1>10. PollersApart'
  BY <1>1, <1>9, LeaseTypes DEF LeaseInv, PollersApart, Polling
<1>11. PollersOwn'
  <2> SUFFICES ASSUME NEW v \in Worker, Polling(v)',
                      clock' < poll_batch'[worker'[v].batch].lease_expires_at,
                      NEW t \in poll_batch'[worker'[v].batch].members
               PROVE  lease'[t].id = worker'[v].batch
    BY DEF PollersOwn
  <2>1. CASE v = w
    BY <2>1, <1>3, <1>9 DEF LeaseTaken
  <2>2. CASE v # w
    <3> DEFINE c == worker[v].batch
    <3>1. worker'[v].batch = c /\ Polling(v)
      BY <2>2, <1>9 DEF Polling
    <3>2. c \in Claimed /\ poll_batch'[c] = poll_batch[c]
      BY <3>1, <1>2, LeaseTypes
    <3>3. t \in Token /\ lease[t].id = c /\ clock < poll_batch[c].lease_expires_at
      BY <3>1, <3>2, <1>4, LeaseTypes DEF LeaseInv, PollersOwn
    <3>4. lease[t].expires_at = poll_batch[c].lease_expires_at /\ c # None
      BY <3>2, <3>3, LeaseTypes DEF LeaseInv, LeaseMatchesOpenBatch
    <3>5. ~Unleased(t, now)
      BY <3>2, <3>3, <3>4, LeaseTypes DEF Unleased, LeaseTaken
    <3> QED
      BY <3>1, <3>3, <3>5, <1>3 DEF LeaseTaken
  <2> QED
    BY <2>1, <2>2
<1>12. PollersOpen'
  BY <1>4, <1>5, <1>9 DEF LeaseInv, PollersOpen, Polling
<1> QED
  BY <1>6, <1>7, <1>8, <1>10, <1>11, <1>12 DEF LeaseInv

LEMMA FinishedKeeps ==
  ASSUME TypeInv, TypeInv', LeaseInv, NEW w \in Worker, LeaseFinished(worker[w].batch),
         Polling(w), ~Polling(w)', PollersKept
  PROVE  LeaseInv'
<1> USE NoneNotBatchId
<1> DEFINE b == worker[w].batch
<1>1. /\ b \in Claimed /\ b \in BatchId
      /\ \A t \in poll_batch[b].members : lease[t].id = b
      /\ UNCHANGED <<clock, poll_batch>> /\ Claimed' = Claimed
  BY LeaseTypes DEF LeaseFinished, OwnsBatch, Claimed
<1>2. \A c \in BatchId : outcome'[c] = IF c = b THEN clock ELSE outcome[c]
  BY LeaseTypes DEF LeaseFinished
<1>3. \A t \in Token : lease'[t] = IF t \in poll_batch[b].members THEN NoLease ELSE lease[t]
  BY DEF LeaseFinished
<1> HIDE DEF b
<1>4. LeaseMatchesOpenBatch'
  <2> SUFFICES ASSUME NEW t \in Token
               PROVE  LET c == lease'[t].id IN
                        /\ c = None => lease'[t].expires_at = None
                        /\ c # None => /\ c \in Claimed /\ outcome'[c] = None
                                       /\ t \in poll_batch[c].members
                                       /\ lease'[t].expires_at = poll_batch[c].lease_expires_at
    BY <1>1 DEF LeaseMatchesOpenBatch, Open
  <2>1. CASE t \in poll_batch[b].members
    BY <2>1, <1>3 DEF NoLease
  <2>2. CASE t \notin poll_batch[b].members
    <3>1. lease'[t] = lease[t]
      BY <2>2, <1>3
    <3>2. lease[t].id # b
      BY <2>2, <1>1 DEF LeaseInv, LeaseMatchesOpenBatch
    <3> QED
      BY <3>1, <3>2, <1>2, LeaseTypes DEF LeaseInv, LeaseMatchesOpenBatch, Open
  <2> QED
    BY <2>1, <2>2
<1>5. OutcomesClaimed'
  BY <1>1, <1>2 DEF LeaseInv, OutcomesClaimed
<1>6. ReclaimedForGood'
  <2> SUFFICES ASSUME NEW c \in Claimed, NEW t \in poll_batch[c].members,
                      poll_batch[c].previous[t] # None
               PROVE  LET p == poll_batch[c].previous[t]
                      IN  /\ p \in Claimed
                          /\ t \in poll_batch[p].members
                          /\ lease'[t].id # p
                          /\ outcome'[p] = None
    BY <1>1 DEF ReclaimedForGood
  <2> DEFINE p == poll_batch[c].previous[t]
  <2>1. p \in Claimed /\ outcome[p] = None /\ t \in poll_batch[p].members /\ lease[t].id # p
    BY DEF LeaseInv, ReclaimedForGood
  <2>2. p # b /\ t \in Token
    BY <1>1, <2>1, LeaseTypes
  <2> QED
    BY <1>2, <1>3, <2>1, <2>2, LeaseTypes DEF NoLease
<1>7. PollersApart'
  BY DEF LeaseInv, PollersApart, PollersKept
<1>8. PollersOwn'
  <2> SUFFICES ASSUME NEW v \in Worker, Polling(v)',
                      clock < poll_batch[worker'[v].batch].lease_expires_at,
                      NEW t \in poll_batch[worker'[v].batch].members
               PROVE  lease'[t].id = worker'[v].batch
    BY <1>1 DEF PollersOwn
  <2> DEFINE c == worker[v].batch
  <2>1. worker'[v].batch = c /\ Polling(v) /\ v # w
    BY DEF PollersKept
  <2>2. t \in Token /\ lease[t].id = c
    BY <2>1, LeaseTypes DEF LeaseInv, PollersOwn
  <2>3. c # b
    BY <2>1 DEF LeaseInv, PollersApart, b
  <2> QED
    BY <2>1, <2>2, <2>3, <1>1, <1>3
<1>9. PollersOpen'
  <2> SUFFICES ASSUME NEW v \in Worker, Polling(v)'
               PROVE  outcome'[worker'[v].batch] = None
    BY DEF PollersOpen
  <2>1. worker'[v].batch = worker[v].batch /\ Polling(v) /\ v # w
    BY DEF PollersKept
  <2>2. worker[v].batch # b /\ worker[v].batch \in BatchId
    BY <2>1, LeaseTypes DEF LeaseInv, PollersApart, b
  <2> QED
    BY <2>1, <2>2, <1>2 DEF LeaseInv, PollersOpen
<1> QED
  BY <1>4, <1>5, <1>6, <1>7, <1>8, <1>9 DEF LeaseInv

LEMMA ReleasedKeeps ==
  ASSUME TypeInv, TypeInv', LeaseInv, LeasesReleased, PollersKept
  PROVE  LeaseInv'
<1> USE NoneNotBatchId
<1>1. /\ \A t \in Token : lease'[t] = NoLease
      /\ UNCHANGED <<clock, poll_batch, outcome>>
      /\ Claimed' = Claimed /\ Open' = Open
  BY DEF LeasesReleased, Claimed, Open
<1>2. \A v \in Worker : ~Polling(v)'
  BY LeaseTypes DEF LeasesReleased, PollersKept
<1>3. LeaseMatchesOpenBatch'
  BY <1>1 DEF LeaseMatchesOpenBatch, NoLease
<1>4. OutcomesClaimed'
  BY <1>1 DEF LeaseInv, OutcomesClaimed
<1>5. ReclaimedForGood'
  BY <1>1, LeaseTypes DEF LeaseInv, ReclaimedForGood, NoLease
<1>6. PollersApart' /\ PollersOpen' /\ PollersOwn'
  BY <1>2 DEF PollersApart, PollersOpen, PollersOwn
<1> QED
  BY <1>3, <1>4, <1>5, <1>6 DEF LeaseInv

LEMMA KeptKeeps ==
  ASSUME TypeInv, TypeInv', LeaseInv, LeasesKept, PollersKept
  PROVE  LeaseInv'
<1>1. UNCHANGED <<lease, poll_batch, outcome>> /\ Claimed' = Claimed /\ Open' = Open
  BY DEF LeasesKept, Claimed, Open
<1>2. LeaseMatchesOpenBatch' /\ OutcomesClaimed' /\ ReclaimedForGood'
  BY <1>1 DEF LeaseInv, LeaseMatchesOpenBatch, OutcomesClaimed, ReclaimedForGood
<1>3. PollersApart' /\ PollersOpen'
  BY <1>1 DEF LeaseInv, PollersApart, PollersOpen, PollersKept
<1>4. PollersOwn'
  <2> SUFFICES ASSUME NEW v \in Worker, Polling(v)',
                      clock' < poll_batch[worker'[v].batch].lease_expires_at
               PROVE  \A t \in poll_batch[worker'[v].batch].members :
                        lease[t].id = worker'[v].batch
    BY <1>1 DEF PollersOwn
  <2>1. Polling(v) /\ worker'[v].batch = worker[v].batch
    BY DEF PollersKept
  <2>2. clock < poll_batch[worker[v].batch].lease_expires_at
    BY <2>1, LeaseTypes DEF LeasesKept
  <2> QED
    BY <2>1, <2>2 DEF LeaseInv, PollersOwn
<1> QED
  BY <1>2, <1>3, <1>4 DEF LeaseInv

LEMMA LeaseInvStep == TypeInv /\ TypeInv' /\ LeaseInv /\ [Next]_vars => LeaseInv'
  BY LeaseSteps, TakenKeeps, FinishedKeeps, ReleasedKeeps, KeptKeeps DEF LeaseStep

THEOREM LeaseInvariance == Spec => []LeaseInv
<1>1. TypeInv /\ TypeInv' /\ LeaseInv /\ [Next]_vars => LeaseInv'
  BY LeaseInvStep
<1> QED
  BY LeaseInit, TypeInvariance, <1>1, PTL DEF Spec

\* A lease always names an open batch that contains its token: no claim,
\* completion, crash or new epoch leaves a lease on a finished batch.
THEOREM LeasesMatch == Spec => []LeaseMatchesOpenBatch
<1>1. LeaseInv => LeaseMatchesOpenBatch
  BY DEF LeaseInv
<1> QED
  BY <1>1, LeaseInvariance, PTL

\* A batch that lost a token to a later claim is never completed: the answer of
\* a stale worker is rejected, however late it comes.
THEOREM ReclaimedStaysOpen == Spec => []ReclaimedNeverCompletes
<1>1. LeaseInv => ReclaimedNeverCompletes
  BY DEF LeaseInv, ReclaimedForGood, ReclaimedNeverCompletes
<1> QED
  BY <1>1, LeaseInvariance, PTL

\* Two workers never poll one token under valid leases, although a claim may
\* decide with a time that lies behind the clock.
THEOREM PollersExclusive == Spec => []OnePollerPerToken
<1>1. TypeInv /\ LeaseInv => OnePollerPerToken
  <2> SUFFICES ASSUME TypeInv, LeaseInv, NEW v \in Worker, NEW w \in Worker,
                      v # w, Polling(v), Polling(w),
                      ~ poll_batch[worker[v].batch].lease_expires_at <= clock,
                      ~ poll_batch[worker[w].batch].lease_expires_at <= clock,
                      NEW t \in poll_batch[worker[v].batch].members
                                  \cap poll_batch[worker[w].batch].members
               PROVE  FALSE
    BY DEF OnePollerPerToken
  <2>1. lease[t].id = worker[v].batch
    BY LeaseTypes DEF LeaseInv, PollersOwn
  <2>2. lease[t].id = worker[w].batch
    BY LeaseTypes DEF LeaseInv, PollersOwn
  <2> QED
    BY <2>1, <2>2 DEF LeaseInv, PollersApart
<1> QED
  BY <1>1, TypeInvariance, LeaseInvariance, PTL
-----------------------------------------------------------------------------
(* The outstanding leases are bounded.                                     *)

LEMMA BatchesFinite ==
  ASSUME NEW B, B \subseteq BatchId
  PROVE  IsFiniteSet(B) /\ Cardinality(B) \in Nat
<1>1. IsFiniteSet(BatchId)
  BY FS_Interval, SchedulerAssumption DEF BatchId
<1> QED
  BY <1>1, FS_Subset, FS_CardinalityType

LEMMA InFlightStep ==
  ASSUME TypeInv, TypeInv', LeaseInv, InFlightBounded, LeaseStep
  PROVE  InFlightBounded'
<1>0. InFlight(clock) \subseteq BatchId /\ InFlight(clock)' \subseteq BatchId /\ MaxInFlight \in Nat
  BY SchedulerAssumption DEF InFlight, Open, Claimed
<1>1. ASSUME InFlight(clock)' \subseteq InFlight(clock) PROVE InFlightBounded'
  BY <1>0, <1>1, BatchesFinite, FS_Subset DEF InFlightBounded
<1>2. ASSUME NEW w \in Worker, NEW b \in BatchId, NEW members,
             LeaseTaken(b, worker[w].now, members)
      PROVE  InFlightBounded'
  <2> DEFINE now == worker[w].now
  <2>1. now \in Nat /\ now <= clock /\ Cardinality(InFlight(now)) < MaxInFlight
    BY <1>2 DEF LeaseTaken, HasBatchCapacity
  <2>2. InFlight(clock)' \subseteq InFlight(now) \cup {b}
    BY <1>2, <2>1, LeaseTypes DEF LeaseTaken, InFlight, Open, Claimed
  <2> HIDE DEF now
  <2>3. InFlight(now) \subseteq BatchId
    BY DEF InFlight, Open, Claimed
  <2>4. /\ IsFiniteSet(InFlight(now)) /\ Cardinality(InFlight(now)) \in Nat
    BY <2>3, BatchesFinite
  <2>5. /\ IsFiniteSet(InFlight(now) \cup {b})
        /\ Cardinality(InFlight(now) \cup {b}) <= Cardinality(InFlight(now)) + 1
    <3>1. /\ IsFiniteSet(InFlight(now) \cup {b})
          /\ Cardinality(InFlight(now) \cup {b}) =
               IF b \in InFlight(now) THEN Cardinality(InFlight(now))
                                     ELSE Cardinality(InFlight(now)) + 1
      BY <2>4, FS_AddElement, Zenon
    <3> QED
      BY <3>1, <2>4
  <2>6. Cardinality(InFlight(clock)') <= Cardinality(InFlight(now) \cup {b})
    BY <2>2, <2>5, FS_Subset
  <2>7. Cardinality(InFlight(now) \cup {b}) \in Nat /\ Cardinality(InFlight(clock)') \in Nat
    BY <1>0, <2>5, BatchesFinite, FS_CardinalityType
  <2>8. Cardinality(InFlight(clock)') <= MaxInFlight
    BY <1>0, <2>1, <2>4, <2>5, <2>6, <2>7
  <2> QED
    BY <2>8 DEF InFlightBounded
<1>3. ASSUME NEW w \in Worker, LeaseFinished(worker[w].batch) PROVE InFlightBounded'
  <2>1. InFlight(clock)' \subseteq InFlight(clock)
    BY <1>3, LeaseTypes, NoneNotBatchId, PolicyAssumption
       DEF LeaseFinished, InFlight, Open, Claimed
  <2> QED
    BY <2>1, <1>1
<1>4. CASE LeasesReleased \/ LeasesKept
  <2>1. InFlight(clock)' \subseteq InFlight(clock)
    BY <1>4, LeaseTypes DEF LeasesReleased, LeasesKept, InFlight, Open, Claimed
  <2> QED
    BY <2>1, <1>1
<1> QED
  BY <1>2, <1>3, <1>4 DEF LeaseStep

\* No more than scheduler_max_in_flight_batches leases are outstanding at any
\* time, whatever the times at which the claims were decided.
THEOREM InFlightLimited == Spec => []InFlightBounded
<1>1. Init => InFlightBounded
  <2> SUFFICES ASSUME Init PROVE InFlightBounded
    OBVIOUS
  <2>1. InFlight(clock) = {}
    BY DEF Init, InFlight, Open, Claimed
  <2> QED
    BY <2>1, FS_EmptySet, SchedulerAssumption DEF InFlightBounded
<1>2. TypeInv /\ TypeInv' /\ LeaseInv /\ InFlightBounded /\ [Next]_vars => InFlightBounded'
  BY LeaseSteps, InFlightStep
<1> QED
  BY <1>1, <1>2, TypeInvariance, LeaseInvariance, PTL DEF Spec
-----------------------------------------------------------------------------
(* The scheduler implements LeasedWork: a claim takes, a completion         *)
(* finishes, the start of an epoch releases, and every other step stutters. *)

LEMMA WorkInit == Init => Work!Init
<1> SUFFICES ASSUME Init PROVE Work!Init
  OBVIOUS
<1>1. {b \in BatchId : outcome[b] # None} = {}
  BY DEF Init
<1> QED
  BY <1>1 DEF Init, Work!Init, NoLease

LEMMA WorkStep ==
  ASSUME TypeInv, TypeInv', LeaseInv, LeaseStep
  PROVE  [Work!Next]_(Work!vars)
<1> USE NoneNotBatchId
<1>1. ASSUME NEW w \in Worker, NEW b \in BatchId, NEW members \in SUBSET Token,
             LeaseTaken(b, worker[w].now, members)
      PROVE  Work!Take(b, members)
  <2>1. \A c \in BatchId :
          (IF poll_batch'[c] = None THEN None ELSE poll_batch'[c].members)
            = IF c = b THEN members
              ELSE IF poll_batch[c] = None THEN None ELSE poll_batch[c].members
    BY <1>1 DEF LeaseTaken
  <2>2. \A t \in Token : lease'[t].id = IF t \in members THEN b ELSE lease[t].id
    BY <1>1 DEF LeaseTaken
  <2>3. poll_batch[b] = None /\ outcome' = outcome
    BY <1>1 DEF LeaseTaken
  <2> QED
    BY <2>1, <2>2, <2>3 DEF Work!Take
<1>2. ASSUME NEW w \in Worker, LeaseFinished(worker[w].batch), Polling(w)
      PROVE  \E b \in BatchId : Work!Finish(b)
  <2>0. worker[w].batch \in BatchId
    BY <1>2, LeaseTypes DEF LeaseFinished, OwnsBatch, Claimed, LeaseInv, PollersOpen
  <2> PICK b \in BatchId : b = worker[w].batch
    BY <2>0
  <2>1. /\ b \in BatchId /\ poll_batch[b] # None /\ poll_batch' = poll_batch
        /\ poll_batch[b].members \subseteq Token
        /\ \A t \in poll_batch[b].members : lease[t].id = b
        /\ outcome[b] = None
    BY <1>2, LeaseTypes DEF LeaseFinished, OwnsBatch, Claimed, LeaseInv, PollersOpen
  <2>2. \A t \in Token :
          lease'[t].id = IF t \in poll_batch[b].members THEN None ELSE lease[t].id
    BY <1>2 DEF LeaseFinished, NoLease
  <2>3. /\ clock # None
        /\ \A c \in BatchId : outcome'[c] = IF c = b THEN clock ELSE outcome[c]
    BY <1>2, LeaseTypes, PolicyAssumption DEF LeaseFinished
  <2>4. {c \in BatchId : outcome'[c] # None} = {c \in BatchId : outcome[c] # None} \cup {b}
    BY <2>1, <2>3
  <2>5. [t \in Token |-> lease'[t].id]
          = [t \in Token |-> IF t \in poll_batch[b].members THEN None ELSE lease[t].id]
    BY <2>2
  <2>6. [c \in BatchId |-> IF poll_batch[c] = None THEN None ELSE poll_batch[c].members][b]
          = poll_batch[b].members
    BY <2>1
  <2>7. poll_batch[b].members # None
    BY <2>1, NullAssumption
  <2>8. b \notin {c \in BatchId : outcome[c] # None}
    BY <2>1
  <2>9. \A t \in poll_batch[b].members : [u \in Token |-> lease[u].id][t] = b
    BY <2>1
  <2>10. [t \in Token |-> lease'[t].id]
           = [t \in Token |-> IF t \in poll_batch[b].members THEN None
                             ELSE [u \in Token |-> lease[u].id][t]]
    BY <2>5
  <2>11. [c \in BatchId |-> IF poll_batch'[c] = None THEN None ELSE poll_batch'[c].members]
          = [c \in BatchId |-> IF poll_batch[c] = None THEN None ELSE poll_batch[c].members]
    BY <2>1
  <2>12. Work!Finish(b)
    BY <2>4, <2>6, <2>7, <2>8, <2>9, <2>10, <2>11 DEF Work!Finish
  <2> QED
    BY <2>12
<1>3. CASE LeasesReleased
  <2>1. Work!Release
    BY <1>3 DEF LeasesReleased, NoLease, Work!Release
  <2> QED
    BY <2>1 DEF Work!Next
<1>4. CASE LeasesKept
  BY <1>4 DEF LeasesKept, Work!vars
<1> QED
  BY <1>1, <1>2, <1>3, <1>4 DEF LeaseStep, Work!Next

\* The scheduler is an implementation of LeasedWork: whatever claims overlap,
\* whichever process dies and whenever an epoch starts, a batch is completed
\* (complete_batch_in_session) at most once and only by a worker to which every
\* one of its rows is still leased.
THEOREM SchedulerImplementsLeasedWork == Spec => ImplementsLeasedWork
<1>1. TypeInv /\ TypeInv' /\ LeaseInv /\ [Next]_vars => [Work!Next]_(Work!vars)
  BY LeaseSteps, WorkStep
<1> QED
  BY <1>1, WorkInit, TypeInvariance, LeaseInvariance, PTL
     DEF Spec, ImplementsLeasedWork, Work!Spec
-----------------------------------------------------------------------------
(* The rolling request budget.                                             *)

\* The claims still asleep behind the gate that would find a free reservation among those of
\* the minute that are not later than their own time.
Overtaken(now) ==
  {w \in Worker :
     /\ worker[w].pc = "claiming"
     /\ Cardinality({b \in ReservedInMinute(now) : poll_batch[b].claimed_at <= worker[w].now})
          < RequestBudget}

\* Once the budget of a minute is used up only claims that slept since may add to it, each
\* once.
MinutesGuarded ==
  \A now \in Nat :
    LET reserved == Cardinality(ReservedInMinute(now))
    IN  reserved >= RequestBudget =>
          reserved + Cardinality(Overtaken(now)) < RequestBudget + Cardinality(Worker)

ClaimsBehindClock == \A b \in Claimed : poll_batch[b].claimed_at <= clock

BudgetInv == ClaimsBehindClock /\ MinutesGuarded

LEMMA WorkersFinite ==
  ASSUME NEW S, S \subseteq Worker
  PROVE  /\ IsFiniteSet(S) /\ Cardinality(S) \in Nat /\ Cardinality(S) <= Cardinality(Worker)
         /\ Cardinality(Worker) \in Nat
  BY SchedulerAssumption, FS_Subset, FS_CardinalityType

LEMMA MinuteTypes ==
  ASSUME TypeInv
  PROVE  /\ \A b \in Claimed : b \in BatchId /\ poll_batch[b].claimed_at \in Nat
         /\ \A w \in Worker : worker[w].pc = "claiming" =>
              worker[w].now \in Nat /\ worker[w].now <= clock
         /\ \A now : ReservedInMinute(now) \subseteq BatchId
         /\ RequestBudget \in Nat /\ Minute \in Nat /\ clock \in Nat
  BY SchedulerAssumption
     DEF TypeInv, TypeOK, Claimed, Batch, WorkerReady, ReservedInMinute

\* A step that claims nothing: reservations stay, and no one goes to sleep behind the gate
\* who could add to a minute whose budget is used up.
LEMMA SleepersKeep ==
  ASSUME TypeInv, TypeInv', BudgetInv, poll_batch' = poll_batch, clock' \in {clock, clock + 1},
         \A w \in Worker : worker'[w].pc = "claiming" =>
           \/ worker'[w].now = worker[w].now /\ worker[w].pc = "claiming"
           \/ worker'[w].now = clock
  PROVE  BudgetInv'
<1>1. Claimed' = Claimed /\ \A now : ReservedInMinute(now)' = ReservedInMinute(now)
  BY DEF Claimed, ReservedInMinute
<1>2. ClaimsBehindClock'
  BY <1>1, MinuteTypes DEF BudgetInv, ClaimsBehindClock
<1>3. ASSUME NEW now \in Nat, Cardinality(ReservedInMinute(now)) >= RequestBudget
      PROVE  Overtaken(now)' \subseteq Overtaken(now)
  <2>. SUFFICES ASSUME NEW w \in Worker, w \in Overtaken(now)' PROVE w \in Overtaken(now)
    BY DEF Overtaken
  <2>1. /\ worker'[w].pc = "claiming"
        /\ Cardinality({b \in ReservedInMinute(now) : poll_batch[b].claimed_at <= worker'[w].now})
             < RequestBudget
    BY <1>1 DEF Overtaken
  <2>2. CASE worker'[w].now = clock
    <3>1. {b \in ReservedInMinute(now) : poll_batch[b].claimed_at <= worker'[w].now}
            = ReservedInMinute(now)
      BY <2>2 DEF BudgetInv, ClaimsBehindClock, ReservedInMinute
    <3>2. Cardinality(ReservedInMinute(now)) < RequestBudget
      BY <2>1, <3>1
    <3>. QED
      BY <1>3, <3>2, MinuteTypes, BatchesFinite
  <2>3. CASE worker'[w].now = worker[w].now /\ worker[w].pc = "claiming"
    BY <2>1, <2>3 DEF Overtaken
  <2>. QED
    BY <2>1, <2>2, <2>3
<1>4. MinutesGuarded'
  <2>. SUFFICES ASSUME NEW now \in Nat, Cardinality(ReservedInMinute(now)) >= RequestBudget
                PROVE  Cardinality(ReservedInMinute(now)) + Cardinality(Overtaken(now)')
                         < RequestBudget + Cardinality(Worker)
    BY <1>1 DEF MinutesGuarded
  <2>1. Overtaken(now)' \subseteq Overtaken(now)
    BY <1>3
  <2>2. Overtaken(now) \subseteq Worker /\ Overtaken(now)' \subseteq Worker
    BY DEF Overtaken
  <2>3. Cardinality(Overtaken(now)') <= Cardinality(Overtaken(now))
    BY <2>1, <2>2, WorkersFinite, FS_Subset
  <2>4. Cardinality(ReservedInMinute(now)) + Cardinality(Overtaken(now))
          < RequestBudget + Cardinality(Worker)
    BY DEF BudgetInv, MinutesGuarded
  <2>5. /\ Cardinality(Overtaken(now)') \in Nat /\ Cardinality(Overtaken(now)) \in Nat
        /\ Cardinality(Worker) \in Nat /\ RequestBudget \in Nat
        /\ Cardinality(ReservedInMinute(now)) \in Nat
    BY <2>2, WorkersFinite, MinuteTypes, BatchesFinite
  <2>. QED
    BY <2>3, <2>4, <2>5
<1>. QED
  BY <1>2, <1>4 DEF BudgetInv

LEMMA ClaimKeepsBudget ==
  ASSUME TypeInv, TypeInv', BudgetInv, NEW w \in Worker, worker[w].pc = "claiming",
         NEW b \in BatchId, b \notin Claimed, Claimed' = Claimed \cup {b},
         \A c \in Claimed : poll_batch'[c] = poll_batch[c],
         poll_batch'[b].claimed_at = worker[w].now, HasBatchCapacity(worker[w].now),
         worker' = [worker EXCEPT ![w] = [pc |-> "polling", now |-> None, batch |-> b]],
         clock' = clock
  PROVE  BudgetInv'
<1>. DEFINE at == worker[w].now
<1>1. at \in Nat /\ at <= clock /\ Cardinality(ReservedInMinute(at)) < RequestBudget
  <2>1. Cardinality(ReservedInMinute(at)) \in Nat
    BY MinuteTypes, BatchesFinite
  <2>. QED
    BY <2>1, MinuteTypes DEF HasBatchCapacity
<1>2. /\ worker'[w].pc = "polling"
      /\ \A v \in Worker : v # w => worker'[v] = worker[v]
  BY DEF TypeInv, TypeOK
<1>3. ClaimsBehindClock'
  BY <1>1 DEF BudgetInv, ClaimsBehindClock
<1>. HIDE DEF at
<1>4. ASSUME NEW now \in Nat PROVE
        ReservedInMinute(now)' = IF at <= now /\ now < at + Minute
                                 THEN ReservedInMinute(now) \cup {b} ELSE ReservedInMinute(now)
  BY DEF ReservedInMinute, at
\* A claim that still finds a free reservation found one before.
<1>5. ASSUME NEW now \in Nat PROVE Overtaken(now)' \subseteq Overtaken(now) \ {w}
  <2>. SUFFICES ASSUME NEW v \in Worker, v \in Overtaken(now)' PROVE v \in Overtaken(now) \ {w}
    BY DEF Overtaken
  <2>1. v # w /\ worker'[v] = worker[v] /\ worker[v].pc = "claiming"
    BY <1>2 DEF Overtaken
  <2>. DEFINE before == {c \in ReservedInMinute(now) : poll_batch[c].claimed_at <= worker[v].now}
              after == {c \in ReservedInMinute(now)' : poll_batch'[c].claimed_at <= worker[v].now}
  <2>2. before \subseteq after
    BY <1>4 DEF ReservedInMinute
  <2>3. after \subseteq BatchId /\ before \subseteq BatchId
    BY DEF ReservedInMinute, Claimed
  <2>4. Cardinality(after) < RequestBudget
    BY <2>1 DEF Overtaken
  <2>. HIDE DEF before, after
  <2>5. Cardinality(before) <= Cardinality(after)
    BY <2>2, <2>3, BatchesFinite, FS_Subset
  <2>6. Cardinality(before) < RequestBudget
    BY <2>3, <2>4, <2>5, BatchesFinite, MinuteTypes
  <2>. QED
    BY <2>1, <2>6 DEF Overtaken, before
<1>6. MinutesGuarded'
  <2>. SUFFICES ASSUME NEW now \in Nat, Cardinality(ReservedInMinute(now)') >= RequestBudget
                PROVE  Cardinality(ReservedInMinute(now)') + Cardinality(Overtaken(now)')
                         < RequestBudget + Cardinality(Worker)
    BY DEF MinutesGuarded
  <2>. DEFINE R == ReservedInMinute(now)
              O == Overtaken(now)
              R2 == ReservedInMinute(now)'
              O2 == Overtaken(now)'
  <2>1. /\ O \subseteq Worker /\ O2 \subseteq O \ {w} /\ R \subseteq BatchId /\ b \notin R
    BY <1>5 DEF Overtaken, ReservedInMinute, Claimed
  <2>2. R2 = IF at <= now /\ now < at + Minute THEN R \cup {b} ELSE R
    BY <1>4
  <2>3. Cardinality(R2) >= RequestBudget
    OBVIOUS
  <2>4. Cardinality(R) >= RequestBudget =>
          Cardinality(R) + Cardinality(O) < RequestBudget + Cardinality(Worker)
    BY DEF BudgetInv, MinutesGuarded
  <2>5. at <= now /\ now < at + Minute /\ Cardinality(R) >= RequestBudget => w \in O
    <3>. SUFFICES ASSUME at <= now, now < at + Minute PROVE w \in O
      OBVIOUS
    <3>. DEFINE seen == {c \in R : poll_batch[c].claimed_at <= at}
    <3>1. seen \subseteq ReservedInMinute(at)
      BY <1>1, MinuteTypes DEF ReservedInMinute
    <3>2. ReservedInMinute(at) \subseteq BatchId /\ seen \subseteq BatchId
      BY <2>1, MinuteTypes
    <3>. HIDE DEF seen
    <3>3. Cardinality(seen) <= Cardinality(ReservedInMinute(at))
      BY <3>1, <3>2, BatchesFinite, FS_Subset
    <3>4. Cardinality(seen) < RequestBudget
      BY <1>1, <3>2, <3>3, BatchesFinite, MinuteTypes
    <3>. QED
      BY <3>4 DEF seen, Overtaken, at
  <2>. HIDE DEF R, O, R2, O2
  <2>6. Cardinality(R) \in Nat /\ Cardinality(R \cup {b}) = Cardinality(R) + 1
    <3>1. IsFiniteSet(R) /\ Cardinality(R) \in Nat
      BY <2>1, BatchesFinite
    <3>. QED
      BY <2>1, <3>1, FS_AddElement, Zenon
  <2>7. /\ Cardinality(O2) \in Nat /\ Cardinality(O) \in Nat /\ Cardinality(Worker) \in Nat
        /\ Cardinality(O2) <= Cardinality(O)
        /\ w \in O => Cardinality(O2) <= Cardinality(O) - 1
        /\ Cardinality(O2) <= Cardinality(Worker) - 1
    <3>1. /\ IsFiniteSet(O) /\ Cardinality(O) \in Nat /\ Cardinality(Worker) \in Nat
          /\ IsFiniteSet(Worker) /\ O2 \subseteq Worker \ {w} /\ O2 \subseteq O
      BY <2>1, WorkersFinite, SchedulerAssumption
    <3>2. Cardinality(O2) <= Cardinality(O) /\ Cardinality(O2) \in Nat
      BY <3>1, FS_Subset, FS_CardinalityType
    <3>3. w \in O => Cardinality(O \ {w}) = Cardinality(O) - 1 /\ IsFiniteSet(O \ {w})
      BY <3>1, FS_RemoveElement
    <3>4. Cardinality(Worker \ {w}) = Cardinality(Worker) - 1 /\ IsFiniteSet(Worker \ {w})
      BY <3>1, FS_RemoveElement
    <3>5. w \in O => Cardinality(O2) <= Cardinality(O \ {w})
      BY <2>1, <3>3, FS_Subset
    <3>6. Cardinality(O2) <= Cardinality(Worker \ {w})
      BY <3>1, <3>4, FS_Subset
    <3>. QED
      BY <3>1, <3>2, <3>3, <3>4, <3>5, <3>6
  <2>8. RequestBudget \in Nat
    BY MinuteTypes
  <2>9. Cardinality(R2) + Cardinality(O2) < RequestBudget + Cardinality(Worker)
    <3>1. CASE ~(at <= now /\ now < at + Minute)
      BY <2>2, <2>3, <2>4, <2>6, <2>7, <2>8, <3>1
    <3>2. CASE /\ at <= now /\ now < at + Minute
               /\ Cardinality(R) >= RequestBudget
      <4>1. Cardinality(R2) = Cardinality(R) + 1 /\ w \in O
        BY <2>2, <2>5, <2>6, <3>2
      <4>. QED
        BY <2>4, <2>6, <2>7, <2>8, <3>2, <4>1
    <3>3. CASE /\ at <= now /\ now < at + Minute
               /\ Cardinality(R) < RequestBudget
      <4>1. Cardinality(R2) = Cardinality(R) + 1
        BY <2>2, <2>6, <3>3
      <4>. QED
        BY <2>6, <2>7, <2>8, <3>3, <4>1
    <3>. QED
      BY <2>6, <2>8, <3>1, <3>2, <3>3
  <2>. QED
    BY <2>9 DEF R2, O2
<1>. QED
  BY <1>3, <1>6 DEF BudgetInv

\* What a claim writes: a new batch, its leases, and the rows it advanced, of which the leased
\* ordinary ones get the priority of their class back.
ClaimWrites(w, b, skipped, members, kind) ==
  LET now == worker[w].now
      rows == Advance(now, skipped)
  IN  /\ b \notin Claimed /\ Claimed' = Claimed \cup {b}
      /\ \A c \in Claimed : poll_batch'[c] = poll_batch[c]
      /\ poll_batch'[b].kind = kind
      /\ poll_batch'[b].claimed_at = now
      /\ poll_batch'[b].members = members
      /\ poll_batch'[b].lease_expires_at = LeaseEnd(now)
      /\ \A c \in BatchId : c < b => c \in Claimed
      /\ kind = "retired_control" => Rotates(rows, now, members)
      /\ \A t \in members :
           /\ rows[t] # None
           /\ poll_batch'[b].previous[t] = lease[t].id
           /\ kind = "ordinary" =>
                /\ rows[t].coverage_class # "RETIRED_CONTROL"
                /\ rows[t].next_due_at # None /\ rows[t].next_due_at <= now
                /\ poll_batch'[b].due_at[t] = rows[t].next_due_at
      /\ \A t \in Token : lease'[t].id = IF t \in members THEN b ELSE lease[t].id
      /\ \A t \in Token :
           schedule'[t] = IF t \in members /\ kind = "ordinary"
                          THEN [rows[t] EXCEPT !.priority = Priorities[rows[t].coverage_class]]
                          ELSE rows[t]
      /\ worker' = [worker EXCEPT ![w] = [pc |-> "polling", now |-> None, batch |-> b]]

LEMMA ClaimBatch ==
  ASSUME TypeInv, TypeInv', NEW w \in Worker, Claim(w)
  PROVE  \E b \in BatchId, skipped \in SUBSET Contended, members \in SUBSET Token,
            kind \in {"ordinary", "retired_control"} : ClaimWrites(w, b, skipped, members, kind)
<1>. DEFINE now == worker[w].now
<1>1. PICK skipped \in SUBSET Contended, members \in SUBSET Token,
           kind \in {"ordinary", "retired_control"} :
        LET rows == Advance(now, skipped) IN
          /\ LeaseBatch(w, rows, now, kind, members)
          /\ \A t \in members :
               /\ rows[t] # None
               /\ kind = "ordinary" => /\ rows[t].coverage_class # "RETIRED_CONTROL"
                                       /\ rows[t].next_due_at # None
                                       /\ rows[t].next_due_at <= now
          /\ kind = "retired_control" => Rotates(rows, now, members)
  BY ClaimLeases
<1>. DEFINE rows == Advance(now, skipped)
<1>. HIDE DEF now, rows
<1>2. PICK b \in BatchId, plan \in Plans :
        /\ poll_batch[b] = None
        /\ \A c \in BatchId : c < b => poll_batch[c] # None
        /\ poll_batch' = [poll_batch EXCEPT ![b] =
             [kind |-> kind, claimed_at |-> now,
              lease_expires_at |-> LeaseEnd(now),
              control_window |-> IF kind = "retired_control" THEN Window(now) ELSE None,
              plan |-> plan, members |-> members,
              due_at |-> [t \in Token |->
                 IF t \in members THEN MemberDue(rows[t], kind, now) ELSE None],
              previous |-> [t \in Token |->
                 IF t \in members THEN lease[t].id ELSE None]]]
        /\ lease' = [t \in Token |->
             IF t \in members THEN [id |-> b, expires_at |-> LeaseEnd(now)] ELSE lease[t]]
        /\ schedule' = [t \in Token |->
             IF t \in members /\ kind = "ordinary"
             THEN [rows[t] EXCEPT !.priority = Priorities[rows[t].coverage_class]]
             ELSE rows[t]]
        /\ worker' = [worker EXCEPT ![w] = [pc |-> "polling", now |-> None, batch |-> b]]
  BY <1>1 DEF LeaseBatch, rows
<1>. DEFINE new == [kind |-> kind, claimed_at |-> now,
              lease_expires_at |-> LeaseEnd(now),
              control_window |-> IF kind = "retired_control" THEN Window(now) ELSE None,
              plan |-> plan, members |-> members,
              due_at |-> [t \in Token |->
                 IF t \in members THEN MemberDue(rows[t], kind, now) ELSE None],
              previous |-> [t \in Token |-> IF t \in members THEN lease[t].id ELSE None]]
<1>3. /\ new.kind = kind /\ new.claimed_at = now /\ new.members = members
      /\ new.lease_expires_at = LeaseEnd(now)
      /\ \A t \in members : new.previous[t] = lease[t].id
      /\ \A t \in members : kind = "ordinary" => new.due_at[t] = rows[t].next_due_at
  BY DEF MemberDue
<1>. HIDE DEF new
<1>4. poll_batch' = [poll_batch EXCEPT ![b] = new]
  BY <1>2 DEF new
<1>5. poll_batch'[b] = new /\ \A c \in BatchId : c # b => poll_batch'[c] = poll_batch[c]
  BY <1>4 DEF TypeInv, TypeOK
<1>6. poll_batch'[b] # None
  <2>1. worker'[w].pc = "polling" /\ worker'[w].batch = b
    BY <1>2 DEF TypeInv, TypeOK
  <2> QED
    BY <2>1 DEF TypeInv, WorkerReady, Claimed
<1>7. b \notin Claimed /\ Claimed' = Claimed \cup {b}
  BY <1>2, <1>5, <1>6 DEF Claimed
<1>8. \A c \in Claimed : poll_batch'[c] = poll_batch[c]
  BY <1>5, <1>7 DEF Claimed
<1>9. \A t \in Token : lease'[t].id = IF t \in members THEN b ELSE lease[t].id
  BY <1>2
<1>10. \A t \in members :
        /\ rows[t] # None
        /\ kind = "ordinary" => /\ rows[t].coverage_class # "RETIRED_CONTROL"
                                /\ rows[t].next_due_at # None
                                /\ rows[t].next_due_at <= now
  BY <1>1 DEF rows
<1>11. \A t \in Token : schedule'[t] = IF t \in members /\ kind = "ordinary"
                                       THEN [rows[t] EXCEPT
                                              !.priority = Priorities[rows[t].coverage_class]]
                                       ELSE rows[t]
  BY <1>2
<1>12. /\ poll_batch'[b].kind = kind /\ poll_batch'[b].claimed_at = now
       /\ poll_batch'[b].members = members
       /\ poll_batch'[b].lease_expires_at = LeaseEnd(now)
  BY <1>3, <1>5
<1>13. \A t \in members :
         /\ rows[t] # None
         /\ poll_batch'[b].previous[t] = lease[t].id
         /\ kind = "ordinary" =>
              /\ rows[t].coverage_class # "RETIRED_CONTROL"
              /\ rows[t].next_due_at # None /\ rows[t].next_due_at <= now
              /\ poll_batch'[b].due_at[t] = rows[t].next_due_at
  BY <1>3, <1>5, <1>10
<1>14. worker' = [worker EXCEPT ![w] = [pc |-> "polling", now |-> None, batch |-> b]]
  BY <1>2
<1>15. /\ \A c \in BatchId : c < b => c \in Claimed
       /\ kind = "retired_control" => Rotates(rows, now, members)
  BY <1>1, <1>2 DEF Claimed, rows
<1>16. ClaimWrites(w, b, skipped, members, kind)
  BY <1>7, <1>8, <1>9, <1>11, <1>12, <1>13, <1>14, <1>15 DEF ClaimWrites, now, rows
<1>. QED
  BY <1>16

LEMMA BudgetStep == TypeInv /\ TypeInv' /\ BudgetInv /\ [Next]_vars => BudgetInv'
<1>. SUFFICES ASSUME TypeInv, TypeInv', BudgetInv, [Next]_vars PROVE BudgetInv'
  OBVIOUS
<1>1. ASSUME NEW w \in Worker, Claim(w) PROVE BudgetInv'
  <2>1. worker[w].pc = "claiming" /\ HasBatchCapacity(worker[w].now) /\ clock' = clock
    BY <1>1 DEF Claim
  <2>2. PICK b \in BatchId :
          /\ b \notin Claimed /\ Claimed' = Claimed \cup {b}
          /\ \A c \in Claimed : poll_batch'[c] = poll_batch[c]
          /\ poll_batch'[b].claimed_at = worker[w].now
          /\ worker' = [worker EXCEPT ![w] = [pc |-> "polling", now |-> None, batch |-> b]]
    BY <1>1, ClaimBatch DEF ClaimWrites
  <2>. QED
    BY <2>1, <2>2, ClaimKeepsBudget
<1>2. ASSUME poll_batch' = poll_batch,
             \A w \in Worker : worker'[w].pc = "claiming" =>
               \/ worker'[w].now = worker[w].now /\ worker[w].pc = "claiming"
               \/ worker'[w].now = clock
      PROVE  BudgetInv'
    BY <1>2, ClockStep, SleepersKeep
<1>3. CASE UNCHANGED vars \/ Tick \/ Restart \/ StartEpoch
  BY <1>2, <1>3 DEF vars, store, Tick, Restart, StartEpoch
<1>4. ASSUME Collapse, poll_batch' = poll_batch PROVE BudgetInv'
  BY <1>2, <1>4 DEF Collapse, IdleWorker
<1>5. ASSUME NEW w \in Worker,
             BeginClaim(w) \/ ClaimNothing(w) \/ Receive(w) \/ Complete(w)
      PROVE  BudgetInv'
  <2>1. poll_batch' = poll_batch
    BY <1>5 DEF BeginClaim, ClaimNothing, Receive, Complete, store
  <2>2. \A v \in Worker : v # w => worker'[v] = worker[v]
    BY <1>5 DEF BeginClaim, ClaimNothing, Receive, Complete, TypeInv, TypeOK
  <2>3. worker'[w].pc = "claiming" => worker'[w].now = clock
    <3>1. worker \in [Worker -> WorkerState]
      BY DEF TypeInv, TypeOK
    <3>2. CASE Receive(w)
      BY <3>1, <3>2 DEF Receive, WorkerState
    <3>3. CASE BeginClaim(w)
      BY <3>1, <3>3 DEF BeginClaim, IdleWorker
    <3>4. CASE ClaimNothing(w) \/ Complete(w)
      BY <3>1, <3>4 DEF ClaimNothing, Complete, IdleWorker
    <3>. QED
      BY <1>5, <3>2, <3>3, <3>4
  <2>. QED
    BY <1>2, <2>1, <2>2, <2>3
<1>6. ASSUME NEW w \in Worker, ClaimRaises(w) \/ CompleteAndFail(w) \/ LoseLease(w)
      PROVE  BudgetInv'
  BY <1>4, <1>6 DEF ClaimRaises, CompleteAndFail, LoseLease, store
<1>7. CASE Stop
  BY <1>4, <1>7 DEF Stop, store
<1>8. ASSUME NEW t \in Token, TokenStep(t) PROVE BudgetInv'
  BY <1>2, <1>8 DEF TokenStep, Admit, ReapplyState, WakeCandidate
<1>. QED
  BY <1>1, <1>3, <1>5, <1>6, <1>7, <1>8 DEF Next, WorkerStep

LEMMA BudgetInit == Init => BudgetInv
<1>. SUFFICES ASSUME Init PROVE BudgetInv
  OBVIOUS
<1>1. Claimed = {} /\ \A now : ReservedInMinute(now) = {}
  BY DEF Init, Claimed, ReservedInMinute
<1>2. \A w \in Worker : worker[w].pc = "idle"
  BY DEF Init, IdleWorker
<1>3. RequestBudget \in Nat \ {0} /\ Cardinality({}) = 0
  BY SchedulerAssumption, FS_EmptySet
<1>4. \A now : Cardinality(ReservedInMinute(now)) = 0
  BY <1>1, <1>3
<1>5. MinutesGuarded
  BY <1>3, <1>4 DEF MinutesGuarded
<1>. QED
  BY <1>1, <1>5 DEF BudgetInv, ClaimsBehindClock

\* The gate keeps both limits: no more leases than max_in_flight_batches, and in every trailing
\* minute fewer batches than the request budget and one more for each worker; a claim decides
\* with the time it had before it queued for the gate (_has_batch_capacity).
THEOREM BudgetsHold == Spec => []BudgetsBounded
<1>1. Spec => []BudgetInv
  BY BudgetInit, BudgetStep, TypeInvariance, PTL DEF Spec
<1>2. TypeInv /\ BudgetInv => BudgetOvershootBounded
  <2>. SUFFICES ASSUME TypeInv, BudgetInv, NEW now \in 0 .. clock
                PROVE  Cardinality(ReservedInMinute(now)) < RequestBudget + Cardinality(Worker)
    BY DEF BudgetOvershootBounded
  <2>1. now \in Nat /\ Overtaken(now) \subseteq Worker
    BY DEF Overtaken
  <2>2. /\ Cardinality(ReservedInMinute(now)) \in Nat /\ RequestBudget \in Nat
        /\ Cardinality(Overtaken(now)) \in Nat /\ Cardinality(Worker) \in Nat
    BY <2>1, MinuteTypes, BatchesFinite, WorkersFinite
  <2>3. Cardinality(ReservedInMinute(now)) >= RequestBudget =>
          Cardinality(ReservedInMinute(now)) + Cardinality(Overtaken(now))
            < RequestBudget + Cardinality(Worker)
    BY <2>1 DEF BudgetInv, MinutesGuarded
  <2>. QED
    BY <2>2, <2>3
<1>. QED
  BY <1>1, <1>2, TypeInvariance, InFlightLimited, PTL DEF BudgetsBounded
-----------------------------------------------------------------------------
(* Polls are accounted for.                                                *)

Done(t) == {b \in Claimed \ Open : t \in poll_batch[b].members}
Scans(t) == {b \in Done(t) : poll_batch[b].kind = "retired_control"}

SameCounts(row, new) ==
  /\ new.attempt_count = row.attempt_count
  /\ new.control_scan_count = row.control_scan_count

LEMMA BatchesStay ==
  ASSUME TypeInv, TypeInv', [Next]_vars
  PROVE  \A c \in Claimed : c \in Claimed' /\ poll_batch'[c] = poll_batch[c]
<1>1. ASSUME NEW w \in Worker, Claim(w)
      PROVE  \A c \in Claimed : c \in Claimed' /\ poll_batch'[c] = poll_batch[c]
  BY <1>1, ClaimBatch DEF ClaimWrites
<1>2. (\A w \in Worker : ~Claim(w)) => poll_batch' = poll_batch
  BY DEF Next, WorkerStep, TokenStep, vars, store, Tick, Stop, Restart, StartEpoch, BeginClaim,
         ClaimNothing, ClaimRaises, Receive, Complete, CompleteAndFail, LoseLease, Admit,
         ReapplyState, WakeCandidate
<1>. QED
  BY <1>1, <1>2 DEF Claimed

LEMMA OutcomesStay ==
  ASSUME [Next]_vars, \A w \in Worker : ~Finishes(w)
  PROVE  outcome' = outcome
  BY DEF Finishes, Next, WorkerStep, TokenStep, vars, store, Tick, Stop, Restart, StartEpoch,
         BeginClaim, Claim, ClaimNothing, ClaimRaises, Receive, LoseLease, Admit, ReapplyState,
         WakeCandidate

LEMMA RefreshKeepsCounts ==
  ASSUME NEW t, NEW row \in Row, NEW now
  PROVE  SameCounts(row, RefreshCoverage(t, row, now))
  BY DEF RefreshCoverage, Row, SameCounts

LEMMA OverlaidKeepsCounts ==
  ASSUME NEW t, NEW at, NEW row \in Row, NEW new, Overlaid(t, at, row, new)
  PROVE  SameCounts(row, new)
  BY DEF Overlaid, PromotedRow, WithdrawnRow, Row, SameCounts

LEMMA MovedKeepsCounts ==
  ASSUME NEW row \in Row, NEW moved, Moved(row, moved)
  PROVE  SameCounts(row, moved)
  BY DEF Moved, MovedRow, Row, SameCounts

LEMMA RebasedKeepsCounts ==
  ASSUME NEW t, NEW row \in Row, NEW plan
  PROVE  SameCounts(row, RebasedRow(t, row, plan))
  BY DEF RebasedRow, Row, SameCounts

LEMMA CompletedCounts ==
  ASSUME NEW row \in Row, NEW b, NEW now
  PROVE  /\ CompletedRow(row, b, now).attempt_count = row.attempt_count + 1
         /\ CompletedRow(row, b, now).control_scan_count =
              IF poll_batch[b].kind = "retired_control" THEN row.control_scan_count + 1
                                                        ELSE row.control_scan_count
  BY DEF CompletedRow, Row

\* Outside a completion a row keeps its counts, and a new row starts at zero.
LEMMA RowKeepsCounts ==
  ASSUME TypeInv, [Next]_vars, \A w \in Worker : ~Finishes(w), NEW t \in Token, HasRow(t)'
  PROVE  /\ HasRow(t) => SameCounts(schedule[t], schedule'[t])
         /\ ~HasRow(t) => schedule'[t].attempt_count = 0 /\ schedule'[t].control_scan_count = 0
<1>1. RowStep(t) /\ (HasRow(t) => schedule[t] \in Row)
  BY RowSteps DEF TypeInv, TypeOK, HasRow
<1>2. ASSUME HasRow(t), NEW now, RowClaimed(t, now)
      PROVE  SameCounts(schedule[t], schedule'[t])
  <2>1. PICK row \in Row :
          /\ Advanced(t, now, row)
          /\ schedule'[t] \in {row, [row EXCEPT !.priority = Priorities[row.coverage_class]]}
    BY <1>2 DEF RowClaimed
  <2>2. SameCounts(schedule[t], row)
    BY <1>1, <1>2, <2>1, RefreshKeepsCounts DEF Advanced, SameCounts
  <2>3. SameCounts(row, schedule'[t])
    BY <2>1 DEF SameCounts, Row
  <2>. QED
    BY <2>2, <2>3 DEF SameCounts
<1>3. ASSUME HasRow(t), RowWoken(t) PROVE SameCounts(schedule[t], schedule'[t])
  BY <1>1, <1>3, OverlaidKeepsCounts DEF RowWoken
<1>4. ASSUME NEW plan, ~HasRow(t), schedule'[t] = AdmittedRow("NEW", clock, plan)
      PROVE  schedule'[t].attempt_count = 0 /\ schedule'[t].control_scan_count = 0
  BY <1>4 DEF AdmittedRow
<1>. QED
  BY <1>1, <1>2, <1>3, <1>4, RefreshKeepsCounts, RebasedKeepsCounts DEF RowStep, SameCounts

LEMMA DoneTypes ==
  ASSUME TypeInv, NEW t \in Token
  PROVE  /\ IsFiniteSet(Done(t)) /\ Cardinality(Done(t)) \in Nat
         /\ IsFiniteSet(Scans(t)) /\ Cardinality(Scans(t)) \in Nat
<1>1. Done(t) \subseteq BatchId /\ Scans(t) \subseteq BatchId
  BY DEF Done, Scans, Claimed
<1>. QED
  BY <1>1, BatchesFinite

Counted ==
  \A t \in Token : HasRow(t) =>
    /\ schedule[t].attempt_count = Cardinality(Done(t))
    /\ schedule[t].control_scan_count = Cardinality(Scans(t))

LEMMA CountedIsCountedOnce == CompletionsCountedOnce <=> Counted
  BY DEF CompletionsCountedOnce, Counted, Done, Scans

LEMMA CountStep ==
  ASSUME TypeInv, TypeInv', LeaseInv, LeaseInv', Counted, [Next]_vars
  PROVE  Counted'
<1>. SUFFICES ASSUME NEW t \in Token, HasRow(t)'
              PROVE  /\ schedule'[t].attempt_count = Cardinality(Done(t)')
                     /\ schedule'[t].control_scan_count = Cardinality(Scans(t)')
  BY DEF Counted
<1>1. CASE \A w \in Worker : ~Finishes(w)
  <2>1. outcome' = outcome
    BY <1>1, OutcomesStay
  <2>2. Done(t)' = Done(t) /\ Scans(t)' = Scans(t)
    <3>1. /\ \A b \in Claimed : b \in Claimed' /\ poll_batch'[b] = poll_batch[b]
          /\ \A b \in BatchId : outcome[b] # None => b \in Claimed
      BY BatchesStay DEF LeaseInv, OutcomesClaimed
    <3>2. Claimed \subseteq BatchId /\ Claimed' \subseteq BatchId
      BY DEF Claimed
    <3>3. Done(t)' = Done(t)
      BY <2>1, <3>1, <3>2 DEF Done, Open
    <3>4. \A b \in Done(t) : poll_batch'[b] = poll_batch[b]
      BY <3>1 DEF Done
    <3>. QED
      BY <3>3, <3>4 DEF Scans
  <2>3. CASE HasRow(t)
    BY <1>1, <2>2, <2>3, RowKeepsCounts DEF Counted, SameCounts
  <2>4. CASE ~HasRow(t)
    <3>1. Done(t) = {} /\ Scans(t) = {}
      BY <2>4 DEF TypeInv, MembersAdmitted, Done, Scans
    <3>. QED
      BY <1>1, <2>2, <2>4, <3>1, RowKeepsCounts, FS_EmptySet
  <2>. QED
    BY <2>3, <2>4
<1>2. ASSUME NEW w \in Worker, Finishes(w)
      PROVE  /\ schedule'[t].attempt_count = Cardinality(Done(t)')
             /\ schedule'[t].control_scan_count = Cardinality(Scans(t)')
  <2>. DEFINE b == worker[w].batch
  <2>1. LeaseFinished(b) /\ b \in Claimed /\ b \in BatchId /\ outcome[b] = None
    <3>1. LeaseFinished(b) /\ Polling(w)
      BY <1>2, CompletionFinishes DEF Finishes
    <3>2. outcome[b] = None
      BY <3>1 DEF LeaseInv, PollersOpen
    <3>. QED
      BY <3>1, <3>2 DEF LeaseFinished, Claimed
  <2>2. /\ poll_batch' = poll_batch /\ Claimed' = Claimed /\ clock # None
        /\ \A c \in BatchId : outcome'[c] = IF c = b THEN clock ELSE outcome[c]
    BY <2>1, PolicyAssumption DEF LeaseFinished, Claimed, TypeInv, TypeOK
  <2>3. b \notin Done(t) /\ b \notin Scans(t)
    BY <2>1 DEF Done, Open, Scans
  <2>4. HasRow(t) /\ schedule[t] \in Row
    <3>1. RowStep(t)
      BY RowSteps
    <3>2. ~Admit(t)
      <4>1. outcome'[b] # outcome[b]
        BY <2>1, <2>2
      <4>. QED
        BY <4>1 DEF Admit
    <3>. QED
      BY <3>1, <3>2 DEF RowStep, TypeInv, TypeOK, HasRow
  <2>5. CASE t \in poll_batch[b].members
    <3>1. RowFinished(t, b, worker[w].now)
      BY <1>2, <2>4, <2>5, FinishMoves
    <3>. HIDE DEF b
    <3>2. PICK moved \in Row, after \in Row :
            /\ Moved(schedule[t], moved) /\ Overlaid(t, worker[w].now, moved, after)
            /\ schedule'[t] = CompletedRow(after, b, clock)
      BY <3>1 DEF RowFinished
    <3>3. SameCounts(schedule[t], after)
      BY <2>4, <3>2, MovedKeepsCounts, OverlaidKeepsCounts DEF SameCounts
    <3>4. /\ schedule'[t].attempt_count = schedule[t].attempt_count + 1
          /\ schedule'[t].control_scan_count =
               IF poll_batch[b].kind = "retired_control" THEN schedule[t].control_scan_count + 1
                                                         ELSE schedule[t].control_scan_count
      BY <3>2, <3>3, CompletedCounts DEF SameCounts
    <3>5. Done(t)' = Done(t) \cup {b}
      BY <2>1, <2>2, <2>5 DEF Done, Open, Claimed
    <3>6. Scans(t)' = IF poll_batch[b].kind = "retired_control" THEN Scans(t) \cup {b} ELSE Scans(t)
      BY <2>2, <3>5 DEF Scans
    <3>7. /\ Cardinality(Done(t) \cup {b}) = Cardinality(Done(t)) + 1
          /\ Cardinality(Scans(t) \cup {b}) = Cardinality(Scans(t)) + 1
      <4>1. IsFiniteSet(Done(t)) /\ IsFiniteSet(Scans(t))
        BY DoneTypes
      <4>. QED
        BY <2>3, <4>1, FS_AddElement, Zenon
    <3>8. /\ schedule[t].attempt_count = Cardinality(Done(t))
          /\ schedule[t].control_scan_count = Cardinality(Scans(t))
      BY <2>4 DEF Counted
    <3>. QED
      BY <3>4, <3>5, <3>6, <3>7, <3>8
  <2>6. CASE t \notin poll_batch[b].members
    <3>1. schedule'[t] = schedule[t]
      BY <1>2, <2>4, <2>6, FinishMoves
    <3>. HIDE DEF b
    <3>2. Done(t)' = Done(t)
      BY <2>1, <2>2, <2>6 DEF Done, Open, Claimed
    <3>3. Scans(t)' = Scans(t)
      BY <2>2, <3>2 DEF Scans
    <3>. QED
      BY <2>4, <3>1, <3>2, <3>3 DEF Counted
  <2>. QED
    BY <2>5, <2>6
<1>. QED
  BY <1>1, <1>2
-----------------------------------------------------------------------------
(* A leased row keeps the due time its batch was claimed for, until it retires. *)

\* The row was due when it was claimed, and its boundary lies behind the claim.
Owed(row, due, claimed) ==
  /\ due \in Nat /\ due <= claimed
  /\ \/ row.coverage_next_transition_at = None
     \/ claimed < row.coverage_next_transition_at
  /\ row.coverage_class # "RETIRED_CONTROL" => row.next_due_at = due

Plain == Token \ (Contended \cup CandidateTokens)
LeasedAsDue(t) ==
  LET b == lease[t].id
  IN  b # None /\ poll_batch[b].kind = "ordinary" =>
        Owed(schedule[t], poll_batch[b].due_at[t], poll_batch[b].claimed_at)
DueInv == (\A t \in Plain : LeasedAsDue(t)) /\ OriginalDueKept

\* Nothing is colder than a retired row.
LEMMA RetiredIsColdest ==
  ASSUME NEW class \in CoverageClass, Priorities["RETIRED_CONTROL"] <= Priorities[class]
  PROVE  class = "RETIRED_CONTROL"
  BY DEF CoverageClass, OrdinaryClass, Priorities

\* A refresh now, or behind the boundary, leaves the next boundary ahead and keeps a due time
\* that is due by then.
LEMMA RefreshKeepsDue ==
  ASSUME NEW t \in Token, NEW row \in Row, NEW now \in Nat, NEW time \in Nat, Aged(row, time),
         \/ now = time
         \/ /\ row.coverage_next_transition_at # None
            /\ row.coverage_next_transition_at <= now
  PROVE  LET new == RefreshCoverage(t, row, now) IN
         /\ \/ new.coverage_next_transition_at = None
            \/ now < new.coverage_next_transition_at
         /\ new.coverage_class # "RETIRED_CONTROL" =>
              /\ row.coverage_class # "RETIRED_CONTROL"
              /\ row.next_due_at # None /\ row.next_due_at <= now =>
                   new.next_due_at = row.next_due_at
<1>. DEFINE new == RefreshCoverage(t, row, now)
<1>1. new \in Row /\ DerivedAt(new, now) /\ SameHistory(row, new)
  BY RefreshType, RefreshDerives DEF Aged
<1>2. new.coverage_class = ClassAt(row, now)
  BY <1>1 DEF DerivedAt, SameHistory, ClassAt
<1>3. new.next_due_at # row.next_due_at =>
        ~(ClassAt(row, now) # "RETIRED_CONTROL" /\ row.next_due_at # None /\ row.next_due_at <= now)
  BY DEF RefreshCoverage, Row
<1>. HIDE DEF new
<1>4. \/ new.coverage_next_transition_at = None
      \/ now < new.coverage_next_transition_at
  BY <1>1, BoundaryAhead DEF DerivedAt, BoundaryAt, Row
<1>5. new.coverage_class # "RETIRED_CONTROL" => row.coverage_class # "RETIRED_CONTROL"
  <2>1. Priorities[row.coverage_class] <= Priorities[new.coverage_class]
    BY <1>1, DerivedCools
  <2>. QED
    BY <1>1, <2>1, RetiredIsColdest DEF Row
<1>. QED
  BY <1>2, <1>3, <1>4, <1>5 DEF new

LEMMA RefreshKeepsOwed ==
  ASSUME NEW t \in Token, NEW row \in Row, NEW now \in Nat, NEW time \in Nat, Aged(row, time),
         NEW due, NEW claimed \in Nat, claimed <= time, Owed(row, due, claimed),
         \/ now = time
         \/ /\ row.coverage_next_transition_at # None
            /\ row.coverage_next_transition_at <= now
  PROVE  Owed(RefreshCoverage(t, row, now), due, claimed)
<1>. DEFINE new == RefreshCoverage(t, row, now)
<1>1. /\ \/ new.coverage_next_transition_at = None
         \/ now < new.coverage_next_transition_at
      /\ new.coverage_class # "RETIRED_CONTROL" =>
           /\ row.coverage_class # "RETIRED_CONTROL"
           /\ row.next_due_at # None /\ row.next_due_at <= now =>
                new.next_due_at = row.next_due_at
  BY RefreshKeepsDue
<1>2. new \in Row
  BY RefreshType
<1>. HIDE DEF new
<1>3. claimed <= now
  BY DEF Owed, Row, MaybeTime
<1>4. due # None
  BY PolicyAssumption DEF Owed
<1>5. Owed(new, due, claimed)
  BY <1>1, <1>2, <1>3, <1>4 DEF Owed, Row, MaybeTime
<1>. QED
  BY <1>5 DEF new

LEMMA AdvancedKeepsOwed ==
  ASSUME TypeInv, NEW t \in Token, HasRow(t), Aged(schedule[t], clock),
         NEW due, NEW claimed \in Nat, claimed <= clock, Owed(schedule[t], due, claimed),
         NEW now \in Nat, NEW row, Advanced(t, now, row)
  PROVE  Owed(row, due, claimed)
<1>1. schedule[t] \in Row /\ clock \in Nat
  BY DEF TypeInv, TypeOK, HasRow
<1>. QED
  BY <1>1, RefreshKeepsOwed DEF Advanced

\* Only the priority tells the row of the claim from the row before.
LEMMA PriorityKeepsOwed ==
  ASSUME NEW row \in Row, NEW priority, NEW due, NEW claimed
  PROVE  Owed(row, due, claimed) <=> Owed([row EXCEPT !.priority = priority], due, claimed)
  BY DEF Owed, Row

\* The lease of a row is taken by a claim; every other step keeps or ends it.
LEMMA LeasesStay ==
  ASSUME TypeInv, [Next]_vars, \A w \in Worker : ~Claim(w), NEW t \in Token
  PROVE  \/ lease'[t].id = None
         \/ /\ lease'[t].id = lease[t].id /\ ~StartEpoch
            /\ \A w \in Worker : Finishes(w) => t \notin poll_batch[worker[w].batch].members
<1>1. ASSUME NEW w \in Worker, Finishes(w)
      PROVE  lease'[t] = IF t \in poll_batch[worker[w].batch].members THEN NoLease ELSE lease[t]
  BY <1>1, CompletionFinishes DEF Finishes, LeaseFinished
<1>2. (\A w \in Worker : ~Finishes(w)) /\ ~StartEpoch => lease' = lease
  BY DEF Finishes, Next, WorkerStep, TokenStep, vars, store, Tick, Stop, Restart, BeginClaim,
         ClaimNothing, ClaimRaises, Receive, LoseLease, Admit, ReapplyState, WakeCandidate
<1>3. StartEpoch => lease'[t] = NoLease
  BY DEF StartEpoch
<1>. QED
  BY <1>1, <1>2, <1>3 DEF NoLease

LEMMA DueStep ==
  ASSUME TypeInv, TypeInv', LeaseInv, LeaseInv', AllAged, BudgetInv, DueInv, [Next]_vars
  PROVE  DueInv'
<1>1. /\ clock \in Nat
      /\ \A b \in Claimed : /\ b \in BatchId /\ poll_batch[b].claimed_at \in Nat
                            /\ poll_batch[b].claimed_at <= clock
      /\ \A b \in Claimed : b \in Claimed' /\ poll_batch'[b] = poll_batch[b]
      /\ \A t \in Token : /\ lease[t].id # None => lease[t].id \in Claimed /\ HasRow(t)
                          /\ HasRow(t) => schedule[t] \in Row
      /\ \A t \in Plain : /\ t \in Token /\ t \notin Contended /\ t \notin CandidateTokens
                          /\ HasRow(t) => Aged(schedule[t], clock)
  <2>1. \A b \in Claimed : b \in Claimed' /\ poll_batch'[b] = poll_batch[b]
    BY BatchesStay
  <2>2. \A t \in Token : lease[t].id # None => lease[t].id \in Claimed /\ HasRow(t)
    BY DEF LeaseInv, LeaseMatchesOpenBatch, Open, TypeInv, MembersAdmitted
  <2>3. \A b \in Claimed : poll_batch[b].claimed_at <= clock
    BY DEF BudgetInv, ClaimsBehindClock
  <2>. QED
    BY <2>1, <2>2, <2>3, MinuteTypes DEF Plain, AllAged, TypeInv, TypeOK, HasRow
\* A claim advances the row and keeps it for the batch that held it.
<1>2. ASSUME NEW t \in Plain, lease[t].id # None, poll_batch[lease[t].id].kind = "ordinary",
             NEW now \in Nat, NEW row, Advanced(t, now, row)
      PROVE  Owed(row, poll_batch[lease[t].id].due_at[t], poll_batch[lease[t].id].claimed_at)
  <2>1. Owed(schedule[t], poll_batch[lease[t].id].due_at[t], poll_batch[lease[t].id].claimed_at)
    BY <1>2 DEF DueInv, LeasedAsDue
  <2>. QED
    BY <1>1, <1>2, <2>1, AdvancedKeepsOwed
<1>3. ASSUME NEW w \in Worker, Claim(w) PROVE DueInv'
  <2>1. PICK b \in BatchId, skipped \in SUBSET Contended, members \in SUBSET Token,
             kind \in {"ordinary", "retired_control"} : ClaimWrites(w, b, skipped, members, kind)
    BY <1>3, ClaimBatch
  <2>. DEFINE now == worker[w].now
              rows == Advance(now, skipped)
  <2>2. now \in Nat
    BY <1>3 DEF Claim, TypeInv, WorkerReady
  <2>3. \A t \in Token : HasRow(t) => rows[t] \in Row /\ Advanced(t, now, rows[t])
    BY <2>2, AdvanceMoves
  <2>4. \A t \in Token : rows[t] # None => HasRow(t)
    BY <2>2, AdvanceType DEF TypeInv
  <2>5. \A t \in Plain : HasRow(t) => \/ rows[t].coverage_next_transition_at = None
                                      \/ now < rows[t].coverage_next_transition_at
    <3>. SUFFICES ASSUME NEW t \in Plain, HasRow(t)
                  PROVE  \/ rows[t].coverage_next_transition_at = None
                         \/ now < rows[t].coverage_next_transition_at
      OBVIOUS
    <3>1. CASE t \in AtBoundary(now, skipped)
      <4>1. /\ rows[t] = RefreshCoverage(t, schedule[t], now)
            /\ schedule[t].coverage_next_transition_at # None
            /\ schedule[t].coverage_next_transition_at <= now
        BY <1>1, <3>1 DEF Advance, AtBoundary
      <4>. QED
        BY <1>1, <2>2, <4>1, RefreshKeepsDue
    <3>2. CASE t \notin AtBoundary(now, skipped)
      <4>1. t \notin skipped /\ rows[t] = schedule[t]
        BY <1>1, <3>2 DEF Advance
      <4>2. ~(schedule[t].coverage_next_transition_at # None
               /\ schedule[t].coverage_next_transition_at <= now)
        BY <1>1, <3>2, <4>1 DEF AtBoundary
      <4>. QED
        BY <1>1, <2>2, <4>1, <4>2 DEF Row, MaybeTime
    <3>. QED
      BY <3>1, <3>2
  <2>6. /\ b \notin Claimed /\ Claimed' = Claimed \cup {b}
        /\ \A c \in Claimed : poll_batch'[c] = poll_batch[c]
        /\ poll_batch'[b].kind = kind
        /\ poll_batch'[b].claimed_at = now
        /\ poll_batch'[b].members = members
        /\ \A t \in members :
             /\ rows[t] # None
             /\ poll_batch'[b].previous[t] = lease[t].id
             /\ kind = "ordinary" =>
                  /\ rows[t].coverage_class # "RETIRED_CONTROL"
                  /\ rows[t].next_due_at # None /\ rows[t].next_due_at <= now
                  /\ poll_batch'[b].due_at[t] = rows[t].next_due_at
        /\ \A t \in Token : lease'[t].id = IF t \in members THEN b ELSE lease[t].id
        /\ \A t \in Token :
             schedule'[t] = IF t \in members /\ kind = "ordinary"
                            THEN [rows[t] EXCEPT !.priority = Priorities[rows[t].coverage_class]]
                            ELSE rows[t]
    BY <2>1 DEF ClaimWrites
  <2>. HIDE DEF now, rows
  <2>7. ASSUME NEW t \in Plain PROVE LeasedAsDue(t)'
    <3>1. CASE t \in members /\ kind = "ordinary"
      <4>1. rows[t] \in Row /\ HasRow(t)
        BY <1>1, <2>3, <2>4, <2>6, <3>1
      <4>2. Owed(rows[t], poll_batch'[b].due_at[t], now)
        BY <2>2, <2>5, <2>6, <3>1, <4>1 DEF Owed, Row, MaybeTime
      <4>3. Owed(schedule'[t], poll_batch'[b].due_at[t], now)
        <5>1. schedule'[t] = [rows[t] EXCEPT !.priority = Priorities[rows[t].coverage_class]]
          BY <1>1, <2>6, <3>1
        <5>. QED
          BY <4>1, <4>2, <5>1, PriorityKeepsOwed
      <4>. QED
        BY <1>1, <2>6, <3>1, <4>3 DEF LeasedAsDue
    <3>2. CASE t \in members /\ kind # "ordinary"
      BY <1>1, <2>6, <3>2 DEF LeasedAsDue
    <3>3. CASE t \notin members
      <4>1. lease'[t].id = lease[t].id /\ schedule'[t] = rows[t]
        BY <1>1, <2>6, <3>3
      <4>. QED
        BY <1>1, <1>2, <2>2, <2>3, <4>1 DEF LeasedAsDue
    <3>. QED
      BY <3>1, <3>2, <3>3
  <2>8. OriginalDueKept'
    <3>. SUFFICES ASSUME NEW c \in Claimed', NEW t \in poll_batch'[c].members \cap Plain,
                         poll_batch'[c].previous[t] # None,
                         poll_batch'[poll_batch'[c].previous[t]].kind = "ordinary",
                         poll_batch'[c].kind = "ordinary"
                  PROVE  poll_batch'[c].due_at[t]
                           = poll_batch'[poll_batch'[c].previous[t]].due_at[t]
      BY DEF OriginalDueKept, Plain, TypeInv, TypeOK, Claimed, Batch
    <3>1. CASE c = b
      <4>. DEFINE before == lease[t].id
      <4>1. t \in members /\ kind = "ordinary" /\ poll_batch'[c].previous[t] = before
        BY <2>6, <3>1
      <4>2. before \in Claimed /\ before # None /\ poll_batch'[before] = poll_batch[before]
            /\ HasRow(t)
        BY <1>1, <2>6, <4>1
      <4>3. Advanced(t, now, rows[t])
        BY <1>1, <2>3, <4>2
      <4>4. Owed(rows[t], poll_batch[before].due_at[t], poll_batch[before].claimed_at)
        BY <1>2, <2>2, <4>1, <4>2, <4>3
      <4>. QED
        BY <2>6, <3>1, <4>1, <4>2, <4>4 DEF Owed
    <3>2. CASE c \in Claimed
      <4>1. poll_batch'[c] = poll_batch[c]
        BY <1>1, <3>2
      <4>2. poll_batch[c].previous[t] \in Claimed
        BY <3>2, <4>1 DEF LeaseInv, ReclaimedForGood
      <4>3. poll_batch'[poll_batch[c].previous[t]] = poll_batch[poll_batch[c].previous[t]]
        BY <1>1, <4>2
      <4>. QED
        BY <3>2, <4>1, <4>3 DEF DueInv, OriginalDueKept, Plain
    <3>. QED
      BY <2>6, <3>1, <3>2
  <2>. QED
    BY <2>7, <2>8 DEF DueInv, Plain
<1>4. CASE \A w \in Worker : ~Claim(w)
  <2>1. poll_batch' = poll_batch /\ Claimed' = Claimed
    BY <1>4 DEF Claimed, Next, WorkerStep, TokenStep, vars, store, Tick, Stop, Restart,
       StartEpoch, BeginClaim, ClaimNothing, ClaimRaises, Receive, Complete, CompleteAndFail,
       LoseLease, Admit, ReapplyState, WakeCandidate
  <2>2. OriginalDueKept'
    BY <2>1 DEF DueInv, OriginalDueKept
  <2>3. ASSUME NEW t \in Plain, lease'[t].id # None,
               poll_batch[lease'[t].id].kind = "ordinary"
        PROVE  Owed(schedule'[t], poll_batch[lease'[t].id].due_at[t],
                    poll_batch[lease'[t].id].claimed_at)
    <3>. DEFINE due == poll_batch[lease[t].id].due_at[t]
                claimed == poll_batch[lease[t].id].claimed_at
    <3>1. /\ lease'[t].id = lease[t].id /\ ~StartEpoch
          /\ \A w \in Worker : Finishes(w) => t \notin poll_batch[worker[w].batch].members
      BY <1>1, <1>4, <2>3, LeasesStay
    <3>2. lease[t].id \in Claimed /\ HasRow(t) /\ claimed \in Nat /\ claimed <= clock
      BY <1>1, <2>3, <3>1
    <3>3. Owed(schedule[t], due, claimed)
      BY <2>3, <3>1 DEF DueInv, LeasedAsDue
    <3>4. RowStep(t)
      BY <1>1, <3>2, RowSteps
    <3>5. ASSUME NEW now \in Nat, RowClaimed(t, now) PROVE Owed(schedule'[t], due, claimed)
      <4>1. PICK row \in Row :
              /\ Advanced(t, now, row)
              /\ schedule'[t] \in {row, [row EXCEPT !.priority = Priorities[row.coverage_class]]}
        BY <3>5 DEF RowClaimed
      <4>2. Owed(row, due, claimed)
        BY <1>2, <2>3, <3>1, <4>1
      <4>. QED
        BY <4>1, <4>2, PriorityKeepsOwed
    <3>6. ASSUME NEW w \in Worker, Claim(w) \/ ClaimNothing(w), RowClaimed(t, worker[w].now)
          PROVE  Owed(schedule'[t], due, claimed)
      <4>1. worker[w].now \in Nat
        BY <3>6 DEF Claim, ClaimNothing, TypeInv, WorkerReady
      <4>. QED
        BY <3>5, <3>6, <4>1
    <3>7. schedule'[t] = RefreshCoverage(t, schedule[t], clock)
            => Owed(schedule'[t], due, claimed)
      BY <1>1, <3>2, <3>3, RefreshKeepsOwed
    <3>8. RowWoken(t) => schedule'[t] = schedule[t]
      BY <1>1 DEF RowWoken, Overlaid
    <3>. HIDE DEF due, claimed
    <3>9. Owed(schedule'[t], due, claimed)
      BY <3>1, <3>2, <3>3, <3>4, <3>6, <3>7, <3>8 DEF RowStep
    <3>. QED
      BY <3>1, <3>9 DEF due, claimed
  <2>. QED
    BY <2>1, <2>2, <2>3 DEF DueInv, LeasedAsDue, Plain
<1>. QED
  BY <1>3, <1>4

\* However often a poll is abandoned and reclaimed, it is accounted for once, and it keeps the
\* due time it had at first: while a batch holds a row its boundaries lie behind the claim, so
\* whoever refreshes the row then finds it due (_refresh_one_coverage, claim_next_batch).
THEOREM PollsAreAccounted == Spec => []PollsAccounted
<1>1. Init => Counted /\ DueInv /\ BudgetInv
  <2>1. Init => \A t \in Token : lease[t].id = None
    BY DEF Init, NoLease
  <2>2. Init => Claimed = {} /\ \A t : Done(t) = {} /\ Scans(t) = {}
    BY DEF Init, Claimed, Done, Scans
  <2>3. Init => \A t \in Token : HasRow(t) => /\ schedule[t].attempt_count = 0
                                              /\ schedule[t].control_scan_count = 0
    BY DEF Init, HasRow, AdmittedRow
  <2>4. Init => DueInv
    BY <2>1, <2>2 DEF DueInv, LeasedAsDue, OriginalDueKept, Plain
  <2>5. Init => Counted
    BY <2>2, <2>3, FS_EmptySet DEF Counted
  <2>. QED
    BY <2>4, <2>5, BudgetInit
<1>2. Spec => []BudgetInv
  BY BudgetInit, BudgetStep, TypeInvariance, PTL DEF Spec
<1>3. Spec => []Counted
  BY <1>1, CountStep, TypeInvariance, LeaseInvariance, PTL DEF Spec
<1>4. Spec => []DueInv
  BY <1>1, <1>2, DueStep, TypeInvariance, LeaseInvariance, AgedInvariance, PTL DEF Spec
<1>5. Counted /\ DueInv => PollsAccounted
  BY CountedIsCountedOnce DEF PollsAccounted, DueInv
<1>. QED
  BY <1>3, <1>4, <1>5, PTL
-----------------------------------------------------------------------------
(* Due work stays due.                                                     *)

\* The due time is there and no later than it was.
NotPostponed(row, new) == new.next_due_at # None /\ new.next_due_at <= row.next_due_at

LEMMA RefreshPostponesNothing ==
  ASSUME NEW t \in Token, NEW row \in Row, NEW now \in Nat,
         row.next_due_at # None, row.next_due_at <= now,
         RefreshCoverage(t, row, now).coverage_class # "RETIRED_CONTROL"
  PROVE  NotPostponed(row, RefreshCoverage(t, row, now))
<1>. DEFINE new == RefreshCoverage(t, row, now)
<1>1. new.coverage_class = ClassAt(row, now)
  BY DEF RefreshCoverage, Row
<1>2. ClassAt(row, now) # "RETIRED_CONTROL"
  BY <1>1
<1>3. new.next_due_at = row.next_due_at
  BY <1>2 DEF RefreshCoverage, Row
<1>. QED
  BY <1>3 DEF NotPostponed, Row, MaybeTime

LEMMA OverlaidPostponesNothing ==
  ASSUME NEW t, NEW at \in Nat, NEW row \in Row, NEW new, Overlaid(t, at, row, new),
         row.next_due_at # None, new.coverage_class # "RETIRED_CONTROL"
  PROVE  NotPostponed(row, new)
<1>1. row.next_due_at \in Nat /\ at + CandidateInterval \in Nat
  BY SchedulerAssumption DEF Row, MaybeTime
<1>2. CASE new = PromotedRow(row, at)
  <2>1. new.coverage_class = row.coverage_class
    BY <1>2 DEF PromotedRow, Row
  <2>2. new.next_due_at = Earliest(row.next_due_at, at + CandidateInterval)
    BY <1>2, <2>1 DEF PromotedRow, Row
  <2>. QED
    BY <1>1, <2>2, PolicyAssumption DEF Earliest, NotPostponed
<1>3. CASE new = row \/ new = WithdrawnRow(row, at)
  <2>1. new.next_due_at = row.next_due_at
    BY <1>3 DEF WithdrawnRow, Row
  <2>. QED
    BY <1>1, <2>1 DEF NotPostponed
<1>. QED
  BY <1>2, <1>3 DEF Overlaid

\* A claim works with the time its worker slept with.
LEMMA ClaimStepTime ==
  ASSUME TypeInv, NEW w \in Worker, Claim(w) \/ ClaimNothing(w)
  PROVE  StepTime = worker[w].now
<1>. DEFINE Ends(v) == worker[v].pc = "claiming" /\ worker'[v].pc # "claiming"
<1>1. /\ worker[w].pc = "claiming" /\ worker'[w].pc # "claiming"
      /\ \A v \in Worker : v # w => worker'[v] = worker[v]
  <2>1. CASE ClaimNothing(w)
    BY <2>1 DEF ClaimNothing, IdleWorker, TypeInv, TypeOK
  <2>2. CASE Claim(w)
    <3>1. PICK b : worker' = [worker EXCEPT ![w] = [pc |-> "polling", now |-> None, batch |-> b]]
      BY <2>2, ClaimLeases DEF LeaseBatch
    <3>. QED
      BY <2>2, <3>1 DEF Claim, TypeInv, TypeOK
  <2>. QED
    BY <2>1, <2>2
<1>2. \A v \in Worker : Ends(v) <=> v = w
  BY <1>1
<1>3. (CHOOSE v \in Worker : Ends(v)) = w
  BY <1>2
<1>. QED
  BY <1>2, <1>3 DEF StepTime

LEMMA DueWorkStep ==
  ASSUME TypeInv, LeaseInv, [Next]_vars, NEW t \in Token, Undisturbed(t),
         schedule[t].next_due_at # None, schedule[t].next_due_at <= StepTime,
         schedule'[t].coverage_class # "RETIRED_CONTROL"
  PROVE  NotPostponed(schedule[t], schedule'[t])
<1>1. HasRow(t) /\ schedule[t] \in Row /\ schedule[t].next_due_at \in Nat /\ clock \in Nat
  BY DEF Undisturbed, TypeInv, TypeOK, HasRow, Row, MaybeTime
<1>2. RowStep(t)
  BY <1>1, RowSteps
<1>3. schedule'[t] = schedule[t] => NotPostponed(schedule[t], schedule'[t])
  BY <1>1 DEF NotPostponed
<1>4. ASSUME NEW w \in Worker, Claim(w) \/ ClaimNothing(w), RowClaimed(t, worker[w].now)
      PROVE  NotPostponed(schedule[t], schedule'[t])
  <2>1. worker[w].now \in Nat /\ schedule[t].next_due_at <= worker[w].now
    BY <1>4, ClaimStepTime DEF Claim, ClaimNothing, TypeInv, WorkerReady
  <2>2. PICK row \in Row :
          /\ Advanced(t, worker[w].now, row)
          /\ schedule'[t] \in {row, [row EXCEPT !.priority = Priorities[row.coverage_class]]}
    BY <1>4 DEF RowClaimed
  <2>3. /\ schedule'[t].next_due_at = row.next_due_at
        /\ schedule'[t].coverage_class = row.coverage_class
    BY <2>2 DEF Row
  <2>4. NotPostponed(schedule[t], row)
    BY <1>1, <2>1, <2>2, <2>3, RefreshPostponesNothing DEF Advanced, NotPostponed
  <2>. QED
    BY <2>3, <2>4 DEF NotPostponed
<1>5. ASSUME NEW w \in Worker, Finishes(w), t \in poll_batch[worker[w].batch].members
      PROVE  FALSE
  <2>. DEFINE b == worker[w].batch
  <2>1. LeaseFinished(b) /\ Polling(w)
    BY <1>5, CompletionFinishes DEF Finishes
  <2>2. b \in Open /\ b \in BatchId
    BY <2>1 DEF LeaseFinished, Open, LeaseInv, PollersOpen, Claimed
  <2>3. outcome'[b] = clock /\ clock # None
    BY <2>1, <2>2, PolicyAssumption DEF LeaseFinished, TypeInv, TypeOK
  <2>. QED
    BY <1>5, <2>2, <2>3 DEF Undisturbed
<1>6. ASSUME ReapplyState(t), schedule'[t] = RefreshCoverage(t, schedule[t], clock)
      PROVE  NotPostponed(schedule[t], schedule'[t])
  <2>1. StepTime = clock
    BY <1>6 DEF ReapplyState, StepTime
  <2>. QED
    BY <1>1, <1>6, <2>1, RefreshPostponesNothing
<1>7. RowWoken(t) => NotPostponed(schedule[t], schedule'[t])
  BY <1>1, OverlaidPostponesNothing DEF RowWoken
<1>8. StartEpoch => schedule' = schedule
  BY DEF StartEpoch, Undisturbed
<1>. QED
  BY <1>1, <1>2, <1>3, <1>4, <1>5, <1>6, <1>7, <1>8 DEF RowStep

\* An obligation that is due stays due, and no later than it was, until a batch of the token
\* completes, an epoch starts or the token retires: no boundary, overlay or reapplied state
\* postpones it, not even by a claim that slept behind the gate (_refresh_one_coverage).
THEOREM DueWorkStaysDue == Spec => DueObligationKept
<1>. DEFINE Stays == \A t \in Token :
              /\ Undisturbed(t)
              /\ schedule[t].next_due_at # None
              /\ schedule[t].next_due_at <= StepTime
              /\ schedule'[t].coverage_class # "RETIRED_CONTROL"
              => /\ schedule'[t].next_due_at # None
                 /\ schedule'[t].next_due_at <= schedule[t].next_due_at
<1>1. TypeInv /\ LeaseInv /\ [Next]_vars => [Stays]_vars
  BY DueWorkStep DEF NotPostponed
<1>. HIDE DEF Stays
<1>2. Spec => [][Stays]_vars
  BY <1>1, TypeInvariance, LeaseInvariance, PTL DEF Spec
<1>. QED
  BY <1>2 DEF DueObligationKept, Stays
-----------------------------------------------------------------------------
(* The control rotation passes over nobody.                                 *)

\* A row's place in the rotation: its state, when that was decided and its last scan.
SamePlace(row, new) ==
  /\ new.lifecycle_state = row.lifecycle_state
  /\ new.state_decided_at = row.state_decided_at
  /\ new.last_control_scan_at = row.last_control_scan_at

\* A DORMANT row is retired, whatever its age.
Retired(row) == row.lifecycle_state = "DORMANT" => row.coverage_class = "RETIRED_CONTROL"

LEMMA DormantClass ==
  ASSUME NEW row, NEW now, row.lifecycle_state = "DORMANT"
  PROVE  ClassAt(row, now) = "RETIRED_CONTROL"
  BY DEF ClassAt, CoverageClassFor

LEMMA RefreshKeepsPlace ==
  ASSUME NEW t, NEW row \in Row, NEW now
  PROVE  /\ SamePlace(row, RefreshCoverage(t, row, now))
         /\ Retired(row) => Retired(RefreshCoverage(t, row, now))
<1>. DEFINE new == RefreshCoverage(t, row, now)
<1>1. SamePlace(row, new) /\ new.coverage_class = ClassAt(row, now)
  BY DEF RefreshCoverage, Row, SamePlace
<1>2. row.lifecycle_state = "DORMANT" => ClassAt(row, now) = "RETIRED_CONTROL"
  BY DormantClass
<1>. HIDE DEF new
<1>3. Retired(new)
  BY <1>1, <1>2 DEF Retired, SamePlace
<1>. QED
  BY <1>1, <1>3 DEF new

LEMMA OverlaidKeepsPlace ==
  ASSUME NEW t, NEW at, NEW row \in Row, NEW new, Overlaid(t, at, row, new)
  PROVE  SamePlace(row, new) /\ new.coverage_class = row.coverage_class
  BY DEF Overlaid, PromotedRow, WithdrawnRow, Row, SamePlace

LEMMA RebasedKeepsPlace ==
  ASSUME NEW t, NEW row \in Row, NEW plan
  PROVE  SamePlace(row, RebasedRow(t, row, plan)) /\ Retired(RebasedRow(t, row, plan))
<1>. DEFINE new == RebasedRow(t, row, plan)
<1>1. SamePlace(row, new) /\ new.coverage_class = ClassAt(row, clock)
  BY DEF RebasedRow, Row, SamePlace
<1>2. row.lifecycle_state = "DORMANT" => ClassAt(row, clock) = "RETIRED_CONTROL"
  BY DormantClass
<1>. HIDE DEF new
<1>3. Retired(new)
  BY <1>1, <1>2 DEF Retired, SamePlace
<1>. QED
  BY <1>1, <1>3 DEF new

\* Only a decision of this very moment changes the state.
LEMMA MovedKeepsScan ==
  ASSUME NEW row \in Row, NEW moved, Moved(row, moved)
  PROVE  /\ moved.last_control_scan_at = row.last_control_scan_at
         /\ SamePlace(row, moved) \/ moved.state_decided_at = clock
  BY DEF Moved, MovedRow, Row, SamePlace

LEMMA CompletedScan ==
  ASSUME NEW row \in Row, NEW b, NEW now
  PROVE  LET new == CompletedRow(row, b, now)
         IN  /\ new.lifecycle_state = row.lifecycle_state
             /\ new.state_decided_at = row.state_decided_at
             /\ Retired(new)
             /\ new.last_control_scan_at =
                  IF poll_batch[b].kind = "retired_control" THEN now
                                                            ELSE row.last_control_scan_at
<1>. DEFINE new == CompletedRow(row, b, now)
<1>1. /\ new.lifecycle_state = row.lifecycle_state
      /\ new.state_decided_at = row.state_decided_at
      /\ new.coverage_class = ClassAt(row, now)
      /\ new.last_control_scan_at =
           IF poll_batch[b].kind = "retired_control" THEN now ELSE row.last_control_scan_at
  BY DEF CompletedRow, Row
<1>2. row.lifecycle_state = "DORMANT" => ClassAt(row, now) = "RETIRED_CONTROL"
  BY DormantClass
<1>. HIDE DEF new
<1>3. Retired(new)
  BY <1>1, <1>2 DEF Retired
<1>. QED
  BY <1>1, <1>3 DEF new

\* Outside a completion a row keeps its place, and a new row is NEW and was never scanned.
LEMMA RowKeepsPlace ==
  ASSUME TypeInv, [Next]_vars, NEW t \in Token, HasRow(t)',
         \A w \in Worker : Finishes(w) => t \notin poll_batch[worker[w].batch].members
  PROVE  /\ HasRow(t) => /\ SamePlace(schedule[t], schedule'[t])
                         /\ Retired(schedule[t]) => Retired(schedule'[t])
         /\ ~HasRow(t) => /\ schedule'[t].lifecycle_state = "NEW"
                          /\ schedule'[t].last_control_scan_at = None
<1>1. RowStep(t) /\ (HasRow(t) => schedule[t] \in Row)
  BY RowSteps DEF TypeInv, TypeOK, HasRow
<1>2. ASSUME HasRow(t), NEW now, RowClaimed(t, now)
      PROVE  /\ SamePlace(schedule[t], schedule'[t])
             /\ Retired(schedule[t]) => Retired(schedule'[t])
  <2>1. PICK row \in Row :
          /\ Advanced(t, now, row)
          /\ schedule'[t] \in {row, [row EXCEPT !.priority = Priorities[row.coverage_class]]}
    BY <1>2 DEF RowClaimed
  <2>2. SamePlace(schedule[t], row) /\ (Retired(schedule[t]) => Retired(row))
    BY <1>1, <1>2, <2>1, RefreshKeepsPlace DEF Advanced, SamePlace
  <2>3. SamePlace(row, schedule'[t]) /\ schedule'[t].coverage_class = row.coverage_class
    BY <2>1 DEF SamePlace, Row
  <2>. QED
    BY <2>2, <2>3 DEF SamePlace, Retired
<1>3. ASSUME HasRow(t), RowWoken(t)
      PROVE  /\ SamePlace(schedule[t], schedule'[t])
             /\ Retired(schedule[t]) => Retired(schedule'[t])
  BY <1>1, <1>3, OverlaidKeepsPlace DEF RowWoken, SamePlace, Retired
<1>4. ASSUME NEW plan, ~HasRow(t), schedule'[t] = AdmittedRow("NEW", clock, plan)
      PROVE  schedule'[t].lifecycle_state = "NEW" /\ schedule'[t].last_control_scan_at = None
  BY <1>4 DEF AdmittedRow
<1>. QED
  BY <1>1, <1>2, <1>3, <1>4, RefreshKeepsPlace, RebasedKeepsPlace DEF RowStep, SamePlace

\* A completion scans its members if it is a control poll, and decides their states now.
LEMMA RowIsScanned ==
  ASSUME TypeInv, [Next]_vars, NEW w \in Worker, Finishes(w), NEW t \in Token, HasRow(t),
         t \in poll_batch[worker[w].batch].members
  PROVE  /\ schedule'[t].last_control_scan_at =
              IF poll_batch[worker[w].batch].kind = "retired_control"
              THEN clock ELSE schedule[t].last_control_scan_at
         /\ Retired(schedule'[t])
         /\ \/ /\ schedule'[t].lifecycle_state = schedule[t].lifecycle_state
               /\ schedule'[t].state_decided_at = schedule[t].state_decided_at
            \/ schedule'[t].state_decided_at = clock
<1>. DEFINE b == worker[w].batch
<1>1. RowFinished(t, b, worker[w].now)
  BY FinishMoves
<1>. HIDE DEF b
<1>2. schedule[t] \in Row
  BY DEF TypeInv, TypeOK, HasRow
<1>3. PICK moved \in Row, after \in Row :
        /\ Moved(schedule[t], moved) /\ Overlaid(t, worker[w].now, moved, after)
        /\ schedule'[t] = CompletedRow(after, b, clock)
  BY <1>1 DEF RowFinished
<1>4. /\ SamePlace(moved, after)
      /\ moved.last_control_scan_at = schedule[t].last_control_scan_at
      /\ SamePlace(schedule[t], moved) \/ moved.state_decided_at = clock
  BY <1>2, <1>3, OverlaidKeepsPlace, MovedKeepsScan
<1>5. /\ schedule'[t].lifecycle_state = after.lifecycle_state
      /\ schedule'[t].state_decided_at = after.state_decided_at
      /\ Retired(schedule'[t])
      /\ schedule'[t].last_control_scan_at =
           IF poll_batch[b].kind = "retired_control" THEN clock ELSE after.last_control_scan_at
  BY <1>3, CompletedScan
<1>. QED
  BY <1>4, <1>5 DEF SamePlace, b

\* A DORMANT row is retired, and only control batches hold it.
DormantRotates ==
  \A t \in Token : HasRow(t) =>
    /\ Retired(schedule[t])
    /\ schedule[t].lifecycle_state = "DORMANT" /\ lease[t].id # None
         => poll_batch[lease[t].id].kind = "retired_control"

\* last_control_scan_at is the time of the last control poll that was completed.
ScanRecorded(t) ==
  LET last == schedule[t].last_control_scan_at
  IN  /\ \A b \in Scans(t) : last # None /\ outcome[b] <= last
      /\ last # None => \E b \in Scans(t) : outcome[b] = last

\* Batches are numbered in the order of their claims; a row is held by the last one it was in.
BatchesInOrder ==
  /\ \A b \in Claimed : \A c \in BatchId : c < b => c \in Claimed
  /\ \A t \in Token : \A c \in Claimed :
       t \in poll_batch[c].members /\ lease[t].id # None => c <= lease[t].id

OutcomesBehindClock == \A b \in BatchId : outcome[b] # None => outcome[b] <= clock

RotationInv ==
  /\ DormantRotates
  /\ \A t \in Token : HasRow(t) => ScanRecorded(t)
  /\ BatchesInOrder /\ OutcomesBehindClock
  /\ ControlRotationFair

LEMMA RotationInit == Init => RotationInv
<1>. SUFFICES ASSUME Init PROVE RotationInv
  OBVIOUS
<1>1. /\ Claimed = {} /\ \A b \in BatchId : outcome[b] = None
      /\ \A t \in Token : lease[t].id = None /\ Scans(t) = {}
  BY DEF Init, Claimed, NoLease, Scans, Done
<1>2. \A t \in Token : HasRow(t) => /\ schedule[t].last_control_scan_at = None
                                    /\ Retired(schedule[t])
  BY DEF Init, HasRow, AdmittedRow, Retired, CoverageClassFor
<1>. QED
  BY <1>1, <1>2 DEF RotationInv, DormantRotates, ScanRecorded, BatchesInOrder,
                    OutcomesBehindClock, ControlRotationFair

\* An outcome is written once, by the worker whose batch still holds all its rows.
LEMMA OutcomesFinal ==
  ASSUME TypeInv, LeaseInv, [Next]_vars, NEW b \in BatchId
  PROVE  \/ outcome'[b] = outcome[b]
         \/ /\ b \in Claimed /\ outcome[b] = None /\ outcome'[b] = clock /\ clock # None
            /\ \A t \in poll_batch[b].members : lease[t].id = b
            /\ \E w \in Worker : Finishes(w) /\ worker[w].batch = b
<1>1. CASE \A w \in Worker : ~Finishes(w)
  BY <1>1, OutcomesStay
<1>2. ASSUME NEW w \in Worker, Finishes(w)
      PROVE  \/ outcome'[b] = outcome[b]
             \/ /\ b \in Claimed /\ outcome[b] = None /\ outcome'[b] = clock /\ clock # None
                /\ \A t \in poll_batch[b].members : lease[t].id = b
                /\ \E v \in Worker : Finishes(v) /\ worker[v].batch = b
  <2>1. LeaseFinished(worker[w].batch) /\ Polling(w)
    BY <1>2, CompletionFinishes DEF Finishes
  <2>2. outcome[worker[w].batch] = None
    BY <2>1 DEF LeaseInv, PollersOpen
  <2>3. clock # None
    BY PolicyAssumption DEF TypeInv, TypeOK
  <2>. QED
    BY <1>2, <2>1, <2>2, <2>3 DEF LeaseFinished, OwnsBatch, TypeInv, TypeOK
<1>. QED
  BY <1>1, <1>2

LEMMA ClaimFinishesNothing ==
  ASSUME TypeInv, TypeInv', NEW w \in Worker, Claim(w), NEW v \in Worker
  PROVE  ~Finishes(v)
<1>1. Claimed' # Claimed
  BY ClaimBatch DEF ClaimWrites
<1>2. Finishes(v) => poll_batch' = poll_batch
  BY DEF Finishes, Complete, CompleteAndFail
<1>. QED
  BY <1>1, <1>2 DEF Claimed

LEMMA ScansStay ==
  ASSUME TypeInv, TypeInv', LeaseInv, [Next]_vars, NEW t \in Token,
         \A w \in Worker : Finishes(w) => t \notin poll_batch[worker[w].batch].members
  PROVE  Scans(t)' = Scans(t) /\ \A b \in Scans(t) : outcome'[b] = outcome[b]
<1>1. /\ \A b \in Claimed : b \in Claimed' /\ poll_batch'[b] = poll_batch[b]
      /\ \A b \in BatchId : outcome[b] # None => b \in Claimed
      /\ Claimed \subseteq BatchId /\ Claimed' \subseteq BatchId
  BY BatchesStay DEF LeaseInv, OutcomesClaimed, Claimed
<1>2. \A b \in BatchId : outcome[b] # None => outcome'[b] = outcome[b]
  BY OutcomesFinal
<1>3. \A b \in BatchId : \/ outcome'[b] = outcome[b]
                         \/ b \in Claimed /\ t \notin poll_batch[b].members
  BY OutcomesFinal
<1>4. \A b \in BatchId : b \in Scans(t)' <=> b \in Scans(t)
  <2>. SUFFICES ASSUME NEW b \in BatchId PROVE b \in Scans(t)' <=> b \in Scans(t)
    OBVIOUS
  <2>1. b \in Scans(t) <=> /\ b \in Claimed /\ outcome[b] # None
                           /\ t \in poll_batch[b].members
                           /\ poll_batch[b].kind = "retired_control"
    BY DEF Scans, Done, Open
  <2>2. b \in Scans(t)' <=> /\ b \in Claimed' /\ outcome'[b] # None
                            /\ t \in poll_batch'[b].members
                            /\ poll_batch'[b].kind = "retired_control"
    BY DEF Scans, Done, Open
  <2>. QED
    BY <1>1, <1>2, <1>3, <2>1, <2>2
<1>5. Scans(t) \subseteq BatchId /\ Scans(t)' \subseteq BatchId
  BY <1>1 DEF Scans, Done
<1>6. \A b \in Scans(t) : outcome[b] # None
  BY DEF Scans, Done, Open
<1>. QED
  BY <1>2, <1>4, <1>5, <1>6

LEMMA ScansGrow ==
  ASSUME TypeInv, LeaseInv, NEW w \in Worker, Finishes(w), NEW t \in Token,
         t \in poll_batch[worker[w].batch].members
  PROVE  /\ Scans(t)' = IF poll_batch[worker[w].batch].kind = "retired_control"
                        THEN Scans(t) \cup {worker[w].batch} ELSE Scans(t)
         /\ outcome'[worker[w].batch] = clock
         /\ \A b \in Scans(t) : outcome'[b] = outcome[b]
<1>. DEFINE b == worker[w].batch
<1>1. LeaseFinished(b) /\ Polling(w)
  BY CompletionFinishes DEF Finishes
<1>2. outcome[b] = None /\ b \in Claimed /\ b \in BatchId
  BY <1>1 DEF LeaseInv, PollersOpen, LeaseFinished, Claimed
<1>3. /\ poll_batch' = poll_batch /\ Claimed' = Claimed /\ clock # None
      /\ \A c \in BatchId : outcome'[c] = IF c = b THEN clock ELSE outcome[c]
  BY <1>1, PolicyAssumption DEF LeaseFinished, Claimed, TypeInv, TypeOK
<1>. HIDE DEF b
<1>4. Done(t)' = Done(t) \cup {b}
  BY <1>2, <1>3 DEF Done, Open, Claimed, b
<1>5. b \notin Scans(t) /\ Scans(t) \subseteq BatchId
  BY <1>2 DEF Done, Open, Scans, Claimed
<1>6. Scans(t)' = IF poll_batch[b].kind = "retired_control" THEN Scans(t) \cup {b} ELSE Scans(t)
  BY <1>3, <1>4 DEF Scans
<1>. QED
  BY <1>2, <1>3, <1>5, <1>6 DEF b

LEMMA ScanStep ==
  ASSUME TypeInv, TypeInv', LeaseInv, [Next]_vars, RotationInv, NEW t \in Token, HasRow(t)'
  PROVE  ScanRecorded(t)'
<1>1. CASE \A w \in Worker : Finishes(w) => t \notin poll_batch[worker[w].batch].members
  <2>1. Scans(t)' = Scans(t) /\ \A b \in Scans(t) : outcome'[b] = outcome[b]
    BY <1>1, ScansStay
  <2>2. CASE HasRow(t)
    <3>1. ScanRecorded(t)
      BY <2>2 DEF RotationInv
    <3>2. schedule'[t].last_control_scan_at = schedule[t].last_control_scan_at
      BY <1>1, <2>2, RowKeepsPlace DEF SamePlace
    <3>. QED
      BY <2>1, <3>1, <3>2 DEF ScanRecorded
  <2>3. CASE ~HasRow(t)
    <3>1. Scans(t) = {}
      BY <2>3 DEF TypeInv, MembersAdmitted, Done, Scans
    <3>2. schedule'[t].last_control_scan_at = None
      BY <1>1, <2>3, RowKeepsPlace
    <3>. QED
      BY <2>1, <3>1, <3>2 DEF ScanRecorded
  <2>. QED
    BY <2>2, <2>3
<1>2. ASSUME NEW w \in Worker, Finishes(w), t \in poll_batch[worker[w].batch].members
      PROVE  ScanRecorded(t)'
  <2>. DEFINE b == worker[w].batch
              last == schedule[t].last_control_scan_at
              control == poll_batch[b].kind = "retired_control"
  <2>1. /\ Scans(t)' = IF control THEN Scans(t) \cup {b} ELSE Scans(t)
        /\ outcome'[b] = clock
        /\ \A c \in Scans(t) : outcome'[c] = outcome[c]
    BY <1>2, ScansGrow
  <2>2. b \in Claimed /\ HasRow(t)
    BY <1>2, CompletionFinishes DEF Finishes, LeaseFinished, TypeInv, MembersAdmitted
  <2>3. schedule'[t].last_control_scan_at = IF control THEN clock ELSE last
    BY <1>2, <2>2, RowIsScanned
  <2>4. /\ \A c \in Scans(t) : last # None /\ outcome[c] <= last
        /\ last # None => \E c \in Scans(t) : outcome[c] = last
    BY <2>2 DEF RotationInv, ScanRecorded
  <2>5. \A c \in Scans(t) : outcome[c] <= clock
    BY DEF Scans, Done, Open, Claimed, RotationInv, OutcomesBehindClock
  <2>6. clock # None /\ clock <= clock
    BY PolicyAssumption DEF TypeInv, TypeOK
  <2>. HIDE DEF b, control, last
  <2>7. CASE control
    BY <2>1, <2>3, <2>5, <2>6, <2>7 DEF ScanRecorded
  <2>8. CASE ~control
    BY <2>1, <2>3, <2>4, <2>8 DEF ScanRecorded
  <2>. QED
    BY <2>7, <2>8
<1>. QED
  BY <1>1, <1>2

LEMMA DormantStep ==
  ASSUME TypeInv, TypeInv', LeaseInv, [Next]_vars, RotationInv, NEW t \in Token, HasRow(t)'
  PROVE  /\ Retired(schedule'[t])
         /\ schedule'[t].lifecycle_state = "DORMANT" /\ lease'[t].id # None
              => poll_batch'[lease'[t].id].kind = "retired_control"
<1>1. /\ HasRow(t) => Retired(schedule[t])
      /\ HasRow(t) /\ schedule[t].lifecycle_state = "DORMANT" /\ lease[t].id # None
           => poll_batch[lease[t].id].kind = "retired_control"
  BY DEF RotationInv, DormantRotates
<1>2. Retired(schedule'[t])
  <2>1. CASE \A w \in Worker : Finishes(w) => t \notin poll_batch[worker[w].batch].members
    BY <1>1, <2>1, RowKeepsPlace DEF Retired
  <2>2. ASSUME NEW w \in Worker, Finishes(w), t \in poll_batch[worker[w].batch].members
        PROVE  Retired(schedule'[t])
    <3>1. HasRow(t)
      BY <2>2, CompletionFinishes DEF Finishes, LeaseFinished, TypeInv, MembersAdmitted
    <3>. QED
      BY <2>2, <3>1, RowIsScanned
  <2>. QED
    BY <2>1, <2>2
<1>3. ASSUME \A w \in Worker : Finishes(w) => t \notin poll_batch[worker[w].batch].members,
             schedule'[t].lifecycle_state = "DORMANT", lease[t].id # None
      PROVE  /\ poll_batch[lease[t].id].kind = "retired_control"
             /\ poll_batch'[lease[t].id].kind = "retired_control"
  <2>1. HasRow(t) /\ schedule[t].lifecycle_state = "DORMANT"
    BY <1>3, RowKeepsPlace DEF SamePlace
  <2>2. lease[t].id \in Claimed
    BY <1>3 DEF LeaseInv, LeaseMatchesOpenBatch, Open
  <2>. QED
    BY <1>1, <1>3, <2>1, <2>2, BatchesStay
<1>4. ASSUME \A w \in Worker : ~Claim(w),
             schedule'[t].lifecycle_state = "DORMANT", lease'[t].id # None
      PROVE  poll_batch'[lease'[t].id].kind = "retired_control"
  BY <1>3, <1>4, LeasesStay
<1>5. ASSUME NEW w \in Worker, Claim(w),
             schedule'[t].lifecycle_state = "DORMANT", lease'[t].id # None
      PROVE  poll_batch'[lease'[t].id].kind = "retired_control"
  <2>1. PICK b \in BatchId, skipped \in SUBSET Contended, members \in SUBSET Token,
             kind \in {"ordinary", "retired_control"} : ClaimWrites(w, b, skipped, members, kind)
    BY <1>5, ClaimBatch
  <2>2. \A v \in Worker : ~Finishes(v)
    BY <1>5, ClaimFinishesNothing
  <2>. DEFINE rows == Advance(worker[w].now, skipped)
  <2>3. /\ poll_batch'[b].kind = kind
        /\ lease'[t].id = IF t \in members THEN b ELSE lease[t].id
        /\ t \in members /\ kind = "ordinary" =>
             /\ rows[t] # None /\ rows[t].coverage_class # "RETIRED_CONTROL"
             /\ schedule'[t] = [rows[t] EXCEPT !.priority = Priorities[rows[t].coverage_class]]
    BY <2>1 DEF ClaimWrites
  <2>4. \A u \in Token : rows[u] # None => rows[u] \in Row
    <3>1. worker[w].now \in Nat
      BY <1>5 DEF Claim, TypeInv, WorkerReady
    <3>. QED
      BY <3>1, AdvanceType DEF TypeInv
  <2>5. CASE t \in members
    <3>1. ASSUME kind = "ordinary" PROVE FALSE
      <4>1. schedule'[t].coverage_class = rows[t].coverage_class
        BY <2>3, <2>4, <2>5, <3>1 DEF Row
      <4>. QED
        BY <1>2, <1>5, <2>3, <2>5, <3>1, <4>1 DEF Retired
    <3>. QED
      BY <2>3, <2>5, <3>1
  <2>6. CASE t \notin members
    BY <1>3, <1>5, <2>2, <2>3, <2>6
  <2>. QED
    BY <2>5, <2>6
<1>. QED
  BY <1>2, <1>4, <1>5

LEMMA OrderStep ==
  ASSUME TypeInv, TypeInv', LeaseInv, [Next]_vars, RotationInv
  PROVE  BatchesInOrder' /\ OutcomesBehindClock'
<1>1. /\ \A b \in Claimed : \A c \in BatchId : c < b => c \in Claimed
      /\ \A t \in Token : \A c \in Claimed :
           t \in poll_batch[c].members /\ lease[t].id # None => c <= lease[t].id
  BY DEF RotationInv, BatchesInOrder
<1>2. \A b \in Claimed : b \in Claimed' /\ poll_batch'[b] = poll_batch[b]
  BY BatchesStay
<1>3. Claimed \subseteq BatchId /\ BatchId \subseteq Nat
  BY DEF Claimed, BatchId
<1>4. ASSUME NEW w \in Worker, Claim(w) PROVE BatchesInOrder'
  <2>1. PICK b \in BatchId, skipped \in SUBSET Contended, members \in SUBSET Token,
             kind \in {"ordinary", "retired_control"} : ClaimWrites(w, b, skipped, members, kind)
    BY <1>4, ClaimBatch
  <2>2. /\ b \notin Claimed /\ Claimed' = Claimed \cup {b}
        /\ \A c \in BatchId : c < b => c \in Claimed
        /\ \A c \in Claimed : poll_batch'[c] = poll_batch[c]
        /\ poll_batch'[b].members = members
        /\ \A t \in Token : lease'[t].id = IF t \in members THEN b ELSE lease[t].id
    BY <2>1 DEF ClaimWrites
  <2>3. \A c \in Claimed : c < b
    BY <1>1, <1>3, <2>2
  <2>4. \A d \in Claimed' : \A c \in BatchId : c < d => c \in Claimed'
    BY <1>1, <2>2
  <2>5. ASSUME NEW t \in Token, NEW c \in Claimed',
               t \in poll_batch'[c].members, lease'[t].id # None
        PROVE  c <= lease'[t].id
    <3>1. CASE t \in members
      BY <1>3, <2>2, <2>3, <3>1
    <3>2. CASE t \notin members
      BY <1>1, <2>2, <2>5, <3>2
    <3>. QED
      BY <3>1, <3>2
  <2>. QED
    BY <2>4, <2>5 DEF BatchesInOrder
<1>5. ASSUME \A w \in Worker : ~Claim(w) PROVE BatchesInOrder'
  <2>1. poll_batch' = poll_batch
    BY <1>5 DEF Next, WorkerStep, TokenStep, vars, store, Tick, Stop, Restart, StartEpoch,
                BeginClaim, ClaimNothing, ClaimRaises, Receive, Complete, CompleteAndFail,
                LoseLease, Admit, ReapplyState, WakeCandidate
  <2>2. Claimed' = Claimed
    BY <2>1 DEF Claimed
  <2>3. \A t \in Token : lease'[t].id = None \/ lease'[t].id = lease[t].id
    BY <1>5, LeasesStay
  <2>. QED
    BY <1>1, <2>1, <2>2, <2>3 DEF BatchesInOrder
<1>6. OutcomesBehindClock'
  <2>1. clock \in Nat /\ clock' \in {clock, clock + 1} /\ outcome \in [BatchId -> MaybeTime]
    BY ClockStep DEF TypeInv, TypeOK
  <2>2. \A b \in BatchId : outcome'[b] = outcome[b] \/ outcome'[b] = clock
    BY OutcomesFinal
  <2>3. \A b \in BatchId : outcome[b] # None => outcome[b] \in Nat /\ outcome[b] <= clock
    BY <2>1 DEF RotationInv, OutcomesBehindClock, MaybeTime
  <2>. QED
    BY <2>1, <2>2, <2>3 DEF OutcomesBehindClock
<1>. QED
  BY <1>4, <1>5, <1>6

\* Who is eligible and free and still not in the batch was scanned no earlier than its members.
LEMMA HeadOfRotation ==
  ASSUME NEW rows \in [Token -> Row \cup {None}], NEW selection \in SUBSET Token,
         \A t \in selection : rows[t] # None, NEW held, NEW taken, NEW n \in Nat,
         NEW t \in HeadBatch(selection, held, taken, ControlOrder(rows, selection), n),
         NEW u \in selection, u \notin taken, Chain[u] = Chain[t],
         u \notin HeadBatch(selection, held, taken, ControlOrder(rows, selection), n)
  PROVE  ScanTime(rows[t]) <= ScanTime(rows[u])
<1>. DEFINE order == ControlOrder(rows, selection)
            head == CHOOSE x \in selection \ held :
                      \A y \in selection \ held : y = x \/ <<x, y>> \in order
            same == {x \in selection : (x \in taken => x = head) /\ Chain[x] = Chain[head]}
            before(x) == {y \in same : <<y, x>> \in order}
<1>1. HeadBatch(selection, held, taken, order, n)
        = {x \in same : Cardinality(before(x)) < n}
  BY DEF HeadBatch
<1>2. same \subseteq selection
  OBVIOUS
<1>3. t \in same /\ Cardinality(before(t)) < n
  BY <1>1
<1>4. u \in same /\ ~(Cardinality(before(u)) < n)
  <2>1. Chain[t] = Chain[head]
    BY <1>3
  <2>2. u \in same
    BY <2>1
  <2>. QED
    BY <1>1, <2>2
<1>5. \A x \in selection : ScanTime(rows[x]) \in Int
  BY DEF ScanTime, Row, MaybeTime
<1>. HIDE DEF same
<1>6. ASSUME ~(ScanTime(rows[t]) <= ScanTime(rows[u]))
      PROVE  FALSE
  <2>1. \A y \in before(u) : y \in before(t)
    <3>. SUFFICES ASSUME NEW y \in same, <<y, u>> \in order
                  PROVE  <<y, t>> \in order
      OBVIOUS
    <3>1. y \in selection /\ t \in selection
      BY <1>2, <1>3
    <3>2. ScanTime(rows[y]) <= ScanTime(rows[u])
      BY <1>5, <3>1 DEF ControlOrder, ControlBefore
    <3>3. ScanTime(rows[y]) < ScanTime(rows[t])
      BY <1>5, <1>6, <3>1, <3>2
    <3>. QED
      BY <3>1, <3>3 DEF ControlOrder, ControlBefore
  <2>2. before(u) \subseteq before(t)
    BY <2>1
  <2>3. IsFiniteSet(before(t))
    <3>1. before(t) \subseteq Token /\ IsFiniteSet(Token)
      BY <1>2, SchedulerAssumption
    <3>. HIDE DEF before
    <3>. QED
      BY <3>1, FS_Subset
  <2>. HIDE DEF before
  <2>4. /\ Cardinality(before(u)) <= Cardinality(before(t))
        /\ Cardinality(before(u)) \in Nat /\ Cardinality(before(t)) \in Nat
    <3>1. IsFiniteSet(before(u)) /\ Cardinality(before(u)) <= Cardinality(before(t))
      BY <2>2, <2>3, FS_Subset
    <3>. QED
      BY <2>3, <3>1, FS_CardinalityType
  <2>5. Cardinality(before(t)) < n /\ ~(Cardinality(before(u)) < n)
    BY <1>3, <1>4
  <2>. QED
    BY <2>4, <2>5
<1>. QED
  BY <1>6

\* The parts of ControlRotationFair.
Waits(u, t, c) ==
  /\ u \in Token \ Contended
  /\ HasRow(u) /\ Chain[u] = Chain[t]
  /\ schedule[u].lifecycle_state = "DORMANT"
  /\ schedule[u].state_decided_at < poll_batch[c].claimed_at
ScannedSince(u, b, c) ==
  \E d \in Claimed :
    /\ poll_batch[d].kind = "retired_control" /\ u \in poll_batch[d].members
    /\ \/ outcome[d] # None /\ outcome[d] >= outcome[b]
       \/ poll_batch[c].claimed_at < poll_batch[d].lease_expires_at
Rotated(b, c) ==
  \A t \in poll_batch[b].members \cap poll_batch[c].members :
    \A u \in Token : Waits(u, t, c) => ScannedSince(u, b, c)
Again(b, c) ==
  /\ b \in Claimed /\ poll_batch[b].kind = "retired_control"
  /\ c \in Claimed /\ poll_batch[c].kind = "retired_control"
  /\ b < c /\ outcome[b] # None

LEMMA RotationIsFair == ControlRotationFair <=> \A b, c \in BatchId : Again(b, c) => Rotated(b, c)
<1>1. ASSUME ControlRotationFair, NEW b \in BatchId, NEW c \in BatchId, Again(b, c)
      PROVE  Rotated(b, c)
  BY <1>1 DEF ControlRotationFair, Again, Rotated, Waits, ScannedSince
<1>2. ASSUME \A b, c \in BatchId : Again(b, c) => Rotated(b, c)
      PROVE  ControlRotationFair
  BY <1>2 DEF ControlRotationFair, Again, Rotated, Waits, ScannedSince, Claimed
<1>. QED
  BY <1>1, <1>2

\* Who waits for a claim that was made has waited since before it.
LEMMA WaitedBefore ==
  ASSUME TypeInv, TypeInv', BudgetInv, [Next]_vars, NEW u \in Token, NEW t, NEW c \in Claimed,
         Waits(u, t, c)'
  PROVE  Waits(u, t, c)
<1>1. /\ u \notin Contended /\ HasRow(u)' /\ Chain[u] = Chain[t]
      /\ schedule'[u].lifecycle_state = "DORMANT"
      /\ schedule'[u].state_decided_at < poll_batch[c].claimed_at
  BY BatchesStay DEF Waits, HasRow
<1>2. /\ poll_batch[c].claimed_at \in Nat /\ poll_batch[c].claimed_at <= clock
      /\ clock \in Nat
  BY MinuteTypes DEF BudgetInv, ClaimsBehindClock
<1>3. schedule'[u].state_decided_at # clock
  BY <1>1, <1>2
<1>4. /\ HasRow(u)
      /\ schedule'[u].lifecycle_state = schedule[u].lifecycle_state
      /\ schedule'[u].state_decided_at = schedule[u].state_decided_at
  <2>1. CASE \A w \in Worker : Finishes(w) => u \notin poll_batch[worker[w].batch].members
    BY <1>1, <2>1, RowKeepsPlace DEF SamePlace
  <2>2. ASSUME NEW w \in Worker, Finishes(w), u \in poll_batch[worker[w].batch].members
        PROVE  /\ HasRow(u)
               /\ schedule'[u].lifecycle_state = schedule[u].lifecycle_state
               /\ schedule'[u].state_decided_at = schedule[u].state_decided_at
    <3>1. HasRow(u)
      BY <2>2, CompletionFinishes DEF Finishes, LeaseFinished, TypeInv, MembersAdmitted
    <3>. QED
      BY <1>3, <2>2, <3>1, RowIsScanned
  <2>. QED
    BY <2>1, <2>2
<1>. QED
  BY <1>1, <1>4 DEF Waits

\* A scan that answers for a batch answers for it for ever.
LEMMA ScannedForGood ==
  ASSUME TypeInv, TypeInv', LeaseInv, [Next]_vars, NEW u, NEW b \in BatchId, NEW c \in Claimed,
         outcome'[b] = outcome[b], ScannedSince(u, b, c)
  PROVE  ScannedSince(u, b, c)'
<1>1. PICK d \in Claimed :
        /\ poll_batch[d].kind = "retired_control" /\ u \in poll_batch[d].members
        /\ \/ outcome[d] # None /\ outcome[d] >= outcome[b]
           \/ poll_batch[c].claimed_at < poll_batch[d].lease_expires_at
  BY DEF ScannedSince
<1>2. d \in Claimed' /\ poll_batch'[d] = poll_batch[d] /\ poll_batch'[c] = poll_batch[c]
  BY BatchesStay
<1>3. outcome[d] # None => outcome'[d] = outcome[d]
  BY OutcomesFinal DEF Claimed
<1>. QED
  BY <1>1, <1>2, <1>3 DEF ScannedSince

LEMMA RotatedStays ==
  ASSUME TypeInv, TypeInv', LeaseInv, BudgetInv, [Next]_vars, RotationInv,
         NEW b \in Claimed, NEW c \in Claimed, Again(b, c)'
  PROVE  Rotated(b, c)'
<1>1. /\ b \in BatchId /\ c \in BatchId
      /\ poll_batch'[b] = poll_batch[b] /\ poll_batch'[c] = poll_batch[c]
  BY BatchesStay DEF Claimed
<1>. SUFFICES ASSUME NEW t \in poll_batch[b].members \cap poll_batch[c].members,
                     NEW u \in Token, Waits(u, t, c)'
              PROVE  ScannedSince(u, b, c)'
  BY <1>1 DEF Rotated
<1>2. Waits(u, t, c)
  BY WaitedBefore
<1>3. outcome'[b] = outcome[b]
  <2>. SUFFICES ASSUME lease[t].id = b
                PROVE  FALSE
    BY <1>1, OutcomesFinal
  <2>1. c <= lease[t].id
    <3>1. t \in Token /\ lease[t].id # None
      BY <1>1, NoneNotBatchId, LeaseTypes
    <3>. QED
      BY <3>1 DEF RotationInv, BatchesInOrder
  <2>. QED
    BY <1>1, <2>1 DEF Again, BatchId
<1>4. Again(b, c)
  BY <1>1, <1>3 DEF Again
<1>5. ScannedSince(u, b, c)
  BY <1>1, <1>2, <1>4, RotationIsFair DEF RotationInv, Rotated
<1>. QED
  BY <1>1, <1>3, <1>5, ScannedForGood

\* A control claim takes the head of the rotation.
LEMMA RotatedByClaim ==
  ASSUME TypeInv, TypeInv', LeaseInv, [Next]_vars, RotationInv, NEW w \in Worker, Claim(w),
         NEW b \in Claimed, NEW c \in BatchId, c \notin Claimed, Again(b, c)'
  PROVE  Rotated(b, c)'
<1>. DEFINE now == worker[w].now
<1>1. PICK skipped \in SUBSET Contended, members \in SUBSET Token,
           kind \in {"ordinary", "retired_control"} : ClaimWrites(w, c, skipped, members, kind)
  BY ClaimBatch DEF Again, ClaimWrites
<1>. DEFINE rows == Advance(now, skipped)
            control == ControlEligible(rows, now)
<1>2. /\ Claimed' = Claimed \cup {c}
      /\ \A d \in Claimed : poll_batch'[d] = poll_batch[d]
      /\ kind = "retired_control" /\ poll_batch'[c].kind = kind
      /\ poll_batch'[c].members = members
      /\ poll_batch'[c].claimed_at = now
      /\ poll_batch'[c].lease_expires_at = LeaseEnd(now)
      /\ \A t \in Token : schedule'[t] = rows[t]
  BY <1>1 DEF ClaimWrites, Again
<1>3. PICK held \in SUBSET Contended, taken \in SUBSET Contended :
        members = HeadBatch(control, held, taken, ControlOrder(rows, control), ControlTokens)
  BY <1>1, <1>2 DEF ClaimWrites, Rotates
<1>4. now \in Nat /\ rows \in [Token -> Row \cup {None}]
  <2>1. now \in Nat
    BY DEF Claim, TypeInv, WorkerReady
  <2>. QED
    BY <2>1, AdvanceType DEF TypeInv
<1>5. /\ outcome' = outcome /\ b \in BatchId
      /\ poll_batch[b].kind = "retired_control" /\ outcome[b] # None
  BY <1>2 DEF Claim, Claimed, Again
<1>6. control \in SUBSET Token /\ \A t \in control : rows[t] # None
  BY DEF ControlEligible
<1>7. \A v \in Worker : ~Finishes(v)
  BY ClaimFinishesNothing
<1>. SUFFICES ASSUME NEW t \in poll_batch[b].members \cap members,
                     NEW u \in Token, Waits(u, t, c)'
              PROVE  ScannedSince(u, b, c)'
  BY <1>2 DEF Rotated
<1>8. /\ u \notin Contended /\ rows[u] # None /\ Chain[u] = Chain[t]
      /\ rows[u].lifecycle_state = "DORMANT"
  BY <1>2 DEF Waits, HasRow
<1>. HIDE DEF now, rows, control
<1>9. t \in Token /\ HasRow(t) /\ t \in control
  BY <1>3, HeadBatchMembers DEF TypeInv, MembersAdmitted
<1>10. /\ HasRow(u) /\ schedule[u].lifecycle_state = "DORMANT"
       /\ rows[u].last_control_scan_at = schedule[u].last_control_scan_at
       /\ rows[t].last_control_scan_at = schedule[t].last_control_scan_at
       /\ Retired(rows[u])
  <2>1. HasRow(u)' /\ HasRow(t)'
    BY <1>2, <1>6, <1>8, <1>9 DEF HasRow
  <2>2. HasRow(u) => Retired(schedule[u])
    BY DEF RotationInv, DormantRotates
  <2>. QED
    BY <1>2, <1>7, <1>8, <1>9, <2>1, <2>2, RowKeepsPlace DEF SamePlace
<1>11. now < LeaseEnd(now)
  BY <1>4, SchedulerAssumption DEF LeaseEnd
<1>12. CASE ~Unleased(u, now)
  <2>. DEFINE d == lease[u].id
  <2>1. /\ d # None /\ d \in Claimed /\ u \in poll_batch[d].members
        /\ lease[u].expires_at = poll_batch[d].lease_expires_at
    BY <1>12 DEF Unleased, LeaseInv, LeaseMatchesOpenBatch, Open
  <2>2. now < poll_batch[d].lease_expires_at
    BY <1>4, <1>12, <2>1, LeaseTypes DEF Unleased
  <2>3. poll_batch[d].kind = "retired_control"
    BY <1>10, <2>1 DEF RotationInv, DormantRotates
  <2>. QED
    BY <1>2, <2>1, <2>2, <2>3 DEF ScannedSince
<1>13. CASE Unleased(u, now) /\ u \in members
  BY <1>2, <1>11, <1>13 DEF ScannedSince
<1>14. CASE Unleased(u, now) /\ u \notin members
  <2>1. u \in control
    BY <1>8, <1>10, <1>14 DEF ControlEligible, Retired, control
  <2>2. u \notin taken
    BY <1>8
  <2>3. ScanTime(rows[t]) <= ScanTime(rows[u])
    <3>1. ControlTokens \in Nat
      BY SchedulerAssumption
    <3>. QED
      BY <1>3, <1>4, <1>6, <1>8, <1>14, <2>1, <2>2, <3>1, HeadOfRotation
  <2>4. b \in Scans(t)
    BY <1>5 DEF Scans, Done, Open
  <2>5. /\ schedule[t].last_control_scan_at # None
        /\ outcome[b] <= schedule[t].last_control_scan_at
    BY <1>9, <2>4 DEF RotationInv, ScanRecorded
  <2>6. /\ outcome[b] \in Nat /\ schedule[t].last_control_scan_at \in Nat
        /\ schedule[u].last_control_scan_at \in MaybeTime
    BY <1>5, <1>9, <1>10, <2>5 DEF TypeInv, TypeOK, HasRow, Row, MaybeTime
  <2>7. /\ schedule[u].last_control_scan_at # None
        /\ outcome[b] <= schedule[u].last_control_scan_at
    BY <1>10, <2>3, <2>5, <2>6 DEF ScanTime, MaybeTime
  <2>8. PICK d \in Scans(u) : outcome[d] = schedule[u].last_control_scan_at
    BY <1>10, <2>7 DEF RotationInv, ScanRecorded
  <2>9. /\ d \in Claimed /\ u \in poll_batch[d].members
        /\ poll_batch[d].kind = "retired_control"
    BY DEF Scans, Done
  <2>10. outcome[d] # None /\ outcome[d] >= outcome[b]
    BY <2>6, <2>7, <2>8 DEF MaybeTime
  <2>. QED
    BY <1>2, <1>5, <2>9, <2>10 DEF ScannedSince
<1>. QED
  BY <1>12, <1>13, <1>14

LEMMA RotationStep ==
  ASSUME TypeInv, TypeInv', LeaseInv, LeaseInv', BudgetInv, [Next]_vars, RotationInv
  PROVE  RotationInv'
<1>1. ASSUME NEW b \in BatchId, NEW c \in BatchId, Again(b, c)'
      PROVE  Rotated(b, c)'
  <2>1. CASE b \in Claimed /\ c \in Claimed
    BY <1>1, <2>1, RotatedStays
  <2>2. CASE b \notin Claimed
    <3>1. outcome[b] = None
      BY <2>2 DEF LeaseInv, OutcomesClaimed
    <3>2. outcome'[b] = None
      BY <2>2, <3>1, OutcomesFinal
    <3>. QED
      BY <1>1, <3>2 DEF Again
  <2>3. CASE b \in Claimed /\ c \notin Claimed
    <3>1. PICK w \in Worker : Claim(w)
      <4>1. (\A w \in Worker : ~Claim(w)) => poll_batch' = poll_batch
        BY DEF Next, WorkerStep, TokenStep, vars, store, Tick, Stop, Restart, StartEpoch,
               BeginClaim, ClaimNothing, ClaimRaises, Receive, Complete, CompleteAndFail,
               LoseLease, Admit, ReapplyState, WakeCandidate
      <4>. QED
        BY <1>1, <2>3, <4>1 DEF Again, Claimed
    <3>. QED
      BY <1>1, <2>3, <3>1, RotatedByClaim
  <2>. QED
    BY <2>1, <2>2, <2>3
<1>2. ControlRotationFair'
  BY <1>1, RotationIsFair DEF ControlRotationFair, Claimed, HasRow, Again, Rotated, Waits,
                              ScannedSince
<1>3. DormantRotates' /\ (\A t \in Token : HasRow(t)' => ScanRecorded(t)')
  BY DormantStep, ScanStep DEF DormantRotates
<1>. QED
  BY <1>2, <1>3, OrderStep DEF RotationInv

\* ControlRotationFair: the rotation of retired tokens passes over no DORMANT token
\* (_claim_control_batch), however batches are reclaimed, completed late or cut short by an
\* epoch, and for every number of control tokens: when a token is claimed again, every other of
\* its chain was scanned since the first of the two or is still under the lease of a scan.
THEOREM RotationPassesOverNobody == Spec => []ControlRotationFair
<1>1. Spec => []BudgetInv
  BY BudgetInit, BudgetStep, TypeInvariance, PTL DEF Spec
<1>2. Spec => []RotationInv
  BY RotationInit, RotationStep, <1>1, TypeInvariance, LeaseInvariance, PTL DEF Spec
<1>3. RotationInv => ControlRotationFair
  BY DEF RotationInv
<1>. QED
  BY <1>2, <1>3, PTL
=============================================================================
