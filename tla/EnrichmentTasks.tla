--------------------------- MODULE EnrichmentTasks ---------------------------
(***************************************************************************)
(* The leased candidate enrichment tasks of candidates/repository.py and   *)
(* the workers that execute them (security_enrichment/service.py): claim a *)
(* task, reserve provider capacity before each page, fetch, record the     *)
(* evidence, then complete, fail or defer the task and evaluate its token. *)
(*                                                                         *)
(* A worker samples the clock once per run and keeps deciding with that    *)
(* time; nothing is locked between its transactions, so its lease may      *)
(* expire, and the task be claimed again, at any point.                    *)
(***************************************************************************)
EXTENDS Naturals, FiniteSets

CONSTANTS
  Task,              \* tasks, numbered in the order of their ids
  Worker,            \* the selective_security_enrichment loops
  Fact,              \* what the provider's answers about a window may say
  Analysis,          \* analysis_type of each task
  Minute, LeaseDuration, TasksPerMinute, MaxAttempts,
  RequestsPerMinute, ClassLimit, MaxPages,
  None,
  MaxClock, MaxClaims   \* bounds of the model

VARIABLES
  clock,
  stopped_by,    \* why the collector is down; None while it runs
  task,          \* candidate_enrichment_tasks
  evidence,      \* the snapshots, edges and relationships recorded for a task
  reservation,   \* security_provider_budget_reservations
  worker,        \* what every worker holds in memory
  claim,         \* history: the claims ever made and how they ended
  call           \* history: the provider calls ever made

vars == <<clock, stopped_by, task, evidence, reservation, worker, claim, call>>

AnalysisType ==
  {"HOLDER_SNAPSHOT", "TRADER_DISTRIBUTION", "CREATOR_HISTORY",
   "LIQUIDITY_EVENT_ANALYSIS", "WALLET_CLUSTER_ANALYSIS", "FUNDING_GRAPH_ANALYSIS"}
\* The tasks of TIER_3_DEEP_REVIEW; the others belong to TIER_2_INVESTIGATE.
DeepReview == {"WALLET_CLUSTER_ANALYSIS", "FUNDING_GRAPH_ANALYSIS"}

MaybeTime == Nat \cup {None}
ClaimId == 1 .. MaxClaims
Terminal == {"succeeded", "failed"}
running == stopped_by = None
IdleWorker ==
  [pc |-> "idle", now |-> None, claim |-> None, page |-> 0, received_at |-> None]

TaskRow ==
  [status : {"absent", "pending", "claimed", "retry", "deferred"} \cup Terminal,
   created_at : MaybeTime, not_before : MaybeTime, attempt_count : Nat,
   lease_id : ClaimId \cup {None}, lease_expires_at : MaybeTime,
   claimed_at : MaybeTime, result : ClaimId \cup {None}]
Step == {"idle", "claiming", "reserving", "fetching", "answered", "recorded",
         "failing", "deferring", "evaluating"}
WorkerState ==
  [pc : Step, now : MaybeTime, claim : ClaimId \cup {None}, page : Nat,
   received_at : MaybeTime]
ClaimRecord == [task : Task, attempt : Nat, at : Nat, ended : BOOLEAN]

ASSUME TaskAssumption ==
  /\ Task \subseteq Nat /\ IsFiniteSet(Task)
  /\ Analysis \in [Task -> AnalysisType]
  /\ {Minute, LeaseDuration, TasksPerMinute, MaxAttempts, RequestsPerMinute,
      MaxPages} \subseteq Nat \ {0}
  /\ ClassLimit \in [AnalysisType -> Nat \ {0}]
  /\ {MaxClock, MaxClaims} \subseteq Nat
  /\ None \notin Nat \cup Fact
  /\ None \notin ClaimRecord
  /\ \A t \in Task : {t} # None

\* Every variable has the type of its table or of the worker's local state, and
\* ck_candidate_tasks_lease holds: the lease columns are set and cleared together.
TypeOK ==
  /\ clock \in Nat
  /\ stopped_by \in {None, "shutdown", "lost_lease", "evidence"}
  /\ task \in [Task -> TaskRow]
  /\ \A t \in Task : (task[t].lease_id = None) <=> (task[t].lease_expires_at = None)
  /\ evidence \subseteq [task : Task, facts : Fact, claim : ClaimId]
  /\ reservation \subseteq [task : Task, attempt : Nat, page : Nat, reserved_at : Nat]
  /\ worker \in [Worker -> WorkerState]
  /\ claim \in [ClaimId -> ClaimRecord \cup {None}]
  /\ call \subseteq [claim : ClaimId, page : Nat, at : Nat]
-----------------------------------------------------------------------------
Init ==
  /\ clock = 0
  /\ stopped_by = None
  /\ task = [t \in Task |->
       [status |-> "absent", created_at |-> None, not_before |-> None,
        attempt_count |-> 0, lease_id |-> None, lease_expires_at |-> None,
        claimed_at |-> None, result |-> None]]
  /\ evidence = {}
  /\ reservation = {}
  /\ worker = [w \in Worker |-> IdleWorker]
  /\ claim = [c \in ClaimId |-> None]
  /\ call = {}

Tick ==
  /\ clock < MaxClock
  /\ clock' = clock + 1
  /\ UNCHANGED <<stopped_by, evidence, task, reservation, worker, claim, call>>

\* apply_evaluation creates the tasks of a tier once (_create_task).
Created(tasks, at) ==
  [t \in Task |-> IF t \in tasks /\ task[t].status = "absent"
                  THEN [task[t] EXCEPT !.status = "pending",
                                       !.created_at = at, !.not_before = at]
                  ELSE task[t]]

\* A market or boost evaluation promotes the token of a task, at the time of its
\* evidence.
Nominate(t) ==
  /\ running
  /\ task[t].status = "absent"
  /\ \E at \in 0 .. clock : task' = Created({t}, at)
  /\ UNCHANGED <<clock, stopped_by, evidence, reservation, worker, claim, call>>
-----------------------------------------------------------------------------
(* claim_tasks with limit 1.                                               *)

BeginRun(w) ==
  /\ running
  /\ worker[w].pc = "idle"
  /\ worker' = [worker EXCEPT ![w] = [IdleWorker EXCEPT !.pc = "claiming", !.now = clock]]
  /\ UNCHANGED <<clock, stopped_by, evidence, task, reservation, claim, call>>

MinuteStart(now) == now - (now % Minute)

ClaimedSince(start) == {t \in Task : task[t].claimed_at # None /\ task[t].claimed_at >= start}

\* Mutation of TaskCapacity: a claim at the very start of the minute is free.
TaskCapacityOpenMinute(now) ==
  Cardinality({t \in ClaimedSince(MinuteStart(now)) :
                 task[t].claimed_at > MinuteStart(now)}) < TasksPerMinute
TaskCapacity(now) == Cardinality(ClaimedSince(MinuteStart(now))) < TasksPerMinute

\* Mutation of Eligible: a task is claimed again after its last attempt.
EligibleExhausted(now) ==
  {t \in Task :
     /\ task[t].not_before # None /\ task[t].not_before <= now
     /\ \/ task[t].status \in {"pending", "retry", "deferred"}
        \/ task[t].status = "claimed" /\ task[t].lease_expires_at <= now}
Eligible(now) ==
  {t \in Task :
     /\ task[t].not_before # None /\ task[t].not_before <= now
     /\ task[t].attempt_count < MaxAttempts
     /\ \/ task[t].status \in {"pending", "retry", "deferred"}
        \/ task[t].status = "claimed" /\ task[t].lease_expires_at <= now}

\* ORDER BY not_before, created_at, id
Before(t, u) ==
  \/ task[t].not_before < task[u].not_before
  \/ task[t].not_before = task[u].not_before /\ task[t].created_at < task[u].created_at
  \/ task[t].not_before = task[u].not_before /\ task[t].created_at = task[u].created_at
       /\ t < u

ClaimedRow(t, c, now) ==
  [task[t] EXCEPT !.status = "claimed", !.lease_id = c,
                  !.lease_expires_at = now + LeaseDuration,
                  !.claimed_at = now, !.attempt_count = @ + 1]
ClaimMade(t, now) ==
  [task |-> t, attempt |-> task[t].attempt_count + 1, at |-> now, ended |-> FALSE]

\* held are expired tasks whose late worker has the row locked (SKIP LOCKED).
ClaimTask(w) ==
  LET now == worker[w].now
  IN  /\ running
      /\ worker[w].pc = "claiming"
      /\ TaskCapacity(now)
      /\ \E held \in SUBSET {t \in Task : task[t].status = "claimed"} :
         \E t \in Eligible(now) \ held, c \in ClaimId :
           /\ \A u \in Eligible(now) \ held : u = t \/ Before(t, u)
           /\ claim[c] = None
           /\ \A d \in ClaimId : d < c => claim[d] # None
           /\ task' = [task EXCEPT ![t] = ClaimedRow(t, c, now)]
           /\ claim' = [claim EXCEPT ![c] = ClaimMade(t, now)]
           /\ worker' = [worker EXCEPT ![w].pc = "reserving", ![w].claim = c]
      /\ UNCHANGED <<clock, stopped_by, evidence, reservation, call>>

ClaimNothing(w) ==
  LET now == worker[w].now
  IN  /\ running
      /\ worker[w].pc = "claiming"
      /\ \/ ~TaskCapacity(now)
         \/ \A t \in Eligible(now) : task[t].status = "claimed"
      /\ worker' = [worker EXCEPT ![w] = IdleWorker]
      /\ UNCHANGED <<clock, stopped_by, evidence, task, reservation, claim, call>>
-----------------------------------------------------------------------------
(* process_claim.                                                          *)

Held(w) == claim[worker[w].claim]
HeldTask(w) == Held(w).task

InMinute(now) ==
  {r \in reservation : /\ r.reserved_at >= MinuteStart(now)
                       /\ r.reserved_at < MinuteStart(now) + Minute}
RequestCapacity(type, now) ==
  /\ Cardinality(InMinute(now)) < RequestsPerMinute
  /\ Cardinality({r \in InMinute(now) : Analysis[r.task] = type}) < ClassLimit[type]

\* Mutation of Reserved: the page identity leaves the attempt out.
ReservedAnyAttempt(w) ==
  \E r \in reservation : r.task = HeldTask(w) /\ r.page = worker[w].page
Reserved(w) ==
  \E r \in reservation : /\ r.task = HeldTask(w)
                         /\ r.attempt = Held(w).attempt /\ r.page = worker[w].page

\* reserve_provider_request admits the page; it was reserved before, or it is now.
Reserve(w) ==
  /\ running
  /\ worker[w].pc = "reserving"
  /\ \/ Reserved(w) /\ reservation' = reservation
     \/ /\ ~Reserved(w)
        /\ RequestCapacity(Analysis[HeldTask(w)], worker[w].now)
        /\ reservation' = reservation \cup
             {[task |-> HeldTask(w), attempt |-> Held(w).attempt,
               page |-> worker[w].page, reserved_at |-> worker[w].now]}
  /\ worker' = [worker EXCEPT ![w].pc = "fetching"]
  /\ UNCHANGED <<clock, stopped_by, evidence, task, claim, call>>

\* The budget is used up, or universal security work is due soon: the task is
\* deferred, or the pages read so far are all there will be.
ReserveDenied(w) ==
  /\ running
  /\ worker[w].pc = "reserving"
  /\ ~Reserved(w)
  /\ \/ ~RequestCapacity(Analysis[HeldTask(w)], worker[w].now)
     \/ Analysis[HeldTask(w)] = "HOLDER_SNAPSHOT"
  /\ worker' = [worker EXCEPT ![w].pc = IF worker[w].page = 0 THEN "deferring"
                                                             ELSE "answered"]
  /\ UNCHANGED <<clock, stopped_by, evidence, task, reservation, claim, call>>

\* The provider answers; only trader histories have more pages.
FetchPage(w) ==
  /\ running
  /\ worker[w].pc = "fetching"
  /\ call' = call \cup {[claim |-> worker[w].claim, page |-> worker[w].page, at |-> clock]}
  /\ \/ worker' = [worker EXCEPT ![w].pc = "answered", ![w].received_at = clock]
     \/ /\ Analysis[HeldTask(w)] = "TRADER_DISTRIBUTION"
        /\ worker[w].page + 1 < MaxPages
        /\ worker' = [worker EXCEPT ![w].pc = "reserving", ![w].page = @ + 1,
                                    ![w].received_at = clock]
  /\ UNCHANGED <<clock, stopped_by, evidence, task, reservation, claim>>

\* The provider fails, or its pages contradict each other.
FetchFails(w) ==
  /\ running
  /\ worker[w].pc = "fetching"
  /\ call' = call \cup {[claim |-> worker[w].claim, page |-> worker[w].page, at |-> clock]}
  /\ worker' = [worker EXCEPT ![w].pc = "failing", ![w].received_at = clock]
  /\ UNCHANGED <<clock, stopped_by, evidence, task, reservation, claim>>

\* The types whose rows are identified by task or candidate and facts alone, and
\* hold the provider request as well; the others have it in their identity.
FactIdentified == {"TRADER_DISTRIBUTION", "CREATOR_HISTORY"} \cup DeepReview

\* _insert_verified finds a row with this identity from another request.
Contradicted(w, facts) ==
  /\ Analysis[HeldTask(w)] \in FactIdentified
  /\ \E e \in evidence : /\ e.task = HeldTask(w) /\ e.facts = facts
                         /\ e.claim # worker[w].claim

\* The answer is recorded, whoever holds the lease by then. Unavailable evidence
\* leaves no row.
RecordEvidence(w) ==
  /\ running
  /\ worker[w].pc = "answered"
  /\ \/ evidence' = evidence
     \/ \E facts \in Fact :
          /\ ~Contradicted(w, facts)
          /\ evidence' = evidence \cup
               {[task |-> HeldTask(w), facts |-> facts, claim |-> worker[w].claim]}
  /\ worker' = [worker EXCEPT ![w].pc = "recorded"]
  /\ UNCHANGED <<clock, stopped_by, task, reservation, claim, call>>

\* Mutations of OwnsTask: the owner is not compared; an expired and reclaimed
\* lease is taken for an own one.
OwnsUnchecked(w) == TRUE
OwnsClaimed(w) == task[HeldTask(w)].lease_id # None
OwnsTask(w) == task[HeldTask(w)].lease_id = worker[w].claim

\* The columns every end of a claim clears.
Released(t, status) ==
  [task[t] EXCEPT !.status = status, !.lease_id = None, !.lease_expires_at = None]

EndClaim(w, t, row) ==
  /\ task' = [task EXCEPT ![t] = row]
  /\ claim' = [claim EXCEPT ![worker[w].claim].ended = TRUE]

CompleteTask(w) ==
  LET t == HeldTask(w)
  IN  /\ running
      /\ worker[w].pc = "recorded"
      /\ task[t].status # "succeeded"
      /\ OwnsTask(w)
      /\ EndClaim(w, t, [Released(t, "succeeded") EXCEPT !.result = worker[w].claim])
      /\ worker' = [worker EXCEPT ![w].pc = "evaluating"]
      /\ UNCHANGED <<clock, stopped_by, evidence, reservation, call>>

\* evaluate_security_token: the evidence may promote the token to deep review.
Evaluate(w) ==
  /\ running
  /\ worker[w].pc = "evaluating"
  /\ \E tasks \in SUBSET {t \in Task : Analysis[t] \in DeepReview} :
       task' = Created(tasks, worker[w].received_at)
  /\ worker' = [worker EXCEPT ![w] = IdleWorker]
  /\ UNCHANGED <<clock, stopped_by, evidence, reservation, claim, call>>

FailTask(w) ==
  LET t == HeldTask(w)
      terminal == task[t].attempt_count >= MaxAttempts
  IN  /\ running
      /\ worker[w].pc = "failing"
      /\ OwnsTask(w)
      /\ EndClaim(w, t, [Released(t, IF terminal THEN "failed" ELSE "retry") EXCEPT
                           !.not_before = worker[w].received_at + IF terminal THEN 0 ELSE Minute])
      /\ worker' = [worker EXCEPT ![w] = IdleWorker]
      /\ UNCHANGED <<clock, stopped_by, evidence, reservation, call>>

Refunded(attempts) == IF attempts > 0 THEN attempts - 1 ELSE 0

\* The attempt is given back, the time is that of the run.
DeferTask(w) ==
  LET t == HeldTask(w)
  IN  /\ running
      /\ worker[w].pc = "deferring"
      /\ OwnsTask(w)
      /\ EndClaim(w, t, [Released(t, "deferred") EXCEPT
                           !.not_before = worker[w].now + Minute,
                           !.attempt_count = Refunded(@)])
      /\ worker' = [worker EXCEPT ![w] = IdleWorker]
      /\ UNCHANGED <<clock, stopped_by, evidence, reservation, call>>
-----------------------------------------------------------------------------
(* The process.                                                            *)

Collapse(reason) ==
  /\ stopped_by' = reason
  /\ worker' = [w \in Worker |-> IdleWorker]
  /\ UNCHANGED <<clock, task, evidence, reservation, claim, call>>

\* The lease went to another claim, or that one succeeded with another result:
\* no loop expects the error, and the collector stops.
LoseLease(w) ==
  /\ running
  /\ worker[w].pc \in {"recorded", "failing", "deferring"}
  /\ ~OwnsTask(w)
  /\ Collapse("lost_lease")

\* SecurityEvidenceIntegrityError is none of the errors process_claim handles.
RejectEvidence(w) ==
  /\ running
  /\ worker[w].pc = "answered"
  /\ \E facts \in Fact : Contradicted(w, facts)
  /\ Collapse("evidence")

Stop == running /\ Collapse("shutdown")

Restart ==
  /\ ~running
  /\ stopped_by' = None
  /\ UNCHANGED <<clock, task, evidence, reservation, worker, claim, call>>
-----------------------------------------------------------------------------
WorkerStep(w) ==
  \/ BeginRun(w) \/ ClaimTask(w) \/ ClaimNothing(w)
  \/ Reserve(w) \/ ReserveDenied(w) \/ FetchPage(w) \/ FetchFails(w)
  \/ RecordEvidence(w) \/ RejectEvidence(w)
  \/ CompleteTask(w) \/ Evaluate(w) \/ FailTask(w) \/ DeferTask(w) \/ LoseLease(w)

Next ==
  \/ Tick \/ Stop \/ Restart
  \/ \E t \in Task : Nominate(t)
  \/ \E w \in Worker : WorkerStep(w)

Spec == Init /\ [][Next]_vars
-----------------------------------------------------------------------------
(* Properties.                                                             *)

Made == {c \in ClaimId : claim[c] # None}

\* The task queue implements LeasedWork: a claim ends its task (complete_task,
\* fail_task, defer_task) once and only while no later claim took the task.
Work == INSTANCE LeasedWork WITH
  Token <- Task,
  Job <- ClaimId,
  work <- [c \in ClaimId |-> IF claim[c] = None THEN None ELSE {claim[c].task}],
  owner <- [t \in Task |-> task[t].lease_id],
  done <- {c \in Made : claim[c].ended}
ImplementsLeasedWork == Work!Spec

\* Every provider call has a reservation no other call uses: a deferred attempt
\* is claimed again under the same number, yet the page identity
\* "attempt:n:page:k" never lets a later claim pass on an earlier reservation.
CallsReservedOnce ==
  /\ \A x \in call : \E r \in reservation :
       /\ r.task = claim[x.claim].task
       /\ r.attempt = claim[x.claim].attempt /\ r.page = x.page
  /\ \A x, y \in call :
       /\ claim[x.claim].task = claim[y.claim].task
       /\ claim[x.claim].attempt = claim[y.claim].attempt
       /\ x.page = y.page
       => x = y

\* Lease columns are set and cleared together, and no provider call was made on the
\* reservation of another.
TasksConsistent == TypeOK /\ CallsReservedOnce

\* A task reaches the provider under at most max_attempts claims, however often
\* it is deferred, reclaimed or its worker dies.
AttemptsBounded ==
  \A t \in Task :
    Cardinality({c \in Made : claim[c].task = t /\ \E x \in call : x.claim = c})
      <= MaxAttempts

\* candidates/repository.py claims without exceeding the task budget of a minute:
\* as long as a lease lasts a minute at least, so does every claim decided in it.
TaskBudgetKept ==
  \A now \in 0 .. clock :
    Cardinality({c \in Made : MinuteStart(claim[c].at) = MinuteStart(now)})
      <= TasksPerMinute

\* The reservations of a minute keep the budget of the provider and of each
\* analysis type, for runs that decide with a time of an earlier minute too.
ProviderBudgetKept ==
  \A now \in 0 .. clock :
    /\ Cardinality(InMinute(now)) <= RequestsPerMinute
    /\ \A type \in AnalysisType :
         Cardinality({r \in InMinute(now) : Analysis[r.task] = type}) <= ClassLimit[type]

\* Claims and requests keep the budgets of their minutes.
BudgetsKept == TaskBudgetKept /\ ProviderBudgetKept

\* A task that succeeded or failed is never claimed, retried or deferred again.
TerminalTasksFinal ==
  [][\A t \in Task : task[t].status \in Terminal => task'[t] = task[t]]_vars

\* docs/collector-v2-phase5-candidate-orchestration.md: expired claims are
\* recoverable after restart.
ExpiredClaimRecoverable ==
  \A t \in Task : task[t].status = "claimed" /\ task[t].lease_expires_at <= clock =>
    task[t].attempt_count < MaxAttempts \/ \E w \in Worker : worker[w].claim = task[t].lease_id

\* security_enrichment/service.py calls itself a task executor with restart
\* safety, and phase 5 lets poison work fail without blocking other tasks: an
\* attempt that repeats what an earlier one recorded does not stop the collector.
RetryAccepted == stopped_by # "evidence"
=============================================================================
