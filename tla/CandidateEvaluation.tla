------------------------ MODULE CandidateEvaluation ------------------------
(***************************************************************************)
(* Concurrent evaluations of candidates: the transactions of                *)
(* candidates/service.py and repository.py that nominate, promote and       *)
(* demote tokens, the database locks they take on the way, and the two      *)
(* budgets those locks protect (docs/lock-protocol.md).                     *)
(*                                                                         *)
(* A transaction is the sequence of steps it still has to do.  It waits at *)
(* the first lock it cannot get; PostgreSQL aborts one of a cycle of       *)
(* waiting transactions.  What it writes is seen when it commits.          *)
(***************************************************************************)
EXTENDS Naturals, Sequences, FiniteSets, FiniteSetsExt

CONSTANTS
  TokenCount,      \* tokens are 1 .. TokenCount, in the order of their UUIDs
  PollWorker, BoostWorker, SecurityWorker,
  BatchLimit,      \* most tokens of a poll batch
  MaxTier3,        \* CandidatePolicy.max_tier3_candidates
  MaxCoverage,     \* CandidatePolicy.max_active_coverage
  TTL,             \* tier1_ttl, tier2_ttl and tier3_ttl
  Standing,        \* the tiers that earlier evaluations have left the tokens in
  MaxTransactions, MaxClock   \* bounds, not in the code

VARIABLES
  clock,
  row,       \* candidate_current_state, of the running epoch
  overlay,   \* poll_schedules.candidate_coverage_expires_at
  held,      \* the locks every worker's transaction has been granted
  txn,       \* the transaction of every worker
  begun      \* how many transactions have begun

evaluationVars == <<clock, row, overlay, held, txn, begun>>

TokenId == 1 .. TokenCount
Worker == PollWorker \cup BoostWorker \cup SecurityWorker
Never == 0     \* no expiry: NULL
Until == 0 .. MaxClock + TTL
Row == [tier : 0 .. 3, watermark : 0 .. MaxClock, expires : Until]
Universal == [tier |-> 0, watermark |-> 0, expires |-> Never]

ASSUME EvaluationAssumption ==
  /\ TokenCount \in Nat /\ BatchLimit \in Nat \ {0}
  /\ MaxTransactions \in Nat /\ MaxTier3 \in Nat /\ MaxCoverage \in Nat
  /\ TTL \in Nat \ {0} /\ MaxClock \in Nat \ {0, 1}
  /\ Standing \subseteq [TokenId -> 0 .. 2]
  /\ PollWorker \cap (BoostWorker \cup SecurityWorker) = {} /\ BoostWorker \cap SecurityWorker = {}

-----------------------------------------------------------------------------
(* Locks.  The row lock of candidate_current_state is left out: every      *)
(* transaction takes it under a lock of the token that excludes the others.*)

Gate == [on |-> "gate", token |-> 0]
Wakeups == [on |-> "wakeups", token |-> 0]
Tier3Budget == [on |-> "tier3", token |-> 0]
CoverageBudget == [on |-> "coverage", token |-> 0]
OnToken(t) == [on |-> "token", token |-> t]
OnSchedule(t) == [on |-> "schedule", token |-> t]
Mode == {"share", "exclusive", "key share", "no key update", "update"}

\* Which modes two transactions may hold of one lock: pg_advisory_xact_lock_shared, and
\* the row locks of PostgreSQL.
Compatible(m, n) ==
  \/ m = "share" /\ n = "share"
  \/ m = "key share" /\ n \in {"key share", "no key update"}
  \/ m = "no key update" /\ n = "key share"

\* The workers that keep w from a lock.
Blockers(w, lock, mode) ==
  {v \in Worker \ {w} : \E h \in held[v] : h.lock = lock /\ ~ Compatible(mode, h.mode)}

-----------------------------------------------------------------------------
(* The steps of a transaction.                                             *)

\* level 0 is outside of a savepoint, 1 and 2 are inside of the first and of the second one.
Step(do, t, level) ==
  [do |-> do, token |-> t, target |-> 0, level |-> level, lock |-> Gate, mode |-> "none"]
Take(lock, mode, level) ==
  [do |-> "take", token |-> 0, target |-> 0, level |-> level, lock |-> lock, mode |-> mode]
Write(t, target, level) == [Step("write", t, level) EXCEPT !.target = target]

\* ORDER BY token_id.
Ordered(tokens) ==
  [i \in 1 .. Cardinality(tokens) |->
     CHOOSE t \in tokens : Cardinality({u \in tokens : u < t}) = i - 1]
\* For each token in that order the n steps it has.
InOrder(tokens, n, Steps(_)) ==
  [i \in 1 .. n * Cardinality(tokens) |->
     Steps(Ordered(tokens)[1 + (i - 1) \div n])[1 + ((i - 1) % n)]]

\* ScheduledObservationWorkflow.execute: in a savepoint the lifecycle of the selected tokens,
\* in another one their candidates, then the completion of the batch.  (The key shares the
\* facts take before only conflict with the security update, which the gate keeps out.)
\* Mutation of Lifecycle: the token is evaluated under the locks its facts take.
LifecycleUnlocked(t) == <<Take(Gate, "share", 1), Take(OnToken(t), "key share", 1)>>
Lifecycle(t) == <<Take(OnToken(t), "no key update", 1), Take(OnSchedule(t), "update", 1)>>
Evaluation(t, level) ==
  <<Step("load", t, level), Take(OnToken(t), "no key update", level), Step("judge", t, level)>>
Candidate(t) == Evaluation(t, 2)
Completion(t) == <<Take(OnSchedule(t), "update", 0)>>
PollSteps(batch, selected) ==
  <<Take(Gate, "share", 0)>> \o InOrder(selected, 2, Lifecycle)
    \o InOrder(selected, 3, Candidate) \o InOrder(batch, 1, Completion)

\* BoostCollectionWorkflow: the boost of one token, then its evaluation.
BoostSteps(t) ==
  <<Take(OnToken(t), "key share", 0), Take(Wakeups, "exclusive", 0)>> \o Evaluation(t, 0)

\* evaluate_security_token.
\* Mutation of SecuritySteps: the token is locked before the gate.
SecurityStepsFenceFirst(t) ==
  <<Take(OnToken(t), "update", 0), Take(Gate, "exclusive", 0)>> \o Evaluation(t, 0)
SecuritySteps(t) ==
  <<Take(Gate, "exclusive", 0), Take(OnToken(t), "update", 0)>> \o Evaluation(t, 0)

\* The locks of a promotion to deep review.
PromotionLocks(level) == <<Take(Tier3Budget, "exclusive", level)>>

NoRows == [t \in {} |-> Universal]
NoOverlays == [t \in {} |-> Never]
NoTransaction ==
  [todo |-> <<>>, now |-> 0, loaded |-> NoRows, saw |-> NoOverlays, rows |-> NoRows,
   overlays |-> NoOverlays, batch |-> {}]

\* What evaluations at time 1 have left: tokens without a row, or in tier 1 with coverage, or
\* in tier 2 without.
Left(tier) ==
  IF tier = 0 THEN Universal
  ELSE [tier |-> tier, watermark |-> 1, expires |-> IF tier = 1 THEN 1 + TTL ELSE Never]
EvaluationInit ==
  /\ clock = 2 /\ begun = 0
  /\ row \in {[t \in TokenId |-> Left(tiers[t])] : tiers \in Standing}
  /\ overlay = [t \in TokenId |-> row[t].expires]
  /\ Cardinality({t \in TokenId : overlay[t] # Never}) <= MaxCoverage
  /\ held = [w \in Worker |-> {}]
  /\ txn = [w \in Worker |-> NoTransaction]

-----------------------------------------------------------------------------
(* The work between two locks.                                             *)

\* What a transaction reads: its own writes, and what the others committed.
RowSeen(w, t) == IF t \in DOMAIN txn[w].rows THEN txn[w].rows[t] ELSE row[t]
OverlaySeen(w, t) == IF t \in DOMAIN txn[w].overlays THEN txn[w].overlays[t] ELSE overlay[t]

\* CandidatePolicy.evaluate: the targets a token of that tier may get, on some evidence.
\* An explicit boost event always makes the token eligible.
Targets(w, tier) ==
  {1} \cup (IF tier \in {1, 2} THEN {2} ELSE {}) \cup (IF tier \in {2, 3} THEN {3} ELSE {})
      \cup (IF w \in BoostWorker THEN {} ELSE {0})

\* The evidence is older than the projection, or as old and sees fewer facts.
Outdated(current, now, target) ==
  \/ now < current.watermark
  \/ now = current.watermark /\ target < current.tier

\* next_evaluation_at.
NextEvaluation(current) ==
  IF current.expires # Never THEN current.expires ELSE current.watermark + 1

\* A token that is not eligible keeps its tier until its coverage expires.
Kept(current, now, target) ==
  IF target = 0 /\ current.expires # Never /\ now < current.expires THEN current.tier ELSE target

\* The coverage of an eligible token is renewed when it has run out.
Refreshed(current, now, target) ==
  /\ target = current.tier /\ target # 0
  /\ current.expires <= now /\ NextEvaluation(current) <= now /\ now # current.watermark

\* coverage_until of the decision.
CoverageUntil(current, now) == now + TTL

\* Mutation of Tier3Full: the policy's number may be passed by one.
Tier3FullOffByOne(w) == Cardinality({t \in TokenId : RowSeen(w, t).tier = 3}) > MaxTier3
Tier3Full(w) == Cardinality({t \in TokenId : RowSeen(w, t).tier = 3}) >= MaxTier3
CoverageFull(w) == Cardinality({t \in TokenId : OverlaySeen(w, t) > txn[w].now}) >= MaxCoverage

With(f, t, value) == [u \in DOMAIN f \cup {t} |-> IF u = t THEN value ELSE f[u]]

\* An UPDATE sets the columns whose value is not the one that was loaded: the identity map
\* keeps the object a SELECT ... FOR UPDATE finds loaded, with the values it has.
Merged(old, loaded, new) ==
  [c \in DOMAIN new |-> IF new[c] = loaded[c] THEN old[c] ELSE new[c]]

\* What is left of a list of steps once the locks it begins with are held.
Granted(locks, step) ==
  step.do = "take" /\ \E h \in locks : h.lock = step.lock /\ h.mode \in {step.mode, "update"}
FromFirst(steps, left) == IF left = {} THEN <<>> ELSE SubSeq(steps, Min(left), Len(steps))
Rest(steps, locks) == FromFirst(steps, {i \in DOMAIN steps : ~ Granted(locks, steps[i])})

\* One more step of worker w: what it has to do next, and what it did.
Do(w, do) == txn[w].todo # <<>> /\ Head(txn[w].todo).do = do
Proceed(w, next) ==
  txn' = [txn EXCEPT ![w].todo = Rest(next \o Tail(txn[w].todo), held'[w])]

Acquire(w) ==
  /\ Do(w, "take")
  /\ LET want == Head(txn[w].todo)
     IN  /\ Blockers(w, want.lock, want.mode) = {}
         /\ held' = [held EXCEPT ![w] =
                held[w] \cup {[lock |-> want.lock, mode |-> want.mode, level |-> want.level]}]
  /\ Proceed(w, <<>>)
  /\ UNCHANGED <<clock, row, overlay, begun>>

\* The current state and the schedule are read, and stay loaded.  A boost may find the
\* wake-up budget of the minute used up, and security evidence a token without a row.
Load(w) ==
  /\ Do(w, "load")
  /\ LET t == Head(txn[w].todo).token
         ends == [txn EXCEPT ![w].todo = <<>>]
         goesOn == [txn EXCEPT ![w].todo = Rest(Tail(txn[w].todo), held[w]),
                               ![w].loaded = With(txn[w].loaded, t, RowSeen(w, t)),
                               ![w].saw = With(txn[w].saw, t, OverlaySeen(w, t))]
     IN  \/ w \in BoostWorker /\ txn' = ends
         \/ w \in SecurityWorker /\ RowSeen(w, t).watermark = 0 /\ txn' = ends
         \/ (w \in SecurityWorker => RowSeen(w, t).watermark # 0) /\ txn' = goesOn
  /\ UNCHANGED <<clock, row, overlay, held, begun>>

\* What is left of apply_evaluation when the target is known: nothing when the tier and
\* its coverage stay, else the schedule, the coverage budget and the new row.
Change(w, t, target, level) ==
  LET current == txn[w].loaded[t]
      kept == Kept(current, txn[w].now, target)
  IN  IF kept = current.tier /\ ~ Refreshed(current, txn[w].now, target) THEN <<>>
      ELSE <<Take(OnSchedule(t), "update", level)>>
             \o (IF kept = 0 THEN <<>> ELSE <<Take(CoverageBudget, "exclusive", level)>>)
             \o <<Write(t, kept, level)>>

\* The decision and the checks at the top of apply_evaluation.
Judge(w) ==
  /\ Do(w, "judge")
  /\ held' = held
  /\ LET t == Head(txn[w].todo).token
         level == Head(txn[w].todo).level
         current == txn[w].loaded[t]
     IN  \E target \in Targets(w, current.tier) :
           \/ Outdated(current, txn[w].now, target) /\ Proceed(w, <<>>)
           \/ /\ ~ Outdated(current, txn[w].now, target)
              /\ IF target = 3 /\ current.tier # 3
                 THEN Proceed(w, PromotionLocks(level) \o <<Step("promote", t, level)>>)
                 ELSE Proceed(w, Change(w, t, target, level))
  /\ UNCHANGED <<clock, row, overlay, begun>>

Promote(w) ==
  /\ Do(w, "promote")
  /\ held' = held
  /\ LET t == Head(txn[w].todo).token
         target == IF Tier3Full(w) THEN txn[w].loaded[t].tier ELSE 3
     IN  Proceed(w, Change(w, t, target, Head(txn[w].todo).level))
  /\ UNCHANGED <<clock, row, overlay, begun>>

\* The new row and the overlay of the schedule.
Project(w) ==
  /\ Do(w, "write")
  /\ LET t == Head(txn[w].todo).token
         target == Head(txn[w].todo).target
         now == txn[w].now
         saw == txn[w].saw[t]
         admitted == target # 0 /\ (saw > now \/ ~ CoverageFull(w))
         expires == IF admitted THEN CoverageUntil(txn[w].loaded[t], now) ELSE Never
         new == [tier |-> target, watermark |-> now, expires |-> expires]
         covered == IF admitted THEN expires ELSE IF target = 0 \/ saw <= now THEN Never ELSE saw
     IN  txn' = [txn EXCEPT
           ![w].todo = Rest(Tail(txn[w].todo), held[w]),
           ![w].rows = With(txn[w].rows, t, Merged(row[t], txn[w].loaded[t], new)),
           ![w].overlays =
             With(txn[w].overlays, t, IF covered = saw THEN overlay[t] ELSE covered)]
  /\ UNCHANGED <<clock, row, overlay, held, begun>>

-----------------------------------------------------------------------------
(* The transactions.                                                       *)

Begin(w, steps, batch) ==
  /\ txn[w] = NoTransaction
  /\ txn' = [txn EXCEPT ![w] =
                [NoTransaction EXCEPT !.todo = steps, !.now = clock, !.batch = batch]]
  /\ begun < MaxTransactions /\ begun' = begun + 1
  /\ UNCHANGED <<clock, row, overlay, held>>

BeginPoll(w) ==
  \E batch \in SUBSET TokenId :
    /\ batch # {} /\ Cardinality(batch) <= BatchLimit
    /\ \E selected \in SUBSET batch : Begin(w, PollSteps(batch, selected), batch)
BeginBoost(w) == \E t \in TokenId : Begin(w, BoostSteps(t), {})
BeginSecurity(w) == \E t \in TokenId : Begin(w, SecuritySteps(t), {})

\* complete_batch_in_session also drops the overlays that have run out.
Lapsed(w) == {t \in txn[w].batch : OverlaySeen(w, t) <= clock}
Commit(w) ==
  /\ txn[w] # NoTransaction /\ txn[w].todo = <<>>
  /\ row' = [t \in TokenId |-> RowSeen(w, t)]
  /\ overlay' = [t \in TokenId |-> IF t \in Lapsed(w) THEN Never ELSE OverlaySeen(w, t)]
  /\ held' = [held EXCEPT ![w] = {}]
  /\ txn' = [txn EXCEPT ![w] = NoTransaction]
  /\ UNCHANGED <<clock, begun>>

\* PostgreSQL aborts one transaction of a cycle.  Inside a savepoint of a poll the rest of
\* the savepoint is lost and the batch completes as PARTIAL; any other transaction is lost,
\* and with it the collector, which starts again.
Waits(v) ==
  IF Do(v, "take") THEN Blockers(v, Head(txn[v].todo).lock, Head(txn[v].todo).mode) ELSE {}
\* Those who wait for themselves: they are in every set that has whom they wait for and whom
\* its members wait for.
Deadlocked ==
  {w \in Worker :
     \A S \in SUBSET Worker :
       Waits(w) \subseteq S /\ UNION {Waits(v) : v \in S} \subseteq S => w \in S}

Outside(steps) == FromFirst(steps, {i \in DOMAIN steps : steps[i].level = 0})
Abort(w) ==
  /\ w \in Deadlocked
  /\ LET level == Head(txn[w].todo).level
     IN  IF level = 0
         THEN /\ held' = [held EXCEPT ![w] = {}]
              /\ txn' = [txn EXCEPT ![w] = NoTransaction]
         ELSE /\ held' = [held EXCEPT ![w] = {h \in held[w] : h.level < level}]
              /\ txn' = [txn EXCEPT ![w].todo = Rest(Outside(txn[w].todo), held'[w]),
                                    ![w].rows = NoRows, ![w].overlays = NoOverlays]
  /\ UNCHANGED <<clock, row, overlay, begun>>

Tick ==
  /\ clock < MaxClock
  /\ clock' = clock + 1
  /\ UNCHANGED <<row, overlay, held, txn, begun>>

Work(w) ==
  \/ Acquire(w) \/ Load(w) \/ Judge(w) \/ Promote(w) \/ Project(w) \/ Commit(w) \/ Abort(w)

EvaluationNext ==
  \/ Tick
  \/ \E w \in PollWorker : BeginPoll(w)
  \/ \E w \in BoostWorker : BeginBoost(w)
  \/ \E w \in SecurityWorker : BeginSecurity(w)
  \/ \E w \in Worker : Work(w)

EvaluationSpec == EvaluationInit /\ [][EvaluationNext]_evaluationVars

-----------------------------------------------------------------------------
(* Properties.                                                             *)

\* Type invariant.
EvaluationTypes ==
  /\ clock \in 1 .. MaxClock /\ begun \in 0 .. MaxTransactions
  /\ row \in [TokenId -> Row] /\ overlay \in [TokenId -> Until]
  /\ \A w \in Worker :
       /\ txn[w].now \in 0 .. MaxClock
       /\ \A h \in held[w] : h.mode \in Mode
       /\ DOMAIN txn[w].rows \subseteq TokenId
       /\ \A t \in DOMAIN txn[w].rows : txn[w].rows[t] \in Row

\* No more tokens are in deep review than the policy admits, whatever evaluations run at
\* the same time: the count is taken under a lock that is kept until the commit
\* (repository.py: _TIER3_BUDGET_LOCK).
Tier3Capped == Cardinality({t \in TokenId : row[t].tier = 3}) <= MaxTier3

\* Locks, transactions and rows have their types, and deep review keeps its cap.
EvaluationsConsistent == EvaluationTypes /\ Tier3Capped

\* The security evaluation is never part of a deadlock: it waits for the gate before it
\* locks the token, so no transaction it waits for waits for it (docs/lock-protocol.md,
\* "Phase 6 evidence evaluation fence").
FenceNeverDeadlocks == Deadlocked \cap SecurityWorker = {}

\* A scheduled or a security evaluation decides on the projection it replaces: it never
\* moves a watermark back, and at an equal watermark it never lowers a tier.  (A boost
\* evaluation loads the row before it locks the token.)
Regresses(old, new) ==
  new.watermark < old.watermark \/ (new.watermark = old.watermark /\ new.tier < old.tier)
LockedEvaluationsGoForward ==
  [][\A w \in PollWorker \cup SecurityWorker :
       Commit(w) => \A t \in TokenId : ~ Regresses(row[t], row'[t])]_evaluationVars

\* docs/collector-v2-phase5-candidate-orchestration.md: "Old evidence cannot move the
\* projection backwards."
ProjectionForward == [][\A t \in TokenId : ~ Regresses(row[t], row'[t])]_evaluationVars

\* The same page: a "database-serialized hard cap" on simultaneous overrides.
CoverageCapped == Cardinality({t \in TokenId : overlay[t] > clock}) <= MaxCoverage

\* docs/lock-protocol.md: "No remaining `A -> B` / `B -> A` acquisition pair was found".
NoDeadlock == Deadlocked = {}
=============================================================================
