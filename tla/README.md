# Pump research collector: TLA+ models and proofs

This directory models the collector of `src/` (package `pump_research`): a
process that discovers tokens, keeps a PostgreSQL projection of when each of
them has to be polled, polls them in leased batches within a request budget,
classifies their life cycle and selects a few for denser and costlier work; and
what is done with its records: the archive of a closed epoch and the datasets
research computes. TLC checks the models on small instances; TLAPS proves the main
safety properties of the scheduler, the task queues, the collector's runs, the archive and
the research datasets for every value of the constants.

Paths below are relative to `src/src/pump_research/` unless they begin with
`docs/`.

## 1. Inventory

| component | code | state | operations | what is hard, what must hold |
|---|---|---|---|---|
| coverage policy | `scheduling/policy.py` | none (pure) | class, next boundary, priority and interval of a row | half-open age boundaries; class and boundary must agree at the instant of the boundary |
| poll scheduler | `scheduling/scheduler.py`, `scheduling/locks.py` | `poll_schedules`, `poll_batches`, `poll_batch_members`, `poll_batch_outcomes` | claim, control claim, complete, set life-cycle state, advance coverage, initialise epoch | concurrent claims behind one gate with times sampled before it; leases that expire and are reclaimed in part; a batch completes once and only by its owner; no token is lost from the queues; due work is not postponed; fair rotation of retired tokens |
| capacity planning | `scheduling/capacity.py` | none (pure) | `plan_capacity` | integer budgets; positive finite interval for every tier |
| scheduled observation workflow | `collection/polling.py` | memory of one worker | claim, fetch, record, complete | HTTP outside the transaction; savepoints of derived evaluation; a failure after the facts were kept |
| collector worker | `collection/worker.py` | asyncio task group | loops, heartbeat, shutdown | an error one loop does not expect cancels all |
| life-cycle classifier | `lifecycle/` | evidence rows, transitions | evaluate one request | evidence selection among pools; lagging decisions; lock order |
| candidate repository and service | `candidates/` | `candidate_current_states`, tier events, tasks | apply evaluation; claim, complete, fail, defer task | watermarks; finite overlays under global budgets; task retries and crash on the last attempt |
| security enrichment | `security_enrichment/`, `collection/security.py` | security results and schedules | claim due work, analyse, record, re-evaluate | late evidence applied in a later transaction |
| DEX availability | `collection/dex_availability.py`, `persistence/repositories.py` | availability tasks, leases | admit discovery, check due, record, retry | several chains under one lease; retry until found or expired; admission as NEW |
| collector runtime | `collection/runtime.py`, `collection/recovery.py`, `epochs.py` | process lock, runs, epochs | start, mark started, finish, reconcile | death between any two transactions; epoch initialised once |
| discovery | `discovery/`, `collection/discovery.py` | queue, deferred envelopes and unacknowledged batch in memory; discovery, rejection and connectivity events | connect, receive, fetch, store, acknowledge | a full queue, failed transactions, parse failures inside a batch, outages: nothing lost or overtaken, every gap marked |
| market data clients | `market_data/` | rate limiter | get pairs, RPC | spacing of requests, retries, Retry-After |
| boosts, zero-cost enrichment, market context | `collection/boosts.py`, `collection/market_context.py`, `persistence/enrichment.py` | change-only histories, boost events, context buckets | record if changed, close a bucket | answers commit in another order than they were received; a bucket is summarised while answers of it are open; a boost transaction holds candidate rows without the scheduler gate |
| archival | `archival.py`, `archive_*.py`, `retention.py` | scopes, copy verifications; files, manifests and sidecars | claim, export, recount, publish, verify, copy, evaluate retention | an unrenewed lease, crashes between files, late facts; a verified scope misses nothing and eligibility has its evidence |
| research dataset | `research/` | published directories | load a history, compute as-of state, features and labels, split, publish | late facts and look-ahead, hot and cold ranges, builds racing for one name |
| reporting, monitoring, CLI | `reporting/`, `monitoring/`, `cli.py` | none | queries | - |

Interaction. Everything meets in PostgreSQL. Several `scheduled_observation`
loops of one process (`scheduler_max_in_flight_batches` of them) alternate
between two transactions of the scheduler: a claim, which takes the *exclusive*
advisory gate, and a completion, which takes the gate shared together with row
locks and in which the life-cycle classifier and the candidate repository
write the same `poll_schedules` rows through savepoints. DEX availability
admits rows; boosts and security results rewrite the overlay of a row; the
runtime rebases all rows when an epoch starts. No transaction is open during
an HTTP call. Discovery hands batches to DEX availability in its own transaction.
Archival and research only read what the collector wrote; an archive is taken of a
closed epoch, a dataset may be built while the collector runs.

The hazards this gives are listed at their lines in `PROJECT.json`.

## 2. Modules

| module | models |
|---|---|
| `CoveragePolicy` | `scheduling/policy.py`: classes, boundaries and priorities as functions of state and ages |
| `LeasedWork` | abstract specification of what handing out leased work promises |
| `PollScheduler` | the scheduler, its workers, and the other writers of its rows; extends `CoveragePolicy`, refines `LeasedWork` |
| `MCPollScheduler` | constant values for TLC |
| `EnrichmentTasks` | candidate tasks (`candidates/repository.py`) and the workers of `security_enrichment/`; refines `LeasedWork` |
| `MCEnrichmentTasks` | constant values for TLC |
| `CollectorRuns` | epochs, the process lock, runs, component health and their recovery |
| `TokenDiscovery` | the live stream from the socket to the acknowledged transaction |
| `DexAvailability` | the two leased queues from a discovered token to its first poll and its security snapshots |
| `CandidateEvaluation` | the transactions that evaluate candidates, lock by lock, with deadlock and abort |
| `UniversalEnrichment` | change-only histories, boost events and market context |
| `Archive` | one archive scope: files, catalogue, copy and retention |
| `ResearchAsOf` | pure operators: as-of state, feature inputs and labels of a history |
| `ResearchDataset` | the sources of a history and the publication of datasets; extends `ResearchAsOf` |
| `MC<module>` | constant values for TLC, one for each of the above |
| `PollSchedulerProofs`, `EnrichmentTaskProofs`, `PromotionProofs`, `CollectorRunsProofs`, `ArchiveProofs`, `ResearchDatasetProofs`, `TokenDiscoveryProofs`, `UniversalEnrichmentProofs` | theorems, each about the modules it extends: the first also about `CoveragePolicy`, `PromotionProofs` about `DexAvailability` and `CandidateEvaluation` |

### PollScheduler and the code

State: `schedule[t]` is a row of `poll_schedules` (`None`: the token is not
admitted), `lease[t]` its lease columns, `poll_batch[b]` a batch with its
members (with the due time and, for the properties, the lease each member was
taken from), `outcome[b]` the batch's outcome, `candidate[t]` the candidate
row of the running epoch. These five form `store` and survive everything.
`worker[w]` and `running` are memory.

| action | code | notes |
|---|---|---|
| `BeginClaim` | `claim_next_batch` 522-528 | `now` is sampled, then the transaction waits for the gate: anything may happen before `Claim` |
| `Claim`, `ClaimNothing`, `ClaimRaises` | `claim_next_batch`, `_claim_control_batch`, `_advance_coverage_transitions`, `_has_batch_capacity` | one serialised transaction: advance coverage, capacity test, ordinary or control batch, rows leased; or nothing; or the `ValueError` of `coverage_class_for` |
| `Receive` | end of the HTTP exchange | `received_at` is sampled; the lease may expire meanwhile |
| `Complete` | `ScheduledObservationWorkflow.execute`, classifier, `apply_evaluation`, `complete_batch_in_session` | ownership test, life cycle, overlays, completion: one transaction. A failed fetch is the case with no life-cycle or candidate change |
| `CompleteAndFail` | savepoint of derived evaluation fails | the batch completes as partial, the collector then stops |
| `LoseLease` | `LostPollLeaseError` | the collector stops |
| `Admit` | DEX availability, `set_lifecycle_state_in_session` | a new row in state NEW |
| `ReapplyState` | `set_lifecycle_state` 396-409 | the same state again: only coverage is refreshed |
| `WakeCandidate` | boost and security evaluation | evidence up to `EvidenceLag` old |
| `Stop`, `Restart`, `StartEpoch` | death, `CollectorRuntime.start`, `initialize_epoch_in_session` | a new epoch clears leases but not batches |

`Contended` holds the tokens whose row a boost transaction may keep locked
(that writer does not take the gate): `SKIP LOCKED` then skips them, and each
of the three selections of a claim may see them locked or not. This is what
makes batches overlap only in part when they are reclaimed.

Abstractions, each with its reason:

- The capacity plan is any member of `Plans` (effective interval per class),
  never faster than the target interval; the arithmetic of `plan_capacity` is
  a separate component.
- Phases (`_coverage_phase_microseconds`, `_epoch_phase_microseconds`) are a
  constant digest modulo the interval, as in the code, but the digest itself
  is a parameter.
- Market evidence is nondeterministic: any edge of `Moves` (a subset of the
  edges of `lifecycle/policy.py`) may be asked for, any promotion or return
  allowed by the watermark. Every candidate tier above `TIER_0_UNIVERSAL` is
  `promoted`.
- `completed_at` is sampled immediately before the completion's row locks. As
  the shared gate excludes claims meanwhile, sampling and writing are one step.
- The early return of `complete_batch_in_session` for a batch that already has
  an outcome cannot be reached by a worker (a worker completes its batch
  once; a reclaimed batch fails the ownership test), hence it has no action.
- One policy hash: a change of configuration between restarts, which forces a
  refresh of every row, is not modelled.
- Decision, transition and telemetry records are append-only and not read
  back by these operations; they are left out.

### EnrichmentTasks and the code

State: `task[t]` is a row of `candidate_enrichment_tasks` (status `absent`: not
created yet), `reservation` the rows of `security_provider_budget_reservations`,
`evidence` the snapshots, edges and relationships a task left behind (their facts,
and the claim whose request they name). `worker[w]` is the memory of one
`selective_security_enrichment` loop; `stopped_by` says why the collector is
down. `claim` and `call` are histories: what was ever claimed and sent.

| action | code | notes |
|---|---|---|
| `Nominate`, `Evaluate` | `apply_evaluation`, `evaluate_security_token`, `_create_task` | the tier decision is any decision; the second creates deep-review tasks only |
| `BeginRun` | `_selective_security_once` | samples the one `now` of the run |
| `ClaimTask`, `ClaimNothing` | `claim_tasks`, limit 1 | minute budget, eligibility and order; rows a late worker has locked are skipped |
| `Reserve`, `ReserveDenied` | `reserve_provider_request`, `process_claim` | with the run's `now`; universal security work takes precedence over holder snapshots |
| `FetchPage`, `FetchFails` | `_dispatch` and its handlers | trader histories have pages, the others one |
| `RecordEvidence`, `RejectEvidence` | `record_*`, `_insert_verified` | a row found under the same identity must be equal, its request included |
| `CompleteTask`, `FailTask`, `DeferTask`, `LoseLease` | the same names, `_owned_task` | a lost lease is an error no loop expects: the collector stops |
| `Stop`, `Restart` | death, `CollectorRuntime.start` | |

Metrics, feature snapshots and payloads are left out: nothing above reads them
back. Provider errors that `process_claim` does not catch are `Stop`. The idempotent
return of `complete_task` needs the same request twice and cannot be reached, since
every attempt records a request of its own.

### CollectorRuns and the code

State: `epoch`, `run`, `health` are the tables; `lock` the session advisory lock;
`process[p]` what an invocation holds between its transactions. `Kill` may follow any
of them. Every step of `runtime.py` that is a transaction is an action of its own:

| action | code |
|---|---|
| `CreateEpoch`, `CloseEpoch` | `create_epoch`, `close_epoch` (completed, aborted and invalid are one status) |
| `AcquireLock`, `ReleaseLock`, `LoseConnection` | `acquire_collector_process_lock`, `release_...`; the server ending the session is noticed by nobody |
| `Start`, `StartRefused` | `CollectorRuntime.start`: epoch, schedules, abandoned runs, new run in one transaction |
| `MarkStarted`, `MarkFails` | `_mark_collection_started` |
| `Heartbeat`, `ComponentReports`, `ComponentFails`, `RequestShutdown`, `WorkerEnds` | `worker.py`, `_run_until_stopped_locked` |
| `MarkStopped`, `MarkingEnds`, `Finish` | the end of a run; each may fail |
| `BeginReconcile`; `LockForReconcile`, `ReconcileExcluded`; `ReconcileStale`, `ReconcileRefused` | `reconcile_stale_collector_run`: its time is sampled (recovery.py:74), the lock is tried (81), the transaction commits or raises |

A repair holds the sampled time in `process[p].now` through the pc `"sampled"`, in which it
does not have the lock: a collector may start, begin to collect and die before the
repair decides with that time.

### TokenDiscovery and the code

`reader` and `queue` are the reader task, `deferred` and `batch` the source's memory,
`stored` the three tables discovery writes. An envelope carries its number, from which
order and loss are read. `Connect`, `Receive`, `Disconnect`, `Unblock` are
`_reader_loop` and `_put_connectivity_event`; `FetchBatch`, `FetchRaises`, `FetchAgain`
are `fetch`; `Commit`, `CommitFails`, `CommitFailureStops` are `run_once` with
`acknowledge`. `CallerRetries` says whether the caller of `run_once` calls again after a
failure: the contract of `docs/discovery.md` supposes it, the worker does not do it.

### DexAvailability and the code

`task`, `security`, `lifecycle`, `schedule` and `snapshot` are tables, `pass[l]` the
memory of a loop. `ClaimDue`, `Answer`, `AnswerFails`, `CompleteDex`, `CompleteSecurity`,
`LeaseLost` are `check_due` and `collect_due` with their repositories; `Admit` is
`admit_discovery_in_session`. Time is abstract: a row becomes due and a lease expires at
any moment (`BecomesDue`, `LeaseExpires`), so that every order of expiry and answer is
covered. A process left over after losing its lock runs beside the new one.

### CandidateEvaluation and the code

A transaction is the list of steps it still has to do, and a step is a lock to take or a
piece of work between two locks; the lists (`PollSteps`, `BoostSteps`, `SecuritySteps`)
are the acquisition orders of `polling.py`, `boosts.py` and `evaluate_security_token`,
with their savepoints. `Load`, `Judge`, `Promote`, `Project` are the reads and writes of
`apply_evaluation`; `Commit` and `Abort` end a transaction, and what it wrote is seen at
its commit only. `Merged` is what the ORM's identity map does to a row that was
loaded before it was locked. Evidence is a choice among the targets
`CandidatePolicy.evaluate` can give from the token's tier.

### UniversalEnrichment and the code

`rows`, `events`, `observations`, `lifecycle` and `contexts` are tables, `feeds` and
`polls` answers that were received and are not committed. `Record` is
`record_if_changed` of the three repositories with the boost events; `StoreRecord` a
transaction of a boost loop, `CommitPoll` one of a poll, `RecordContext`,
`ConfirmContext` and `RejectContext` are `record_closed_bucket`. A median is represented
by the prices it is taken of. A feed names a token at most once per answer
(`EnrichmentAssumption`): `boosts.py` does not look for a second record of a token, and two
records with one `received_at` are ordered by their identifiers alone.

### Archive and the code

`scope` and `copies` are catalogue rows, `store` the files of the primary archive and of
the copy, `worker[w]` a command. A digest stands for the bytes it is taken of, and bytes
are rows in a chunk layout. Every query of an export sees the facts committed by then.
`Claim` to `MarkFailed` are `export_epoch_range` with the catalogue's transactions,
`BeginCopy` to `RecordSecondary` are `copy_archive` and the two copy verifications,
`EvaluateRetention` is `evaluate_retention_eligibility`.

### ResearchAsOf, ResearchDataset and the code

`ResearchAsOf` has no state: a history is a set of facts with a time of receipt or
decision, and `AsOf`, `MarketFeatures`, `Labels` choose the facts that `asof.py`,
`features.py` and `labels.py` choose; the arithmetic on the chosen facts is left out, so
that two features are equal when they are computed from the same facts.
`ResearchDataset` lets facts be received (`Receive`) and commit later (`Commit`),
exports an archive, and builds datasets: `Hot`, `Cold`, `HotCold` are the sources,
`Build`, `MeetPublished`, `FindNone`, `Promote`, `Killed` are `build_dataset`. The
statements of one hot load are read as one snapshot.

## 3. Runs

Time is coarse: one unit stands for the length below which the order of events does
not matter in that run; intervals, leases and minutes are small multiples of it, so that
every boundary is reached at, before and after.

| run | shows | bounds |
|---|---|---|
| `poll` | types; a reclaimed batch never completes; one poller per token; completions are counted once and late work keeps its due time, for rows that are neither contended nor covered (`PollsAccounted`); the in-flight limit, and a rolling budget exceeded by less than the number of workers (`BudgetsBounded`); refinement of `LeasedWork`; coverage of an unchanged state only cools, for tokens no evaluation covers | 2 workers, 2 tokens, 3 batches, a lease of 3 and a minute of 2: a batch, the batch that reclaims half of it and a third; crashes, restarts, epochs and an admission anywhere |
| `poll_overlays` | every token is in exactly one queue and no boundary is missed (`RowsKeepTheirEvents`); due work is not postponed; the rotation of retired tokens passes over nobody | overlays granted, renewed, withdrawn, with late evidence, through ACTIVE, FADING, DORMANT and retirement |
| `tasks` | ended tasks are final; a claim ends its task once and only as its owner (`LeasedWork`); at most `max_attempts` claims of a task reach the provider, deferrals included; budgets of claims and provider operations (`BudgetsKept`); no call without a reservation of its own (`TasksConsistent`) | 2 workers, a trader history of 2 pages and a holder snapshot, 2 attempts, 3 claims, a minute as long as the lease; no deep-review task, which would be claimed and reserved for like the snapshot but never gives way to universal work |
| `runs` | one running run and one running epoch, schedules rebased once per epoch, live work behind its boundary, quiet components after a graceful stop (`RunsConsistent`); one collector while no lock connection is lost; disjoint live intervals, and an end before the boundary for repaired runs without a heartbeat only (`LiveIntervalsDisjoint`); the end of a run is written once (`EndedRunsFinal`); *liveness*: a shutdown ends | 2 processes, one of which may run repairs; 2 epochs in the order of their numbers, 2 runs; 3 instants (the start of a run, the time a repair sampled, the boundary of the run), 2 of them behind the second epoch; the connection is lost once, while supervising under the first run |
| `archive` | manifests come last and the catalogue says what the archive holds (`ArchiveConsistent`); a verified scope has every row its exporter counted; eligibility has its evidence; nothing archived is taken back | 2 commands, 2 chunk sizes, 3 claims, a lease of one unit, one fact that commits at any time |
| `discovery` | memory is the unbroken end of what was received (`MemoryConsistent`); every outage is bracketed; *liveness*: what is received is stored or raised | 5 envelopes, a queue of 2, batches of 3, two lives of the process |
| `availability` | task, life cycle, schedule and security task of a token agree, one snapshot per phase (`PromotionConsistent`); *liveness*: a listed token is promoted and gets its snapshots | 2 tokens on 2 chains, 2 collectors, 2 of the security phases |
| `candidates` | deep review keeps its cap (`EvaluationsConsistent`); the security fence is in no deadlock; evaluations that lock before they read never go back | 2 tokens, of which one may go to deep review and the other is new, covered or like it; one worker of each kind, 3 transactions, caps of one |
| `research` | a token has one split (`DatasetsConsistent`); features are those of the collector at the decision; labels settle; a published dataset is immutable; hot and cold agree | an admission, a price and one more fact (another price, another pair or a tier), one open transaction, 3 time units, 2 builds |
| `enrichment` | histories are exact at every stored receipt (`HistoriesConsistent`); crossings add up; what a context misses or contradicts was committed late (`ContextsExplained`) | one token, 4 listings, 2 pair answers, 3 answers, 2 lives, buckets of one unit, a cohort that is mature after two: the transitions of a mature pair may then be older than the bucket |
| `label_leak` | *violation* of docs/research-label-contract-v1.md:51 | |
| `lock_order` | *violation* of docs/lock-protocol.md:39 | |

Properties are conjunctions of named parts; the parts have their own comments in the
modules.

Bounds. `MaxClock` and one more number (batches, claims, transactions, envelopes,
answers, facts, builds, starts) are the only caps; all are guards of the actions
that use up the resource. In the modules whose processes can always stop and restart
(`PollScheduler`, `EnrichmentTasks`, `CollectorRuns`, `DexAvailability`) deadlock
is checked; in the other five the caps end every behaviour and the configuration
says `CHECK_DEADLOCK FALSE`. Why the caps are enough: three batches for a reclaim of a
reclaim; three claims of a scope or a task for a late owner to meet the owner after
next; two runs for a recovery and its effect on the first; five envelopes for a failure in
the middle of a batch behind a full queue; three transactions, one of each kind, for every
pair of acquisition orders; three facts for an admission, an entry and an outcome. Workers
are interchangeable; where `Symmetry` is used the properties are invariants or
properties of steps. `MCCollectorRuns!Bounds` is a state constraint: what it leaves out are
steps of the operator, the clock and the server, which no fairness speaks of, so that
no process is kept from what it must do.

Fairness. The scheduler, the task queue, the archive, evaluations, enrichment and datasets
are checked for safety only. `CollectorRuns!FairSpec` is weak fairness of what a process
does by itself (an event loop whose awaits end: every transaction commits or fails).
`TokenDiscovery!FairSpec` is weak fairness of the reader's put and of the worker's loop,
and strong fairness of a commit: a transaction tried again and again is accepted.
`DexAvailability!FairSpec`: time passes (weak fairness of becoming due and expiring);
each loop goes on with its pass, for a request ends by its answer or its timeout
(weak); a queue is claimed if it is claimable again and again, and a token asked
about again and again is again and again answered for and committed in time (strong) - a
provider or a collector that always fails or dies is not excluded by the code, and
promises nothing.

### Where the code differs from what is said of it

`label_leak` and `lock_order` are runs; `PROJECT.json`, "findings", has their quotes. These
configurations are further counterexamples: each checks one statement and TLC finds it
violated (`tlc -config <file> <module>`).

| configuration, module | statement and code |
|---|---|
| `BudgetOvershot.cfg`, MCPollScheduler | docs/scheduler.md:55-57 "workers cannot collectively overshoot that reservation"; a claim samples `now` before the gate and does not see later reservations (scheduler.py:528) |
| `ClaimBehindDecision.cfg`, MCPollScheduler | the assertion at policy.py:199; a claim with an old time meets a boundary behind a newer FADING decision, raises and stops the collector |
| `CoverageOversold.cfg`, MCPollScheduler | docs/collector-v2-integration-readiness.md:123 "capped at 100 concurrent"; a renewal evaluated at its evidence time keeps a slot that was given away (candidates/repository.py:180). `CandidateEvaluation!CoverageCapped` says the same of docs/collector-v2-phase5-candidate-orchestration.md:89 |
| `ClaimStranded.cfg`, MCEnrichmentTasks | docs/collector-v2-phase5-candidate-orchestration.md:106 "Expired claims are recoverable"; the claim of a last attempt is never taken back nor failed (candidates/repository.py:358) |
| `ShortLease.cfg`, MCEnrichmentTasks | the docstring at candidates/repository.py:338 "Claim without exceeding the independent candidate task/minute budget."; with a lease of 30 to 59 seconds, which the settings allow, a task claimed twice in a minute is counted once (345, 390) |
| `RetryStopsCollector.cfg`, MCEnrichmentTasks | security_enrichment/service.py:1 "restart safety"; a retry that reads the facts of a dead attempt has the same identity and another request, and the error stops the collector (security_enrichment/repository.py:763) |
| `RepairReversed.cfg`, MCCollectorRuns | `live_collection_intervals` raises "finished before collection_started_at" (collection/boundaries.py:99-102), as for a row no process writes; a repair samples its time (recovery.py:74) before it has the lock (81), and in between the collector may pass its boundary and die without a heartbeat: the run is stale by its `started_at` and is finished at the older time (137, 178), after which the reports of its intervals raise. `EndsAfterBoundary` is the statement, `LiveIntervalsDisjoint` what the code gives |
| `FailedCommit.cfg`, MCTokenDiscovery | docs/discovery.md:82-85: a failed transaction discards no live event; the loop of the worker expects `DiscoverySourceError` only, so the collector stops with its memory (worker.py:73-90) |
| `LeaseExpiry.cfg`, MCArchive | docs/collector-v2-phase3-archival.md:238 a retry after lease expiry is safe; `_write_verified_manifest` (archival.py:1369) replaces the manifest without asking for the claim, and the catalogue keeps the digest of another |
| `OldEvidence.cfg`, MCCandidateEvaluation | docs/collector-v2-phase5-candidate-orchestration.md:81 "Old evidence cannot move the projection backwards"; a boost evaluation reads the row before it locks the token (candidates/service.py:300), and the locked row keeps the values read |
| `IdentityHole.cfg`, MCResearchDataset | docs/research-dataset-manifest.md: the identity covers all semantic inputs; candidate, tier and selective-security facts are not hashed (research/dataset.py:320-348) |

Differences that the models contain and that have no configuration:

- A boundary into `RETIRED_CONTROL` clears `next_due_at` even when work was due
  (scheduler.py:1240), against the comment at 1250: `DueObligationKept` is
  stated up to retirement.
- A reapplied state after a class boundary draws a new due time, which may be later
  than the existing one (scheduler.py:396), against docs/scheduler.md:35-38.
- A claim resets the raised priority of a candidate row and only completion
  restores it (scheduler.py:661), against the comment at 1646.
- A claim that slept behind the gate refreshes rows with its older time. When an overlay
  was withdrawn meanwhile (candidates/repository.py:272, 305), the row gets the class of
  the older time back: coverage may rejuvenate, hence `CoverageNeverRejuvenates`
  speaks of tokens that evaluations never cover.
- docs/collector-v2-scheduling-implementation.md:152 and docs/database.md:137 say that
  late work keeps its original due time. A row skipped because it was locked is
  redrawn by the next claim, which may have an older time, and an overlay with late
  evidence makes leased work due earlier: `OriginalDueKept` speaks of the other rows.
- Every page of a task is charged to the minute its run began in
  (security_enrichment/service.py:299): the provider budget bounds reservations
  by their own time, not the calls a minute really sees.
- The two boost loops share the metadata scope `boost_feed`: an answer that commits
  late hides a change back, against docs/collector-v2-phase2-enrichment.md:92
  "Returning to an earlier value is still" a new event. `HistoryExact` is stated
  of the scopes with one writer.
- After a restart a market context is derived again; if an answer of its bucket
  was committed meanwhile, the stored one contradicts it and the error stops the
  collector until the bucket has passed (`RejectContext`).
- `LostPollLeaseError` and `LifecycleEvaluationError` are expected by no loop: a slow
  worker or one failed evaluation stops the collector.
- Tier-3 rows of a finished epoch never leave that epoch's count; a new epoch has rows of
  its own.
- A scope stays `retention_eligible` after a later evaluation that fails
  (archive_catalog.py:444).
- `liquidity_survival` may be true without an endpoint (research/labels.py:174-183): it
  compares the last point of the path.

## 4. Proofs

Assumptions. Those of the modules, all of them evaluated by TLC: `PolicyAssumption`
(durations and thresholds are ordered as `_validate` demands), `SchedulerAssumption`
(positive settings, finite sets, effective intervals at least as long as the target
ones), `TaskAssumption`, `RunsAssumption`, `ArchiveAssumption`, `ResearchAssumption`,
`DatasetAssumption`, `DiscoveryAssumption`, `EvaluationAssumption`; the `Null` clauses
(`NullAssumption`, `DatasetNullAssumption`, a clause of the others) say that NULL is none of the values a column holds; `LoopAssumption`
says that no two loops of a process serve the same queue. One theorem has a hypothesis of its
own: `BudgetsStayKept` assumes `LeaseDuration >= Minute` (the default is 300 seconds; the
settings allow less, and `ShortLease.cfg` shows what happens then).

Every proof follows one pattern: a property of the run is not inductive, so it is
strengthened by what memory and columns have to do with each other; operators and actions
get effect lemmas; one lemma per action and per part of the invariant that it can
disturb; the action cases are put together under `Next`.

### Scheduler

- `PollSchedulerProofs` on the policy: `BoundaryAhead`, the boundary computed for a time lies
  strictly after it; `ClassesAge`, while state, admission and decision stay, a later time gives
  no hotter class.
- `PollSchedulerProofs!TypeCorrect`: a claim derives a class with `now`, so the
  proof needs that a worker that claims has a time and one that polls has a batch
  (`WorkerReady`), and that batch members have a row (`MembersAdmitted`).
- `RowsWaitForEvents` and `CoverageOnlyCools`. `RowSteps` reduces every action to the seven
  things a step may do to one row (`RowStep`: admitted, kept, claimed, finished, reapplied,
  woken, rebased). For the first, the end of the class is at or behind the boundary
  column, or the boundary has passed (`Watched`). For the second, a row without overlay has the
  class it earned at *some* time and waits for its end (`Aged`): a claim refreshes it
  with its own time only when the boundary has passed by that time, which lies after the
  time the class was earned (`BoundaryAhead`), and a later time cools (`ClassesAge`).
- The batches. All lease arguments need only four things an action can
  do to leases, batches and workers: take, finish, release, keep
  (`LeaseStep`); `LeaseSteps` shows that every action of `Next` is one of
  them, which separates the proof from coverage and overlays. The invariant
  `LeaseInv` has `LeaseMatchesOpenBatch` and, to make it inductive: outcomes
  belong to claimed batches (`OutcomesClaimed`); a batch some row was
  reclaimed from is never again the lease of that row (`ReclaimedForGood`,
  which implies `ReclaimedNeverCompletes`); two workers hold different batches
  (`PollersApart`), a polled batch has no outcome (`PollersOpen`), and the rows
  of a polled batch whose lease has not expired are still leased to it
  (`PollersOwn`, from which `OnePollerPerToken` follows). From it: `LeasesMatch`,
  `ReclaimedStaysOpen`, `PollersExclusive`, `InFlightLimited` and the refinement
  `SchedulerImplementsLeasedWork`.
- `BudgetsHold`: the capacity test of a claim counts batches up to the time it sampled,
  so it misses those of claims that sampled later. Once a minute holds as many batches
  as the budget, only the claims that sampled before (`Overtaken`) can add to it, each
  once; batches and such claims together stay below budget plus workers
  (`MinutesGuarded`).
- `PollsAreAccounted`: a completion adds its batch to the finished batches of a member
  and one to its count (`Counted`). For the due time, a leased row still has the due time
  its batch recorded, due when it was claimed, and its next boundary lies beyond that
  time (`Owed`): a refresh at the boundary then finds the work due and keeps it.
- `DueWorkStaysDue`: an action property; each action is examined with the time it
  carries (`StepTime`), which for a claim is its own, possibly older, time.

- `RotationPassesOverNobody`: a claim takes the head of an order by the last scan, so what
  it leaves behind was scanned no earlier than what it takes (`HeadOfRotation`). The property
  speaks of batches, the order of columns: `RotationInv` says that
  `last_control_scan_at` is the time of the last completed control poll (`ScanRecorded`), that
  only control batches hold a DORMANT row (`DormantRotates`), and that batches are numbered in
  the order of claims, so a row is held by the last batch it was in (`BatchesInOrder`). A late
  completion only adds a scan, and a scan counts for good (`ScannedForGood`).

### Task queues

- `EnrichmentTaskProofs`. Three moves: `Taken`, `Ended`, `LeasesKept`. A lease names a claim
  of that task which has not ended (`LeaseOpen`) and a worker past its claim holds a
  claim that was made, with the times its next steps use (`WorkersHold`): hence
  `EndedTasksFinal` and the refinement `TasksImplementLeasedWork`.
- `TasksStayConsistent` and `AttemptsStayBounded`: a deferral gives its attempt number
  back, so numbers repeat. A claim is void when it made no call and no worker holds it any more, and
  active otherwise; numbers are unique among the active claims of a task and never
  exceed its attempt count, which `max_attempts` bounds.
- `ProviderStaysInBudget`: reservations of a minute keep the budgets, each decided under the
  provider's lock with the run's own `now`, whatever minute that lies in.
- `BudgetsStayKept`: `claim_tasks` counts the tasks whose *last* claim lies in the minute. With a
  lease of a minute at least a task is out of reach for a minute after its claim
  (`OutOfReach`, `ClaimsSpread`), so claims of a minute are injectively tasks.
- `PromotionProofs!PromotionsConsistent`: the property speaks of tables only and is not
  inductive: whether a completion may promote depends on what the pass remembers.
  `AvailabilityInv` adds that a pass asks about rows that exist, that a security pass
  remembers the phase of every row still leased to its process (`PassesKnow`), and that only a row with a
  phase to come is due or leased (`PhaseAhead`). Then an owned availability row is pending,
  hence not promoted and without security task, and the snapshot an owned security pass
  inserts is the first of its phase.

### Candidate evaluation

`PromotionProofs`, from one inductive invariant `EvaluationInv`. It says of a transaction,
for the steps it still has to do, the locks it has and what it has read and written (`Sound`),
what the code establishes by the order of its statements. Steps are dropped, put in front or
cut at a savepoint; one lemma for each of these keeps the part of the invariant
that speaks of steps and locks (`Plan`), for batches of any size.

- `EvaluationsAreConsistent`: types, and the cap of deep review. A promotion is decided and
  written under the lock of the budget, which is held to the end of the transaction, and with
  the lock a transaction sees all rows in deep review but its own
  (`ReviewCounted`): hence its commit adds no more than it counted. Without the lock it only
  takes tokens out of deep review. A poll judges a token once and an abort inside a
  savepoint forgets writes and the lock together (`EvaluatedOnce`, `Savepoints`).
- `EvaluationsGoForward`: an action property of the scheduled and the security evaluations.
  They hold a lock of the token that excludes other evaluations from before they load its
  row to their commit (`StepsGuarded`, `LoadsLocked`), so what was loaded is still
  current (`StepKnown`), and what is decided goes forward from it (`StepForward`). A boost
  evaluation does not lock first; `OldEvidence.cfg` shows what follows.
- `TheFenceNeverDeadlocks`. A boost or a security transaction is about one token (`About`) and
  takes its locks in one order (`Ranked`), and scheduled and security evaluations hold the gate
  before anything else (`GateFirst`). While a security evaluation holds a lock, every other
  holder is therefore a boost (`GateKeepsOut`). When it waits for its token it only holds the
  gate, which no boost ever takes; when it waits for a lock behind the token, the boost that has
  it is about another token and has the wake-up lock, so whatever that boost would wait for is
  held by nobody (`HolderIsFree`). Whom it waits for thus never waits for it. Polls and
  boosts do deadlock (`lock_order`).

### Discovery

- `TokenDiscoveryProofs!MemoryStaysConsistent`. Memory is one sequence, kept in four parts
  (batch, put off, queue, waiting reader). A fetch cuts what waits and puts it together
  again: `TakenSplits`, `FetchKeeps` and `FetchRaisesDrops` say which sequence that gives, by
  facts about `\o` and `SubSeq` (`SplitJoins`, `CutBehind`). They need that less than a batch
  is put off (`Sequenced`), so that a fetch takes all of it. Every step then keeps the memory,
  appends to it, drops its first element, stores its batch, drops its batch or empties it.
  The property is not inductive: that a new record is numbered
  beyond the settled ones needs that nothing behind the batch is settled
  (`SettledBehind`).
- `OutagesStayMarked`. `OutageInv` adds that an outage has the number of its start and ends
  later (`EndsFollowStarts`), that only the open outage lacks its end (`GapsClosed`), and
  that an end is stored only with its start (`StoredInPairs`). A transaction keeps the
  first record of a key (`FirstIsStored`), and the start of an outage precedes its end in
  memory because memory is unbroken (`StoredWithStart`).

### Enrichment

- `UniversalEnrichmentProofs`: `HistoriesStayConsistent`, `CrossingsAlwaysAddUp`,
  `ContextsStayExplained`, from one inductive invariant `EnrichmentInv`. It assumes of an
  answer what the constants say: numbers or nothing, and a token at most once in a feed.
- Histories. The property looks at what is stored; it stays true because what a process
  holds is newer than anything stored in the scopes it alone writes (`HeldNewer`): the lease
  of a poll, the one request of a boost loop at a time and the clock see to that. A
  record that is written is then the latest of its scope (`RowsUnique` makes the latest
  one), and one that is not written says what the latest says.
- Crossings. A record adds events of its own time only, none of which lies between the
  `first_seen` and an earlier record; whether it is first, unchanged or a change of a metric,
  the crossings it adds are the difference of the sides (`AllAddUp`). Counting needs that a
  crossing is determined by its time, which makes the sets finite.
- Contexts. A context is recorded when its bucket is over, so all that will still be
  committed with a time before its end is held by a poll at that moment (`underway`). While
  nothing counted was committed late, the context is the same as computed now
  (`ContextSound`): hence a conflict needs a late commit. That the transitions of the mature
  cohort count as late although they are older than the bucket was found by this proof; with a
  cohort age shorter than the poll it cannot be observed.

### Runs, archive and datasets

- `CollectorRunsProofs`: `RunsStayConsistent`, `CollectorAlone`, `IntervalsDisjoint`,
  `RunEndsOnce`. `Base` holds always: of two runs one ended before the other was allowed to
  collect (`RunsApart`), a run is running as long as it has no end, a process that owns
  a run has one that was recorded. Two parts
  hold while no connection was lost. `LockGuards`: a process that is up, but for a repair
  that has only sampled its time, has the lock, and the run it owns is running.
  `EndsExplained`: a heartbeat is sent behind the boundary, and a run ends behind it unless
  it was repaired without a heartbeat: with one, its age is measured from it, so that the
  repair's time is later than the heartbeat and the boundary before it. A process that lost
  its lock writes only to a run that is still running, which is why the intervals stay
  disjoint all the same.
- `ArchiveProofs`: `ArchiveStaysConsistent`, `ArchiveComplete`, `EligibleHasCopy`,
  `ArchiveIsPermanent`. The invariant has a part that always holds (`Base`) and a part that
  needs every exporter to finish within its lease (`Guards`: the claim fences the one
  command at work, what the catalogue calls verified is the manifest the archive holds, and
  copies follow it), hence `~overtaken => Guards`. That counts agree only if no row was
  missed, and that published files and verified scopes keep what they have, needs no
  lease at all.
- `ResearchDatasetProofs`: `NothingFromTheFuture` rests on `AsOfKnown`: two histories that
  agree on what was received by a time give the same state of that time. The invariant says
  that a row is computed from the history its build read (`RowComputed`), and that the
  features of a past time are those of everything received until then
  (`LiveKept`). `LabelsStaySettled` rests on `HorizonSettles`: labels of a horizon depend
  only on what was received by its limit; the end point is the earliest fact of a window,
  which exists because the natural numbers are well-founded. `BothSourcesAgree`:
  an archive has the committed facts before its cutoff and none of these can
  still be open (`ArchiveWhole`). `DatasetsStayConsistent`: all rows of a token lie in the
  split of its admission. `PublishedStays`: an action property.

Only model-checked: liveness (`ShutdownCompletes`, `ReceivedIsSettled`, `ListedIsPromoted`).
The violations are TLC counterexamples by nature. Liveness, ENABLED and results of recursive
definitions for every input are out of the prover's reach.

## 5. Plan

1. (done) coverage policy, poll scheduler with its writers, lease proofs.
2. (done) candidate task queue and selective security enrichment, with proofs.
3. (done) collector runs, discovery, DEX availability, candidate evaluation with its
   locks, universal enrichment, archive, research datasets.
4. (done) proofs of the scheduler's rows, budgets and due times, of the task queue's attempts
   and budgets, of discovery, collector runs, archive, research datasets, universal enrichment
   and candidate evaluation: every invariant and action property that a
   passing run checks is a theorem.
5. Liveness of the scheduler: a due token is eventually polled while the process stays up.
6. Capacity planning over integers; evidence selection of the life-cycle classifier.

## 6. Not modelled

Parsing and normalisation of provider answers, HTTP clients and their rate limiter,
logging, telemetry, reporting, backup, the command line and the ORM declarations: they
keep no state of the protocols above. `plan_capacity` is floating-point arithmetic;
the scheduler takes any plan of `Plans`. Thresholds of the life-cycle and candidate
policies, and the arithmetic of features, medians and returns, are abstracted to the
choices they lead to. In archival: legacy version-1 archives, disk-space estimates
and analytics. In research: the validity and run boundaries of epochs and the quality
report. In discovery: the checkpoint of a replayable source, which the one source
there is never returns.
