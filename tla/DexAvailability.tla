---------------------------- MODULE DexAvailability ----------------------------
(***************************************************************************)
(* From a discovered token to its first market poll and its finite mint    *)
(* security snapshots (collection/dex_availability.py, the task            *)
(* repositories of persistence/repositories.py and enrichment.py,          *)
(* collection/security.py).                                                *)
(*                                                                         *)
(* Both queues lease rows to the loops of a collector.  Two processes may  *)
(* run the loops, one of them left over after it lost its lock.  Time is   *)
(* abstract: a waiting row becomes due and a lease expires at any time.    *)
(***************************************************************************)
EXTENDS Naturals, FiniteSets

CONSTANTS
  Token, Process, Chain,
  Loop,            \* the loops that run, each of a process and with the queues it serves
  ChainOf(_),      \* the chain of a token
  SecurityPhases,  \* number of snapshots per token: _SECURITY_PHASE_DELAYS and one
  None

VARIABLES
  listed,     \* external: the tokens with a pair on a DEX
  task,       \* dex_availability_tasks
  security,   \* token_security_tasks
  lifecycle,  \* lifecycle_events of the admission: how many of each new state
  schedule,   \* the tokens with a market poll obligation
  snapshot,   \* token_security_snapshots: how many per token and phase
  pass      \* the pass every loop is in

vars == <<listed, task, security, lifecycle, schedule, snapshot, pass>>

Kind == {"dex", "security"}
Lease == [lease_id : Process \cup {None}, expired : BOOLEAN, due : BOOLEAN]
TaskRow == [state : {"PENDING_DEX", "NEW"}, work : Lease]
SecurityRow == [phase : 0 .. SecurityPhases, work : Lease]
Pass ==
  [pc : {"idle", "asking", "answered"}, kind : Kind \cup {None}, claims : SUBSET Token,
   phase : [Token -> 0 .. SecurityPhases], batch : SUBSET Token, present : SUBSET Token]
Idle == [pc |-> "idle", kind |-> None, claims |-> {}, phase |-> [t \in Token |-> 0],
         batch |-> {}, present |-> {}]

ASSUME AvailabilityAssumption ==
  /\ Loop \subseteq [process : Process, kinds : SUBSET Kind]
  /\ SecurityPhases \in Nat \ {0}
  /\ \A t \in Token : ChainOf(t) \in Chain
  /\ None \notin Process \cup Token \cup Kind \cup TaskRow \cup SecurityRow

\* claim_due gives every pass a lease_id of its own; here the process names it, for a process
\* has one pass at a time in a queue.
ASSUME LoopAssumption ==
  \A l, m \in Loop : l.process = m.process /\ l # m => l.kinds \cap m.kinds = {}

Counter == 0 .. 2   \* more than one is already wrong

\* Rows and passes have the types of their tables, and
\* ck_dex_availability_tasks_lease_pair holds: an unleased row has no expiry.
TypeOK ==
  /\ listed \subseteq Token /\ schedule \subseteq Token
  /\ task \in [Token -> TaskRow \cup {None}]
  /\ security \in [Token -> SecurityRow \cup {None}]
  /\ lifecycle \in [Token -> [{"PENDING_DEX", "NEW"} -> Counter]]
  /\ snapshot \in [Token -> [0 .. SecurityPhases - 1 -> Counter]]
  /\ pass \in [Loop -> Pass]
  /\ \A t \in Token :
       /\ task[t] # None /\ task[t].work.lease_id = None => ~task[t].work.expired
       /\ security[t] # None /\ security[t].work.lease_id = None
            => ~security[t].work.expired

Due == [lease_id |-> None, expired |-> FALSE, due |-> TRUE]
Counted(count) == IF count = 2 THEN 2 ELSE count + 1
-----------------------------------------------------------------------------
Init ==
  /\ listed = {}
  /\ task = [t \in Token |-> None]
  /\ security = [t \in Token |-> None]
  /\ lifecycle = [t \in Token |-> [s \in {"PENDING_DEX", "NEW"} |-> 0]]
  /\ schedule = {}
  /\ snapshot = [t \in Token |-> [p \in 0 .. SecurityPhases - 1 |-> 0]]
  /\ pass = [l \in Loop |-> Idle]

\* External: a pair of the token appears.
ListToken(t) ==
  /\ t \notin listed
  /\ listed' = listed \cup {t}
  /\ UNCHANGED <<task, security, lifecycle, schedule, snapshot, pass>>

Pending == [state |-> "PENDING_DEX", work |-> Due]
\* Mutation of PendingIfAbsent: the insert replaces the row.
PendingUpsert(t) == Pending
\* create_pending_if_absent.
PendingIfAbsent(t) == IF task[t] = None THEN Pending ELSE task[t]

\* admit_discovery_in_session, for the first and for every repeated delivery.
Admit(t) ==
  /\ task' = [task EXCEPT ![t] = PendingIfAbsent(t)]
  /\ lifecycle' = IF task[t] = None
                  THEN [lifecycle EXCEPT ![t]["PENDING_DEX"] = Counted(@)] ELSE lifecycle
  /\ UNCHANGED <<listed, security, schedule, snapshot, pass>>
-----------------------------------------------------------------------------
(* Time: next_check_at and next_due_at are reached, leases expire.         *)

BecomesDue(t) ==
  \/ /\ task[t] # None /\ task[t].state = "PENDING_DEX" /\ ~task[t].work.due
     /\ task' = [task EXCEPT ![t].work.due = TRUE]
     /\ UNCHANGED <<listed, security, lifecycle, schedule, snapshot, pass>>
  \/ /\ security[t] # None /\ security[t].phase < SecurityPhases /\ ~security[t].work.due
     /\ security' = [security EXCEPT ![t].work.due = TRUE]
     /\ UNCHANGED <<listed, task, lifecycle, schedule, snapshot, pass>>

LeaseExpires(t) ==
  \/ /\ task[t] # None /\ task[t].work.lease_id # None /\ ~task[t].work.expired
     /\ task' = [task EXCEPT ![t].work.expired = TRUE]
     /\ UNCHANGED <<listed, security, lifecycle, schedule, snapshot, pass>>
  \/ /\ security[t] # None /\ security[t].work.lease_id # None /\ ~security[t].work.expired
     /\ security' = [security EXCEPT ![t].work.expired = TRUE]
     /\ UNCHANGED <<listed, task, lifecycle, schedule, snapshot, pass>>
-----------------------------------------------------------------------------
(* A pass: claim, ask the provider, complete.                              *)

\* Mutation of Free: a lease that ran out is not taken back.
FreeNever(work) == work.lease_id = None
Free(work) == work.lease_id = None \/ work.expired
Claimable(kind) ==
  IF kind = "dex"
  THEN {t \in Token : /\ task[t] # None /\ task[t].state = "PENDING_DEX"
                      /\ task[t].work.due /\ Free(task[t].work)}
  ELSE {t \in Token : /\ security[t] # None
                      /\ security[t].work.due /\ Free(security[t].work)}

Leased(p, work) == [work EXCEPT !.lease_id = p, !.expired = FALSE]

\* SecurityClaim.phase.
ClaimedPhase(kind, claims) ==
  [t \in Token |-> IF kind = "security" /\ t \in claims THEN security[t].phase ELSE 0]

\* claim_due: the limits of 30 and 100 rows exceed the tokens of the model.
ClaimDue(l, kind) ==
  LET claims == Claimable(kind)
      leased(rows) ==
        [t \in Token |-> IF t \in claims THEN [rows[t] EXCEPT !.work = Leased(l.process, @)]
                                          ELSE rows[t]]
  IN  /\ pass[l].pc = "idle" /\ kind \in l.kinds
      /\ claims # {}
      /\ pass' = [pass EXCEPT ![l] =
                    [Idle EXCEPT !.pc = "asking", !.kind = kind, !.claims = claims,
                                 !.phase = ClaimedPhase(kind, claims)]]
      /\ task' = IF kind = "dex" THEN leased(task) ELSE task
      /\ security' = IF kind = "security" THEN leased(security) ELSE security
      /\ UNCHANGED <<listed, lifecycle, schedule, snapshot>>

\* The chains of an availability pass are asked for one after the other; the accounts
\* of a security pass all at once.
Batches(l) ==
  IF pass[l].kind = "security" THEN {pass[l].claims}
  ELSE {{t \in pass[l].claims : ChainOf(t) = c} : c \in {ChainOf(t) : t \in pass[l].claims}}

Answered(l, batch, present) ==
  /\ pass' = [pass EXCEPT ![l].pc = "answered", ![l].batch = batch, ![l].present = present]
  /\ UNCHANGED <<listed, task, security, lifecycle, schedule, snapshot>>

\* The provider answers.  Of accounts, those that are missing or cannot be decoded are
\* recorded like the others.
Answer(l, batch) ==
  /\ pass[l].pc = "asking" /\ batch \in Batches(l)
  /\ Answered(l, batch, IF pass[l].kind = "dex" THEN listed \cap batch ELSE batch)

\* The request fails, or its answer does not match the claims.
AnswerFails(l, batch) ==
  /\ pass[l].pc = "asking" /\ batch \in Batches(l)
  /\ Answered(l, batch, {})

Mine(l, t) ==
  IF pass[l].kind = "dex"
  THEN task[t].work.lease_id = l.process /\ task[t].state = "PENDING_DEX"
  ELSE security[t].work.lease_id = l.process
\* _complete and complete: the expiry of the lease is not asked for, only its owner.
Owns(l) == \A t \in pass[l].batch : Mine(l, t)

\* A completed row has no lease, and is due later or not at all.
Released(work) == [lease_id |-> None, expired |-> FALSE, due |-> FALSE]

\* What is left of the pass after a batch.
Continue(l) ==
  LET rest == pass[l].claims \ pass[l].batch
  IN  pass' = [pass EXCEPT ![l] =
        IF rest = {} THEN Idle
        ELSE [Idle EXCEPT !.pc = "asking", !.kind = pass[l].kind, !.claims = rest]]

\* TokenSecurityTaskRepository.create_if_absent for every promoted token.
NewObligations(present) ==
  [t \in Token |-> IF t \in present /\ security[t] = None
                   THEN [phase |-> 0, work |-> Due] ELSE security[t]]

\* One transaction for the answer of a chain: absent tokens wait for their retry,
\* present ones become NEW with their security task and their first market poll.
CompleteDex(l) ==
  /\ pass[l].pc = "answered" /\ pass[l].kind = "dex"
  /\ Owns(l)
  /\ task' = [t \in Token |->
       IF t \notin pass[l].batch THEN task[t]
       ELSE [state |-> IF t \in pass[l].present THEN "NEW" ELSE "PENDING_DEX",
             work |-> Released(task[t].work)]]
  /\ security' = NewObligations(pass[l].present)
  /\ lifecycle' = [t \in Token |-> IF t \in pass[l].present
                     THEN [lifecycle[t] EXCEPT !["NEW"] = Counted(@)] ELSE lifecycle[t]]
  /\ schedule' = schedule \cup pass[l].present
  /\ Continue(l)
  /\ UNCHANGED <<listed, snapshot>>

\* One transaction for the accounts: a snapshot per token and phase, then the next phase.
CompleteSecurity(l) ==
  /\ pass[l].pc = "answered" /\ pass[l].kind = "security"
  /\ Owns(l)
  /\ security' = [t \in Token |->
       IF t \notin pass[l].batch THEN security[t]
       ELSE [phase |-> IF t \in pass[l].present THEN security[t].phase + 1 ELSE security[t].phase,
             work |-> Released(security[t].work)]]
  /\ snapshot' = [t \in Token |-> IF t \in pass[l].present
       THEN [snapshot[t] EXCEPT ![pass[l].phase[t]] = Counted(@)] ELSE snapshot[t]]
  /\ Continue(l)
  /\ UNCHANGED <<listed, task, lifecycle, schedule>>

Complete(l) == CompleteDex(l) \/ CompleteSecurity(l)

\* A row of the batch belongs to another by now: the transaction is rolled back, the
\* error ends the collector of this pass, and its other leases run out.
LeaseLost(l) ==
  /\ pass[l].pc = "answered"
  /\ ~Owns(l)
  /\ pass' = [pass EXCEPT ![l] = Idle]
  /\ UNCHANGED <<listed, task, security, lifecycle, schedule, snapshot>>

\* The process dies, at any point of a pass.
Kill(l) ==
  /\ pass[l].pc # "idle"
  /\ pass' = [pass EXCEPT ![l] = Idle]
  /\ UNCHANGED <<listed, task, security, lifecycle, schedule, snapshot>>
-----------------------------------------------------------------------------
PassStep(l) ==
  \/ \E kind \in Kind : ClaimDue(l, kind)
  \/ \E batch \in Batches(l) : Answer(l, batch) \/ AnswerFails(l, batch)
  \/ Complete(l) \/ LeaseLost(l)

Next ==
  \/ \E t \in Token : ListToken(t) \/ Admit(t) \/ BecomesDue(t) \/ LeaseExpires(t)
  \/ \E l \in Loop : PassStep(l) \/ Kill(l)

Spec == Init /\ [][Next]_vars

\* Time passes; every queue has its loop, and a pass goes on, for every request ends with an
\* answer or its timeout.  A provider that is asked about a token again and again answers
\* again and again, often enough to a process that still has its lease and lives to commit.
AnswerInTime(t) ==
  \E l \in Loop : \E batch \in Batches(l) :
    t \in batch /\ Answer(l, batch) /\ (\A u \in batch : Mine(l, u))
CompleteInTime(t) == \E l \in Loop : t \in pass[l].present /\ Complete(l)
FairSpec ==
  /\ Spec
  /\ \A t \in Token :
       /\ WF_vars(BecomesDue(t) \/ LeaseExpires(t))
       /\ SF_vars(AnswerInTime(t)) /\ SF_vars(CompleteInTime(t))
  /\ \A l \in Loop : WF_vars(PassStep(l))
  /\ \A kind \in Kind : SF_vars(\E l \in Loop : ClaimDue(l, kind))
-----------------------------------------------------------------------------
(* Properties.                                                             *)

Promoted == {t \in Token : task[t] # None /\ task[t].state = "NEW"}

\* docs/dex_availability.md: no path commits NEW while losing the obligations that go
\* with it, and however often a token is delivered or answered for, it is promoted
\* once: task, lifecycle, schedule and security task always agree.
PromotionComplete ==
  \A t \in Token :
    /\ t \in Promoted <=> t \in schedule
    /\ t \in Promoted <=> security[t] # None
    /\ lifecycle[t]["NEW"] = IF t \in Promoted THEN 1 ELSE 0
    /\ lifecycle[t]["PENDING_DEX"] = IF task[t] = None THEN 0 ELSE 1

\* Every phase of a token has one snapshot, whatever late or killed pass asked for it.
SnapshotPerPhase ==
  \A t \in Token : \A p \in 0 .. SecurityPhases - 1 :
    snapshot[t][p] = IF security[t] # None /\ security[t].phase > p THEN 1 ELSE 0

\* Tasks, leases and obligations have their types, a promotion is complete, and a phase has
\* one snapshot.
PromotionConsistent == TypeOK /\ PromotionComplete /\ SnapshotPerPhase

\* A token that is admitted and listed reaches its market polls and all its snapshots,
\* whatever happens to single passes.
ListedIsPromoted ==
  \A t \in Token :
    (task[t] # None /\ t \in listed)
      ~> (t \in Promoted /\ security[t].phase = SecurityPhases)
=============================================================================
