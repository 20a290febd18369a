---------------------------- MODULE TokenDiscovery ----------------------------
(***************************************************************************)
(* The live discovery stream and its durable hand-off                      *)
(* (discovery/pumpportal.py, collection/discovery.py).                     *)
(*                                                                         *)
(* A reader task puts what it receives into a bounded queue, the worker's  *)
(* loop fetches bounded batches, stores each in one transaction and        *)
(* acknowledges it afterwards.  Outages of the connection travel through   *)
(* the same queue, so that the stored evidence says which part of the      *)
(* stream is missing.                                                      *)
(***************************************************************************)
EXTENDS Naturals, Sequences, SequencesExt

CONSTANTS
  Token,
  QueueCapacity,   \* pumpportal_queue_capacity
  BatchSize,       \* pumpportal_batch_size
  CallerRetries,   \* whether the caller of run_once may call again after a failure
  None,
  MaxEnvelopes, MaxStarts   \* bounds of the model

VARIABLES
  up,         \* the process runs and its source is open
  reader,     \* the reader task
  queue,      \* the asyncio queue
  deferred,   \* envelopes taken out of the queue but put off to the next fetch
  batch,      \* the fetched batch that is not acknowledged yet
  storing,    \* a transaction for the batch is open
  stored,     \* discovery events, rejected messages, connectivity events
  received,   \* number of envelopes made so far
  settled,    \* history: number of the last envelope stored or reported
  discarded,  \* history: envelopes lost because a transaction failed
  starts

vars == <<up, reader, queue, deferred, batch, storing, stored, received, settled,
          discarded, starts>>

\* What a message becomes: a creation, a payload PostgreSQL cannot hold, or a parse
\* failure; and the two ends of an outage.  An outage is known by its first envelope.
Message == [kind : {"token"}, of : Token] \cup [kind : {"rejected", "malformed"}, of : {None}]
Connectivity == [kind : {"disconnected", "reconnected"}, of : 1 .. MaxEnvelopes]
Envelope ==
  {[kind |-> m.kind, of |-> m.of, n |-> n] :
     m \in Message \cup Connectivity, n \in 1 .. MaxEnvelopes}
Reader ==
  [pc : {"none", "connecting", "connected"}, open_gap : 1 .. MaxEnvelopes \cup {None},
   putting : Envelope \cup {None}]
NoReader == [pc |-> "none", open_gap |-> None, putting |-> None]

ASSUME DiscoveryAssumption ==
  /\ QueueCapacity \in Nat \ {0} /\ BatchSize \in Nat \ {0}
  /\ CallerRetries \in BOOLEAN
  /\ MaxEnvelopes \in Nat /\ MaxStarts \in Nat
  /\ None \notin Token \cup Nat \cup Envelope

Holding == IF reader.putting = None THEN <<>> ELSE <<reader.putting>>
InMemory == batch \o deferred \o queue \o Holding

\* The queue, the batch and the memory of a process have their bounds and types, and a
\* stopped process holds nothing.
TypeOK ==
  /\ up \in BOOLEAN /\ storing \in BOOLEAN
  /\ reader \in Reader
  /\ Range(InMemory) \subseteq Envelope
  /\ Len(queue) <= QueueCapacity /\ Len(batch) <= BatchSize
  /\ stored \subseteq Envelope
  /\ settled <= received /\ received <= MaxEnvelopes
  /\ storing => batch # <<>>
  /\ ~up => InMemory = <<>> /\ reader = NoReader
-----------------------------------------------------------------------------
Init ==
  /\ up = FALSE
  /\ reader = NoReader
  /\ queue = <<>> /\ deferred = <<>> /\ batch = <<>>
  /\ storing = FALSE
  /\ stored = {}
  /\ received = 0 /\ settled = 0
  /\ discarded = {}
  /\ starts = 0

StartProcess ==
  /\ ~up
  /\ starts < MaxStarts
  /\ up' = TRUE
  /\ starts' = starts + 1
  /\ UNCHANGED <<reader, queue, deferred, batch, storing, stored, received, settled, discarded>>

\* The process ends: everything it holds is gone, and a restart finds no cursor.
Forget ==
  /\ up' = FALSE
  /\ reader' = NoReader
  /\ queue' = <<>> /\ deferred' = <<>> /\ batch' = <<>>
  /\ storing' = FALSE

Kill ==
  /\ up
  /\ Forget
  /\ settled' = received
  /\ UNCHANGED <<stored, received, discarded, starts>>

\* A graceful stop waits for run_once and then closes the source.
Stop ==
  /\ up /\ ~storing
  /\ Forget
  /\ settled' = received
  /\ UNCHANGED <<stored, received, discarded, starts>>
-----------------------------------------------------------------------------
(* The reader task.                                                        *)

HasRoom == Len(queue) < QueueCapacity

\* await queue.put: the reader waits while the queue is full.
Put(pc, gap, envelope) ==
  /\ received' = received + 1
  /\ IF HasRoom
     THEN /\ queue' = Append(queue, envelope)
          /\ reader' = [pc |-> pc, open_gap |-> gap, putting |-> None]
     ELSE /\ reader' = [pc |-> pc, open_gap |-> gap, putting |-> envelope]
          /\ UNCHANGED queue

MayPut == up /\ reader.putting = None /\ received < MaxEnvelopes
Numbered(kind, of) == [kind |-> kind, of |-> of, n |-> received + 1]

Unblock ==
  /\ reader.putting # None
  /\ HasRoom
  /\ queue' = Append(queue, reader.putting)
  /\ reader' = [reader EXCEPT !.putting = None]
  /\ UNCHANGED <<up, deferred, batch, storing, stored, received, settled, discarded, starts>>

\* Mutation of Connected: the gap is closed without its second event.
ConnectedQuietly ==
  /\ reader' = [pc |-> "connected", open_gap |-> None, putting |-> None]
  /\ UNCHANGED <<queue, received>>
\* Subscribed again: the end of the open gap precedes everything received after it.
Connected ==
  IF reader.open_gap = None
  THEN /\ reader' = [reader EXCEPT !.pc = "connected"]
       /\ UNCHANGED <<queue, received>>
  ELSE Put("connected", None, Numbered("reconnected", reader.open_gap))

Connect ==
  /\ MayPut
  /\ reader.pc = "connecting"
  /\ Connected
  /\ UNCHANGED <<up, deferred, batch, storing, stored, settled, discarded, starts>>

\* A message arrives; the acknowledgement of the subscription makes no envelope.
Receive(message) ==
  /\ MayPut
  /\ reader.pc = "connected"
  /\ Put("connected", None, Numbered(message.kind, message.of))
  /\ UNCHANGED <<up, deferred, batch, storing, stored, settled, discarded, starts>>

\* The connection fails, or cannot be made.  One event marks the whole outage, however
\* often the connection is tried: later failures change nothing and are left out.
Disconnect ==
  /\ MayPut
  /\ reader.pc \in {"connecting", "connected"}
  /\ reader.open_gap = None
  /\ Put("connecting", received + 1, Numbered("disconnected", received + 1))
  /\ UNCHANGED <<up, deferred, batch, storing, stored, settled, discarded, starts>>
-----------------------------------------------------------------------------
(* fetch: the loop of the worker takes a batch.                            *)

Waiting == deferred \o queue
Taken == SubSeq(Waiting, 1, Min({BatchSize, Len(Waiting)}))
\* Position of the first parse failure among the envelopes taken, 0 when there is none.
FirstFailure == SelectInSeq(Taken, LAMBDA envelope : envelope.kind = "malformed")

\* Mutation of PutBack: the failure itself is put back although it is raised.
PutBackAll(failure) == IF failure = 0 THEN <<>> ELSE SubSeq(Taken, failure, Len(Taken))
\* A failure with content before it waits for the next fetch, together with what
\* follows it; without, it is raised and only the rest is put back.
PutBack(failure) ==
  IF failure = 0 THEN <<>>
  ELSE SubSeq(Taken, IF failure = 1 THEN 2 ELSE failure, Len(Taken))

StillDeferred == SubSeq(deferred, Len(Taken) + 1, Len(deferred))

\* The reader is created by the first fetch.
EnsureReader ==
  /\ up /\ reader.pc = "none"
  /\ reader' = [NoReader EXCEPT !.pc = "connecting"]
  /\ UNCHANGED <<up, queue, deferred, batch, storing, stored, received, settled,
                 discarded, starts>>

TakeEnvelopes ==
  /\ queue' = SubSeq(queue, Len(Taken) - Len(deferred) + 1, Len(queue))
  /\ deferred' = PutBack(FirstFailure) \o StillDeferred

\* The failure is the first of the batch: fetch raises it, and the loop goes on.
FetchRaises ==
  /\ up /\ ~storing /\ batch = <<>> /\ Waiting # <<>>
  /\ FirstFailure = 1
  /\ TakeEnvelopes
  /\ settled' = Taken[1].n
  /\ UNCHANGED <<up, reader, batch, storing, stored, received, discarded, starts>>

FetchBatch ==
  /\ up /\ ~storing /\ batch = <<>> /\ Waiting # <<>>
  /\ FirstFailure # 1
  /\ TakeEnvelopes
  /\ batch' = IF FirstFailure = 0 THEN Taken ELSE SubSeq(Taken, 1, FirstFailure - 1)
  /\ storing' = TRUE
  /\ UNCHANGED <<up, reader, stored, received, settled, discarded, starts>>

\* A batch that was never acknowledged is fetched again, unchanged.
FetchAgain ==
  /\ up /\ ~storing /\ batch # <<>>
  /\ storing' = TRUE
  /\ UNCHANGED <<up, reader, queue, deferred, batch, stored, received, settled,
                 discarded, starts>>
-----------------------------------------------------------------------------
(* run_once: one transaction for the whole batch, then the acknowledgement. *)

\* What the idempotency key of an envelope is made of: the creation of a token is
\* recorded once, an end of an outage once, a rejected message once per receipt.
Key(envelope) ==
  CASE envelope.kind = "token" -> <<"token", envelope.of>>
    [] envelope.kind = "rejected" -> <<"rejected", envelope.n>>
    [] OTHER -> <<envelope.kind, envelope.of>>
KnownKeys == {Key(e) : e \in stored}
\* on_conflict_do_nothing: the first record of a key stays.
Fresh == {i \in 1 .. Len(batch) :
            /\ Key(batch[i]) \notin KnownKeys
            /\ \A j \in 1 .. i - 1 : Key(batch[j]) # Key(batch[i])}

StoreBatch ==
  /\ stored' = stored \cup {batch[i] : i \in Fresh}
  /\ settled' = batch[Len(batch)].n

Commit ==
  /\ storing
  /\ StoreBatch
  /\ storing' = FALSE
  /\ batch' = <<>>
  /\ UNCHANGED <<up, reader, queue, deferred, received, discarded, starts>>

\* The transaction fails, or it commits and its caller is told that it failed.
CommitUnknown == StoreBatch \/ UNCHANGED <<stored, settled>>

\* Mutation of KeepsBatch: a failed batch is given up.
KeepsBatchNot == batch' = <<>>
KeepsBatch == UNCHANGED batch

CommitFails ==
  /\ storing
  /\ CallerRetries
  /\ CommitUnknown
  /\ KeepsBatch
  /\ storing' = FALSE
  /\ UNCHANGED <<up, reader, queue, deferred, received, discarded, starts>>

\* The loop of the worker does not expect the error: it stops the whole collector.
CommitFailureStops ==
  /\ storing
  /\ stored' \in {stored, stored \cup {batch[i] : i \in Fresh}}
  /\ discarded' = discarded \cup (Range(InMemory) \ stored')
  /\ Forget
  /\ settled' = received
  /\ UNCHANGED <<received, starts>>
-----------------------------------------------------------------------------
ReaderStep ==
  \/ Unblock \/ Connect \/ Disconnect
  \/ \E message \in Message : Receive(message)
Fetch == EnsureReader \/ FetchRaises \/ FetchBatch \/ FetchAgain
Stops == Kill \/ Stop \/ CommitFailureStops

Next == StartProcess \/ ReaderStep \/ Fetch \/ Commit \/ CommitFails \/ Stops

Spec == Init /\ [][Next]_vars

\* The event loop runs the reader's put and the worker's loop again and again, and the
\* database accepts a transaction that is tried again and again.
FairSpec == Spec /\ WF_vars(Unblock) /\ WF_vars(Fetch) /\ SF_vars(Commit)
-----------------------------------------------------------------------------
(* Properties.                                                             *)

\* Nothing a living process received is lost, stored twice or overtaken: whatever
\* batches failed, were put off or fetched again, its memory is the unbroken end of
\* what it received, and all before it is stored or was raised.
MemoryUnbroken ==
  /\ \A i \in 1 .. Len(InMemory) : InMemory[i].n = received - Len(InMemory) + i
  /\ settled >= received - Len(InMemory)
  /\ \A e \in stored : e.n <= settled

\* The queue, the batch and the reader keep their bounds and types, and nothing in memory
\* is lost or out of order.
MemoryConsistent == TypeOK /\ MemoryUnbroken

Marked(kind, gap) ==
  \E e \in stored \cup Range(InMemory) : e.kind = kind /\ e.of = gap

\* No outage goes unmarked: while a process is disconnected the start of the outage is
\* stored or on its way, no message is received after an outage whose end is not, and
\* the end is never stored before the start.  Hence the stored events bracket every part
\* of the stream that may be missing.
OutagesMarked ==
  /\ reader.open_gap # None => Marked("disconnected", reader.open_gap)
  /\ reader.pc = "connected" => reader.open_gap = None
  /\ \A gap \in 1 .. received : Marked("reconnected", gap) => Marked("disconnected", gap)
  /\ reader.pc = "connected" =>
       \A e \in Range(InMemory) : e.kind = "disconnected" => Marked("reconnected", e.of)
  /\ \A e \in stored : e.kind = "reconnected" =>
       \E d \in stored : d.kind = "disconnected" /\ d.of = e.of /\ d.n < e.n

\* Whatever a process received is stored, or raised when it cannot be parsed, unless
\* the process ends first: the settled number grows to what was received.
ReceivedIsSettled ==
  \A n \in 1 .. MaxEnvelopes : (up /\ received >= n) ~> (settled >= n)

\* docs/discovery.md:82-85: a batch is redelivered until its transaction commits, so
\* that a transient database failure discards no live event.
FailureDiscardsNothing == discarded = {}
=============================================================================
