------------------------ MODULE ResearchDatasetProofs ------------------------
(* What a dataset contains was known at its decisions, what it labels       *)
(* settles, and what is published stays.                                    *)
EXTENDS ResearchDataset, WellFoundedInduction, TLAPS

(* A state, its features and its labels depend on a part of the history.    *)

LEMMA ReceivedKnown ==
  ASSUME NEW h, NEW g, NEW time, KnownAt(h, time) = KnownAt(g, time), NEW family
  PROVE  Received(h, family, time) = Received(g, family, time)
<1>1. /\ Received(h, family, time) = {f \in KnownAt(h, time) : f.family = family}
      /\ Received(g, family, time) = {f \in KnownAt(g, time) : f.family = family}
  BY DEF Received, Of, KnownAt
<1>. QED
  BY <1>1

\* Two histories that agree on what was received by the decision give the same state.
LEMMA AsOfKnown ==
  ASSUME NEW h, NEW g, NEW time, KnownAt(h, time) = KnownAt(g, time)
  PROVE  AsOf(h, time) = AsOf(g, time)
<1>1. /\ Received(h, "observation", time) = Received(g, "observation", time)
      /\ Received(h, "boost", time) = Received(g, "boost", time)
      /\ Received(h, "discovery", time) = Received(g, "discovery", time)
      /\ Received(h, "lifecycle", time) = Received(g, "lifecycle", time)
      /\ Received(h, "coverage", time) = Received(g, "coverage", time)
      /\ Received(h, "candidate", time) = Received(g, "candidate", time)
      /\ Received(h, "tier", time) = Received(g, "tier", time)
      /\ Received(h, "pair_fact", time) = Received(g, "pair_fact", time)
      /\ Received(h, "metadata", time) = Received(g, "metadata", time)
      /\ Received(h, "security", time) = Received(g, "security", time)
      /\ Received(h, "selective", time) = Received(g, "selective", time)
      /\ Received(h, "context", time) = Received(g, "context", time)
  BY ReceivedKnown
<1>2. /\ Lifecycle(h, time) = Lifecycle(g, time)
      /\ InEffect(h, time) = InEffect(g, time)
      /\ Decided(h, "candidate", time) = Decided(g, "candidate", time)
      /\ Decided(h, "tier", time) = Decided(g, "tier", time)
      /\ ClosedBuckets(h, time) = ClosedBuckets(g, time)
      /\ Selective(h, time) = Selective(g, time)
  BY <1>1 DEF Lifecycle, InEffect, Decided, ClosedBuckets, Selective
<1>3. Admissions(h, time) = Admissions(g, time)
  BY <1>2 DEF Admissions
<1>. QED
  BY <1>1, <1>2, <1>3 DEF AsOf

LEMMA LeastExists ==
  ASSUME NEW S \in SUBSET Nat, S # {}
  PROVE  Least(S) \in S /\ \A k \in S : Least(S) <= k
<1>1. PICK n \in S : \A k \in S : <<k, n>> \notin OpToRel(<, Nat)
  BY NatLessThanWellFounded, WFMin, Zenon
<1>2. \A k \in S : ~ (k < n)
  BY <1>1, Zenon DEF OpToRel
<1>3. \A k \in S : n <= k
  BY <1>2
<1>. QED
  BY <1>3 DEF Least

\* Of facts there is one received first.
LEMMA EarliestExists ==
  ASSUME NEW S, \A f \in S : IsFact(f), S # {}
  PROVE  Earliest(S) \in S
<1>1. \A f \in S : f.at \in Nat /\ f.id \in Nat
  BY DEF IsFact
<1>. DEFINE times == {f.at : f \in S}
            first == {f \in S : f.at = Least(times)}
            ids == {f.id : f \in first}
<1>2. Least(times) \in times /\ \A k \in times : Least(times) <= k
  <2>1. times \in SUBSET Nat /\ times # {}
    BY <1>1
  <2>. HIDE DEF times
  <2>. QED
    BY <2>1, LeastExists
<1>3. \A f \in S : Least(times) <= f.at
  BY <1>2
<1>4. first # {} /\ first \subseteq S
  BY <1>2
<1>5. Least(ids) \in ids /\ \A k \in ids : Least(ids) <= k
  <2>1. ids \in SUBSET Nat /\ ids # {}
    BY <1>1, <1>4
  <2>. HIDE DEF ids
  <2>. QED
    BY <2>1, LeastExists
<1>6. PICK e \in first : e.id = Least(ids)
  BY <1>5
<1>7. \A g \in first : e.id <= g.id
  BY <1>5, <1>6
<1>8. e \in S /\ e.at = Least(times)
  BY <1>6
<1>. HIDE DEF times
<1>9. \A g \in S : e.at <= g.at /\ (g.at = e.at => e.id <= g.id)
  BY <1>3, <1>7, <1>8
<1>. HIDE DEF first, ids
<1>10. ASSUME NEW g \in S PROVE AtLeast(ByReceipt(g), ByReceipt(e))
  <2>1. g.at \in Nat /\ e.at \in Nat /\ g.id \in Nat /\ e.id \in Nat
    BY <1>1, <1>8
  <2>2. CASE g.at > e.at
    <3>1. /\ 1 \in DOMAIN ByReceipt(g) /\ ByReceipt(g)[1] > ByReceipt(e)[1]
          /\ \A j \in 1 .. 0 : ByReceipt(g)[j] = ByReceipt(e)[j]
      BY <2>2 DEF ByReceipt
    <3>. QED
      BY <3>1 DEF AtLeast
  <2>3. CASE g.at = e.at /\ g.id > e.id
    <3>1. /\ 2 \in DOMAIN ByReceipt(g) /\ ByReceipt(g)[2] > ByReceipt(e)[2]
          /\ \A j \in 1 .. 1 : ByReceipt(g)[j] = ByReceipt(e)[j]
      BY <2>3 DEF ByReceipt
    <3>. QED
      BY <3>1 DEF AtLeast
  <2>4. CASE g.at = e.at /\ g.id = e.id
    BY <2>4 DEF AtLeast, ByReceipt
  <2>. QED
    BY <1>9, <2>1, <2>2, <2>3, <2>4
<1>11. Earliest(S) = CHOOSE f \in S : \A g \in S : AtLeast(ByReceipt(g), ByReceipt(f))
  BY DEF Earliest
<1>. QED
  BY <1>8, <1>10, <1>11

LEMMA FactsAreFacts == \A f \in Fact : IsFact(f) /\ f.at \in Nat
  BY DatasetAssumption DEF IsFact

\* Once everything was received that may count for a horizon, its labels are settled.
LEMMA HorizonSettles ==
  ASSUME NEW h \in SUBSET Fact, NEW g \in SUBSET Fact, NEW state, state.time \in Nat,
         NEW horizon \in Horizons,
         KnownAt(h, PathLimit(state, horizon)) = KnownAt(g, PathLimit(state, horizon))
  PROVE  HorizonLabels(h, state, horizon) = HorizonLabels(g, state, horizon)
<1>. DEFINE limit == PathLimit(state, horizon)
<1>1. limit \in Nat
  BY ResearchAssumption DEF PathLimit
<1>2. \A f \in h \cup g : f.at \in Nat
  BY FactsAreFacts
<1>3. \A f : f.at <= limit => (f \in h <=> f \in g)
  BY DEF KnownAt
<1>. HIDE DEF limit
<1>4. Path(Future(h, state), state, horizon) = Path(Future(g, state), state, horizon)
  BY <1>3 DEF Path, Future, Of, limit
<1>5. Endpoint(Future(h, state), state, horizon) = Endpoint(Future(g, state), state, horizon)
  <2>1. {f \in Future(h, state) : f.at \in state.time + horizon .. limit}
          = {f \in Future(g, state) : f.at \in state.time + horizon .. limit}
    BY <1>3 DEF Future, Of
  <2>. QED
    BY <2>1 DEF Endpoint, limit
<1>6. LifecycleAt(h, Endpoint(Future(h, state), state, horizon))
        = LifecycleAt(g, Endpoint(Future(h, state), state, horizon))
  <2>. DEFINE S == {f \in Future(h, state) : f.at \in state.time + horizon .. limit}
              endpoint == Endpoint(Future(h, state), state, horizon)
  <2>1. endpoint = Earliest(S)
    BY DEF Endpoint, limit
  <2>2. CASE endpoint = None
    BY <2>2 DEF LifecycleAt
  <2>3. CASE endpoint # None
    <3>1. S # {}
      BY <2>1, <2>3 DEF Earliest
    <3>2. \A f \in S : IsFact(f) /\ f.at <= limit /\ f.at \in Nat
      BY <1>1, <1>2, FactsAreFacts DEF Future, Of
    <3>. HIDE DEF S
    <3>3. endpoint \in S
      BY <2>1, <3>1, <3>2, EarliestExists
    <3>4. endpoint.at <= limit /\ endpoint.at \in Nat
      BY <3>2, <3>3
    <3>. HIDE DEF endpoint
    <3>5. Lifecycle(h, endpoint.at) = Lifecycle(g, endpoint.at)
      <4>1. \A f \in h \cup g : f.at <= endpoint.at => f.at <= limit
        BY <1>1, <1>2, <3>4
      <4>. QED
        BY <1>3, <4>1 DEF Lifecycle, Received, Of
    <3>. QED
      BY <2>3, <3>5 DEF LifecycleAt, endpoint
  <2>. QED
    BY <2>2, <2>3
<1>. QED
  BY <1>4, <1>5, <1>6 DEF HorizonLabels

\* Who knows more sees every crossing and every collapse that was seen.
LEMMA CrossingsStay ==
  ASSUME NEW h, NEW g, h \subseteq g, NEW state, NEW horizon
  PROVE  LET old == HorizonLabels(h, state, horizon)
             new == HorizonLabels(g, state, horizon)
         IN  /\ old.crossed_up = "TRUE" => new.crossed_up = "TRUE"
             /\ old.collapse = "TRUE" => new.collapse = "TRUE"
<1>. DEFINE path(k) == Path(Future(k, state), state, horizon)
            complete(k) == /\ Endpoint(Future(k, state), state, horizon) # None
                           /\ PathComplete(state, path(k), horizon)
<1>1. path(h) \subseteq path(g)
  BY DEF Path, Future, Of
<1>2. \A k : /\ HorizonLabels(k, state, horizon).crossed_up
                  = Tri(Ups(state, path(k)) # {}, complete(k))
             /\ HorizonLabels(k, state, horizon).collapse
                  = Tri(Collapses(state, path(k)) # {}, complete(k))
  BY DEF HorizonLabels
<1>. HIDE DEF path, complete
<1>3. Ups(state, path(h)) \subseteq Ups(state, path(g))
  BY <1>1 DEF Ups, Priced
<1>4. Collapses(state, path(h)) \subseteq Collapses(state, path(g))
  BY <1>1 DEF Collapses
<1>. QED
  BY <1>2, <1>3, <1>4 DEF Tri
-----------------------------------------------------------------------------
(* The inductive invariant.                                                *)

\* Facts are unique and of the past, also those of open transactions.
FactsOrdered ==
  /\ now \in 0 .. MaxTime /\ closed \in BOOLEAN
  /\ open \cup facts \subseteq Fact /\ open \cap facts = {}
  /\ \A f, g \in open \cup facts : f.id = g.id => f = g
  /\ \A f \in open \cup facts : f.at <= now

\* An archive has what was committed before its cutoff, and nothing of that time is open.
ArchiveWhole ==
  archive # None =>
    /\ closed /\ archive.cutoff \in Nat
    /\ archive.facts = Slice(facts, 0, archive.cutoff)
    /\ Slice(open, 0, archive.cutoff) = {}

\* The features of a time that is over are those of all that was received until then.
LiveKept ==
  /\ live = [time \in 0 .. MaxTime |-> live[time]]
  /\ \A time \in 0 .. MaxTime :
       time < now => live[time] = MarketFeatures(AsOf(facts \cup open, time))

\* A row is computed from the history of its build, and only from it.
RowComputed(history, row) ==
  /\ row.time \in Nat
  /\ row.split # None /\ row.split = Assign(AdmissionAt(history), row.time)
  /\ row.features = MarketFeatures(AsOf(history, row.time))
  /\ row.labels = Labels(history, AsOf(history, row.time))
Computed(history, rows) == \A row \in rows : RowComputed(history, row)

Identities ==
  [source : Source, cutoff : Nat \cup {None}, mode : Mode, scope : Scope, hashed : SUBSET Fact]

BuildersReady ==
  /\ builder = [b \in Builder |-> builder[b]]
  /\ \A b \in Builder :
       /\ builder[b] = [pc |-> builder[b].pc, identity |-> builder[b].identity,
                        history |-> builder[b].history, rows |-> builder[b].rows]
       /\ builder[b].pc = "idle" <=> builder[b].identity = None
       /\ builder[b].history \subseteq facts
       /\ Computed(builder[b].history, builder[b].rows)

PublishedComputed ==
  \A d \in published : d.history \subseteq facts /\ Computed(d.history, d.rows)

DataInv ==
  FactsOrdered /\ ArchiveWhole /\ LiveKept /\ BuildersReady /\ PublishedComputed

LEMMA DataInit == Init => DataInv
<1>. SUFFICES ASSUME Init PROVE DataInv
  OBVIOUS
<1>1. FactsOrdered /\ ArchiveWhole /\ PublishedComputed
  <2>1. now \in 0 .. MaxTime
    BY DatasetAssumption DEF Init
  <2>2. FactsOrdered
    BY <2>1 DEF Init, FactsOrdered
  <2>. QED
    BY <2>2 DEF Init, ArchiveWhole, PublishedComputed
<1>2. LiveKept
  <2>1. \A time \in 0 .. MaxTime : ~(time < now)
    BY DatasetAssumption DEF Init
  <2>2. live = [time \in 0 .. MaxTime |-> live[time]]
    BY DEF Init
  <2>. QED
    BY <2>1, <2>2 DEF LiveKept
<1>3. BuildersReady
  BY DEF Init, BuildersReady, Idle, Computed
<1>. QED
  BY <1>1, <1>2, <1>3 DEF DataInv

LEMMA FactTimes ==
  ASSUME FactsOrdered
  PROVE  /\ now \in Nat /\ facts \subseteq Fact /\ open \subseteq Fact
         /\ \A f \in open \cup facts : f.at \in Nat /\ f.at <= now
<1>1. now \in Nat
  <2>1. now \in 0 .. MaxTime
    BY DEF FactsOrdered
  <2>. QED
    BY <2>1
<1>2. facts \subseteq Fact /\ open \subseteq Fact
  BY DEF FactsOrdered
<1>. QED
  BY <1>1, <1>2, FactsAreFacts DEF FactsOrdered

\* What builds have read stays read.
LEMMA BuildsKeep ==
  ASSUME DataInv, facts \subseteq facts', UNCHANGED <<builder, published>>
  PROVE  BuildersReady' /\ PublishedComputed'
<1>1. BuildersReady'
  BY DEF DataInv, BuildersReady
<1>2. PublishedComputed'
  BY DEF DataInv, PublishedComputed
<1>. QED
  BY <1>1, <1>2

\* The features of a past time are not touched by what is received now.
LEMMA PastKeeps ==
  ASSUME DataInv, now' = now, live' = live,
         \A f \in (facts \cup open)' : f \in facts \cup open \/ f.at = now,
         facts \cup open \subseteq (facts \cup open)'
  PROVE  LiveKept'
<1>. SUFFICES ASSUME NEW time \in 0 .. MaxTime, time < now
              PROVE  live[time] = MarketFeatures(AsOf((facts \cup open)', time))
  BY DEF DataInv, LiveKept
<1>1. KnownAt((facts \cup open)', time) = KnownAt(facts \cup open, time)
  BY FactTimes DEF DataInv, KnownAt
<1>2. AsOf((facts \cup open)', time) = AsOf(facts \cup open, time)
  BY <1>1, AsOfKnown
<1>. QED
  BY <1>2 DEF DataInv, LiveKept

LEMMA ReceiveKeeps == ASSUME DataInv, NEW f \in Fact, Receive(f) PROVE DataInv'
<1>1. /\ ~closed /\ f.at = now /\ open' = open \cup {f}
      /\ \A g \in open \cup facts : g.id # f.id
      /\ UNCHANGED <<now, closed, facts, archive, builder, published, live>>
  BY DEF Receive
<1>2. FactsOrdered'
  BY <1>1, FactTimes DEF DataInv, FactsOrdered
<1>3. ArchiveWhole'
  BY <1>1 DEF DataInv, ArchiveWhole
<1>4. LiveKept'
  BY <1>1, PastKeeps
<1>5. BuildersReady' /\ PublishedComputed'
  BY <1>1, BuildsKeep
<1>. QED
  BY <1>2, <1>3, <1>4, <1>5 DEF DataInv

LEMMA CommitKeeps == ASSUME DataInv, NEW f \in open, Commit(f) PROVE DataInv'
<1>1. /\ open' = open \ {f} /\ facts' = facts \cup {f}
      /\ UNCHANGED <<now, closed, archive, builder, published, live>>
  BY DEF Commit
<1>2. facts' \cup open' = facts \cup open
  BY <1>1
<1>3. FactsOrdered'
  BY <1>1, <1>2 DEF DataInv, FactsOrdered
<1>4. ArchiveWhole'
  <2>. SUFFICES ASSUME archive # None
                PROVE  /\ Slice(facts', 0, archive.cutoff) = Slice(facts, 0, archive.cutoff)
                       /\ Slice(open', 0, archive.cutoff) = {}
    BY <1>1 DEF DataInv, ArchiveWhole
  <2>1. Slice(open, 0, archive.cutoff) = {}
    BY DEF DataInv, ArchiveWhole
  <2>2. ~(0 <= f.at /\ f.at < archive.cutoff)
    BY <2>1 DEF Slice
  <2>. QED
    BY <1>1, <2>1, <2>2 DEF Slice
<1>5. LiveKept'
  BY <1>1, <1>2, PastKeeps
<1>6. BuildersReady' /\ PublishedComputed'
  BY <1>1, BuildsKeep
<1>. QED
  BY <1>3, <1>4, <1>5, <1>6 DEF DataInv

LEMMA TickKeeps == ASSUME DataInv, Tick PROVE DataInv'
<1>1. /\ now < MaxTime /\ now' = now + 1
      /\ live' = [live EXCEPT ![now] = MarketFeatures(AsOf(facts \cup open, now))]
      /\ UNCHANGED <<closed, open, facts, archive, builder, published>>
  BY DEF Tick
<1>2. now \in Nat /\ MaxTime \in Nat
  BY DatasetAssumption, FactTimes DEF DataInv
<1>3. FactsOrdered'
  BY <1>1, <1>2, FactTimes DEF DataInv, FactsOrdered
<1>4. ArchiveWhole'
  BY <1>1 DEF DataInv, ArchiveWhole
<1>5. LiveKept'
  <2>1. live' = [time \in 0 .. MaxTime |-> live'[time]]
    BY <1>1 DEF DataInv, LiveKept
  <2>2. \A time \in 0 .. MaxTime :
          time < now' => live'[time] = MarketFeatures(AsOf(facts \cup open, time))
    <3>. SUFFICES ASSUME NEW time \in 0 .. MaxTime, time < now'
                  PROVE  live'[time] = MarketFeatures(AsOf(facts \cup open, time))
      OBVIOUS
    <3>1. CASE time = now
      BY <1>1, <1>2, <3>1 DEF DataInv, LiveKept
    <3>2. CASE time # now
      <4>1. time < now /\ live'[time] = live[time]
        BY <1>1, <1>2, <3>2 DEF DataInv, LiveKept
      <4>. QED
        BY <4>1 DEF DataInv, LiveKept
    <3>. QED
      BY <3>1, <3>2
  <2>. QED
    BY <1>1, <2>1, <2>2 DEF LiveKept
<1>6. BuildersReady' /\ PublishedComputed'
  BY <1>1, BuildsKeep
<1>. QED
  BY <1>3, <1>4, <1>5, <1>6 DEF DataInv

LEMMA ExportKeeps ==
  ASSUME DataInv, NEW cutoff \in 1 .. MaxTime, ExportBefore(cutoff)
  PROVE  DataInv'
<1>1. /\ closed /\ Slice(open, 0, cutoff) = {}
      /\ archive' = [cutoff |-> cutoff, facts |-> Slice(facts, 0, cutoff)]
      /\ UNCHANGED <<now, closed, open, facts, live, builder, published>>
  BY DEF ExportBefore, recording
<1>2. FactsOrdered' /\ LiveKept'
  BY <1>1 DEF DataInv, FactsOrdered, LiveKept
<1>3. ArchiveWhole'
  <2>1. cutoff \in Nat
    BY DatasetAssumption
  <2>2. archive'.cutoff = cutoff /\ archive'.facts = Slice(facts, 0, cutoff)
    BY <1>1
  <2>. QED
    BY <1>1, <2>1, <2>2 DEF ArchiveWhole
<1>4. BuildersReady' /\ PublishedComputed'
  BY <1>1, BuildsKeep
<1>. QED
  BY <1>2, <1>3, <1>4 DEF DataInv
-----------------------------------------------------------------------------
(* Builds.                                                                 *)

LEMMA LoadRead ==
  ASSUME DataInv, NEW source \in Source, NEW scope \in Scope, source = "hot" \/ archive # None
  PROVE  Load(source, scope) \subseteq facts
<1>1. \A start, end : Hot(start, end) \subseteq facts
  BY DEF Hot, HotRows
<1>2. \A start, end : Cold(start, end) \subseteq facts
  BY DEF Cold, Slice, DataInv, ArchiveWhole
<1>3. \A start, end, cutoff : HotCold(start, end, cutoff) \subseteq facts
  <2>. SUFFICES ASSUME NEW start, NEW end, NEW cutoff
                PROVE  HotCold(start, end, cutoff) \subseteq facts
    OBVIOUS
  <2>1. \A rows, from, to : Slice(rows, from, to) \subseteq rows
    BY DEF Slice
  <2>. QED
    BY <1>1, <1>2, <2>1 DEF HotCold
<1>. QED
  BY <1>1, <1>2, <1>3 DEF Load, Source

LEMMA RowsComputed ==
  ASSUME NEW history, NEW mode, NEW scope \in Scope
  PROVE  Computed(history, Rows(history, mode, scope))
<1>. SUFFICES ASSUME NEW row \in Rows(history, mode, scope)
              PROVE  RowComputed(history, row)
  BY DEF Computed
<1>1. PICK time \in CandidateTimes(history, mode, scope) :
        row = Row(history, mode, time) /\ row.split # None
  BY DEF Rows
<1>2. time \in Nat
  <2>1. time \in scope.start .. scope.end - 1
    BY <1>1 DEF CandidateTimes
  <2>2. scope.start \in Nat /\ scope.end \in Nat
    BY DatasetAssumption
  <2>. QED
    BY <2>1, <2>2
<1>3. /\ row.time = time /\ row.split = Assign(AdmissionAt(history), time)
      /\ row.features = MarketFeatures(AsOf(history, time))
      /\ row.labels = Labels(history, AsOf(history, time))
  BY <1>1 DEF Row
<1>. QED
  BY <1>1, <1>2, <1>3 DEF RowComputed

LEMMA IdentityNotNull ==
  ASSUME NEW history \in SUBSET Fact, NEW mode \in Mode, NEW scope \in Scope, NEW source \in Source,
         source = "hot" \/ archive.cutoff \in Nat
  PROVE  Identity(history, mode, scope, source) # None
<1>1. {f \in history : f.family \in Hashed} \in SUBSET Fact
  OBVIOUS
<1>2. Identity(history, mode, scope, source) \in Identities
  BY <1>1 DEF Identity, Identities
<1>3. None \notin Identities
  BY DatasetNullAssumption DEF Identities
<1>. QED
  BY <1>2, <1>3

LEMMA BuildKeeps ==
  ASSUME DataInv, NEW b \in Builder, NEW source \in Source, NEW mode \in Mode, NEW scope \in Scope,
         Build(b, source, mode, scope)
  PROVE  DataInv'
<1>. DEFINE history == Load(source, scope)
            identity == Identity(history, mode, scope, source)
            staged == [pc |-> "staged", identity |-> identity, history |-> history,
                       rows |-> Rows(history, mode, scope)]
<1>1. /\ source = "hot" \/ archive # None
      /\ builder' = builder \/ builder' = [builder EXCEPT ![b] = staged]
      /\ UNCHANGED <<now, closed, open, facts, live, archive, published>>
  BY DEF Build, recording
<1>2. FactsOrdered' /\ ArchiveWhole' /\ LiveKept' /\ PublishedComputed'
  BY <1>1 DEF DataInv, FactsOrdered, ArchiveWhole, LiveKept, PublishedComputed
<1>3. history \subseteq facts /\ facts \subseteq Fact
  BY <1>1, LoadRead, FactTimes DEF DataInv
<1>4. Computed(history, Rows(history, mode, scope))
  BY RowsComputed
<1>5. identity # None
  <2>1. source = "hot" \/ archive.cutoff \in Nat
    BY <1>1 DEF DataInv, ArchiveWhole
  <2>. QED
    BY <1>3, <2>1, IdentityNotNull
<1>. DEFINE rows == Rows(history, mode, scope)
<1>. HIDE DEF history, identity, rows
<1>6. BuildersReady'
  <2>1. CASE builder' = builder
    BY <1>1, <2>1 DEF DataInv, BuildersReady
  <2>2. CASE builder' = [builder EXCEPT ![b] = staged]
    <3>1. /\ staged.pc = "staged" /\ staged.identity = identity /\ staged.history = history
          /\ staged.rows = rows
          /\ staged = [pc |-> "staged", identity |-> identity, history |-> history, rows |-> rows]
      BY DEF rows
    <3>. HIDE DEF staged
    <3>2. /\ builder' = [c \in Builder |-> builder'[c]]
          /\ builder'[b] = staged
          /\ \A c \in Builder : c # b => builder'[c] = builder[c]
      BY <2>2 DEF DataInv, BuildersReady
    <3>3. Computed(history, rows)
      BY <1>4 DEF rows
    <3>. QED
      BY <1>1, <1>3, <1>5, <3>1, <3>2, <3>3 DEF DataInv, BuildersReady
  <2>. QED
    BY <1>1, <2>1, <2>2
<1>. QED
  BY <1>2, <1>6 DEF DataInv

LEMMA IdleReady ==
  ASSUME DataInv, NEW b \in Builder, builder' = [builder EXCEPT ![b] = Idle], facts' = facts
  PROVE  BuildersReady'
<1>1. /\ Idle.pc = "idle" /\ Idle.identity = None /\ Idle.history = {} /\ Idle.rows = {}
      /\ Idle = [pc |-> Idle.pc, identity |-> Idle.identity, history |-> Idle.history,
                 rows |-> Idle.rows]
  BY DEF Idle
<1>2. /\ builder' = [c \in Builder |-> builder'[c]]
      /\ builder'[b] = Idle
      /\ \A c \in Builder : c # b => builder'[c] = builder[c]
  BY DEF DataInv, BuildersReady
<1>. QED
  BY <1>1, <1>2 DEF DataInv, BuildersReady, Computed

LEMMA BuilderKeeps ==
  ASSUME DataInv, NEW b \in Builder, MeetPublished(b) \/ FindNone(b) \/ Promote(b) \/ Killed(b)
  PROVE  DataInv'
<1>1. UNCHANGED <<now, closed, open, facts, live, archive>>
  BY DEF MeetPublished, FindNone, Promote, Killed, recording
<1>2. FactsOrdered' /\ ArchiveWhole' /\ LiveKept'
  BY <1>1 DEF DataInv, FactsOrdered, ArchiveWhole, LiveKept
<1>3. BuildersReady'
  <2>1. CASE builder' = [builder EXCEPT ![b] = Idle]
    BY <1>1, <2>1, IdleReady
  <2>2. CASE builder[b].pc = "staged" /\ builder' = [builder EXCEPT ![b].pc = "promoting"]
    <3>1. /\ builder' = [c \in Builder |-> builder'[c]]
          /\ builder'[b] = [pc |-> "promoting", identity |-> builder[b].identity,
                            history |-> builder[b].history, rows |-> builder[b].rows]
          /\ \A c \in Builder : c # b => builder'[c] = builder[c]
      <4>1. builder'[b] = [builder[b] EXCEPT !.pc = "promoting"]
        BY <2>2 DEF DataInv, BuildersReady
      <4>2. builder[b] = [pc |-> builder[b].pc, identity |-> builder[b].identity,
                          history |-> builder[b].history, rows |-> builder[b].rows]
        BY DEF DataInv, BuildersReady
      <4>3. /\ builder' = [c \in Builder |-> builder'[c]]
            /\ \A c \in Builder : c # b => builder'[c] = builder[c]
        BY <2>2 DEF DataInv, BuildersReady
      <4>. QED
        BY <4>1, <4>2, <4>3
    <3>2. builder[b].identity # None
      BY <2>2 DEF DataInv, BuildersReady
    <3>. QED
      BY <1>1, <3>1, <3>2 DEF DataInv, BuildersReady
  <2>. QED
    BY <2>1, <2>2 DEF MeetPublished, FindNone, Promote, Killed
<1>4. PublishedComputed'
  <2>1. ASSUME NEW d \in published'
        PROVE  \/ d \in published
               \/ d = [identity |-> builder[b].identity, rows |-> builder[b].rows,
                       history |-> builder[b].history]
    BY DEF MeetPublished, FindNone, Promote, Killed
  <2>2. builder[b].history \subseteq facts /\ Computed(builder[b].history, builder[b].rows)
    BY DEF DataInv, BuildersReady
  <2>. QED
    BY <1>1, <2>1, <2>2 DEF DataInv, PublishedComputed
<1>. QED
  BY <1>2, <1>3, <1>4 DEF DataInv

THEOREM DataInvariance == Spec => []DataInv
<1>1. DataInv /\ [Next]_vars => DataInv'
  <2>. SUFFICES ASSUME DataInv, [Next]_vars PROVE DataInv'
    OBVIOUS
  <2>1. CASE CloseEpoch \/ UNCHANGED vars
    <3>1. /\ UNCHANGED <<now, open, facts, archive, builder, published, live>>
          /\ closed' \in BOOLEAN /\ (closed => closed')
      BY <2>1 DEF CloseEpoch, vars, DataInv, FactsOrdered
    <3>2. FactsOrdered' /\ ArchiveWhole' /\ LiveKept'
      BY <3>1 DEF DataInv, FactsOrdered, ArchiveWhole, LiveKept
    <3>3. BuildersReady' /\ PublishedComputed'
      BY <3>1, BuildsKeep
    <3>. QED
      BY <3>2, <3>3 DEF DataInv
  <2>. QED
    BY <2>1, ReceiveKeeps, CommitKeeps, TickKeeps, ExportKeeps, BuildKeeps, BuilderKeeps DEF Next
<1>. QED
  BY <1>1, DataInit, PTL DEF Spec
-----------------------------------------------------------------------------
(* The theorems.                                                           *)

\* A row lies in the split of its token's admission.
LEMMA SplitOfAdmission ==
  ASSUME NEW admitted, NEW s, NEW t, Assign(admitted, s) # None, Assign(admitted, t) # None
  PROVE  Assign(admitted, s) = Assign(admitted, t)
  BY DEF Assign, AssignmentTime

\* Facts are committed once, an archive holds only what was committed, and all rows of a
\* token lie in one split, although admissions, decisions and labels of its datasets were read
\* at different times (research/sources.py, research/dataset.py, research/contracts.py).
THEOREM DatasetsStayConsistent == Spec => []DatasetsConsistent
<1>1. DataInv => TypeOK
  BY DEF DataInv, FactsOrdered, ArchiveWhole, BuildersReady, TypeOK, Slice
<1>2. DataInv => TokenInOneSplit
  <2>. SUFFICES ASSUME DataInv, NEW c \in published, NEW d \in published,
                       NEW r \in c.rows, NEW s \in d.rows,
                       AdmissionAt(c.history) = AdmissionAt(d.history)
                PROVE  r.split = s.split
    BY DEF TokenInOneSplit, PublishedRows
  <2>1. RowComputed(c.history, r) /\ RowComputed(d.history, s)
    BY DEF DataInv, PublishedComputed, Computed
  <2>. QED
    BY <2>1, SplitOfAdmission DEF RowComputed
<1>. QED
  BY <1>1, <1>2, DataInvariance, PTL DEF DatasetsConsistent

\* No information from the future: a row computed later, from a history that lacks nothing
\* received by its decision, has the features the collector had at the decision, whatever was
\* received or committed since (research/asof.py, research/features.py).
THEOREM NothingFromTheFuture == Spec => []FeaturesAsKnown
<1>1. DataInv => FeaturesAsKnown
  <2>. SUFFICES ASSUME DataInv, NEW d \in published, NEW r \in d.rows,
                       r.time < now, NothingMissing(d.history, r.time)
                PROVE  r.features = live[r.time]
    BY DEF FeaturesAsKnown, PublishedRows
  <2>1. RowComputed(d.history, r) /\ d.history \subseteq facts
    BY DEF DataInv, PublishedComputed, Computed
  <2>2. KnownAt(d.history, r.time) = KnownAt(facts \cup open, r.time)
    BY <2>1 DEF NothingMissing, KnownAt
  <2>3. AsOf(d.history, r.time) = AsOf(facts \cup open, r.time)
    BY <2>2, AsOfKnown
  <2>4. r.time \in 0 .. MaxTime
    BY <2>1, DatasetAssumption DEF RowComputed, DataInv, FactsOrdered
  <2>. QED
    BY <2>1, <2>3, <2>4 DEF RowComputed, DataInv, LiveKept
<1>. QED
  BY <1>1, DataInvariance, PTL

\* A later build that knows more takes back no crossing and no collapse, and changes no label
\* of a horizon both builds have read to its limit (research/labels.py).
THEOREM LabelsStaySettled == Spec => []LabelsSettle
<1>1. DataInv => LabelsSettle
  <2>. SUFFICES ASSUME DataInv, NEW c \in published, NEW d \in published,
                       NEW r \in c.rows, NEW s \in d.rows, NEW h \in Horizons,
                       r.time = s.time, c.history \subseteq d.history,
                       KnownAt(c.history, r.time) = KnownAt(d.history, r.time)
                PROVE  LET old == r.labels.horizon[h]
                           new == s.labels.horizon[h]
                           limit == r.time + h + LabelTolerance(h)
                       IN /\ old.crossed_up = "TRUE" => new.crossed_up = "TRUE"
                          /\ old.collapse = "TRUE" => new.collapse = "TRUE"
                          /\ KnownAt(c.history, limit) = KnownAt(d.history, limit) => old = new
    BY DEF LabelsSettle, PublishedRows
  <2>. DEFINE state == AsOf(c.history, r.time)
              limit == r.time + h + LabelTolerance(h)
  <2>1. /\ RowComputed(c.history, r) /\ c.history \in SUBSET Fact
        /\ RowComputed(d.history, s) /\ d.history \in SUBSET Fact
    BY FactTimes DEF DataInv, PublishedComputed, Computed
  <2>2. state = AsOf(d.history, s.time)
    BY AsOfKnown
  <2>3. state.time = r.time /\ r.time \in Nat
    BY <2>1 DEF AsOf, RowComputed
  <2>4. limit = PathLimit(state, h)
    BY <2>3 DEF PathLimit
  <2>. HIDE DEF state, limit
  <2>5. /\ r.labels.horizon[h] = HorizonLabels(c.history, state, h)
        /\ s.labels.horizon[h] = HorizonLabels(d.history, state, h)
    BY <2>1, <2>2 DEF RowComputed, Labels, state
  <2>6. /\ HorizonLabels(c.history, state, h).crossed_up = "TRUE"
             => HorizonLabels(d.history, state, h).crossed_up = "TRUE"
        /\ HorizonLabels(c.history, state, h).collapse = "TRUE"
             => HorizonLabels(d.history, state, h).collapse = "TRUE"
    BY CrossingsStay
  <2>7. KnownAt(c.history, limit) = KnownAt(d.history, limit)
          => HorizonLabels(c.history, state, h) = HorizonLabels(d.history, state, h)
    BY <2>1, <2>3, <2>4, HorizonSettles
  <2>. QED
    BY <2>5, <2>6, <2>7 DEF limit
<1>. QED
  BY <1>1, DataInvariance, PTL

\* A published dataset is never changed or replaced, whichever builds race for its name
\* (research/dataset.py, _promote).
THEOREM PublishedStays == Spec => PublishedImmutable
<1>1. [Next]_vars => published \subseteq published'
  BY DEF Next, vars, Receive, Commit, Tick, CloseEpoch, ExportBefore, Build, MeetPublished,
         FindNone, Promote, CanReplace, Killed
<1>. QED
  BY <1>1, PTL DEF Spec, PublishedImmutable

\* Cold facts before the cutoff and hot ones after it are what PostgreSQL holds, for a scope from
\* the beginning of the epoch and a token the archive knows (research/sources.py).
THEOREM BothSourcesAgree == Spec => SourcesAgree
<1>. DEFINE Agree == \A b \in Builder, mode \in Mode, scope \in Scope :
              Build(b, "hot_cold", mode, scope) /\ scope.start = 0 /\ TokenIn(archive.facts) =>
                HotCold(0, scope.end, archive.cutoff) = Hot(0, scope.end)
<1>1. DataInv => Agree
  <2>. SUFFICES ASSUME DataInv, NEW scope \in Scope, archive # None, TokenIn(archive.facts)
                PROVE  HotCold(0, scope.end, archive.cutoff) = Hot(0, scope.end)
    BY DEF Build
  <2>. DEFINE end == scope.end
              cutoff == archive.cutoff
              early == Smaller(end, cutoff)
  <2>1. end \in Nat /\ cutoff \in Nat /\ archive.facts = Slice(facts, 0, cutoff)
    BY DatasetAssumption DEF DataInv, ArchiveWhole
  <2>2. \A f \in facts : f.at \in Nat
    BY FactTimes DEF DataInv
  <2>3. TokenIn(facts) /\ \E f \in archive.facts : f.family # "context"
    BY <2>1 DEF TokenIn, Slice
  <2>4. early \in Nat /\ Larger(0, cutoff) = cutoff /\ early <= end /\ early <= cutoff
    BY <2>1 DEF Smaller, Larger
  <2>5. \A n \in Nat : n < early <=> n < end /\ n < cutoff
    BY <2>1 DEF Smaller
  <2>. HIDE DEF end, cutoff, early
  <2>6. Slice(Cold(0, early), 0, early) = {f \in facts : f.at < early}
    BY <2>1, <2>2, <2>3, <2>4, <2>5 DEF Cold, Slice
  <2>7. Slice(Hot(cutoff, end), cutoff, end) = {f \in facts : cutoff <= f.at /\ f.at < end}
    BY <2>1, <2>2, <2>3 DEF Hot, HotRows, Slice
  <2>8. Hot(0, end) = {f \in facts : f.at < end}
    BY <2>1, <2>2, <2>3 DEF Hot, HotRows
  <2>9. HotCold(0, end, cutoff) = Slice(Cold(0, early), 0, early)
                                    \cup Slice(Hot(cutoff, end), cutoff, end)
    BY <2>4 DEF HotCold, early
  <2>10. HotCold(0, end, cutoff) = Hot(0, end)
    BY <2>1, <2>2, <2>5, <2>6, <2>7, <2>8, <2>9
  <2>. QED
    BY <2>10 DEF end, cutoff
<1>. HIDE DEF Agree
<1>2. Spec => [][Agree]_vars
  BY <1>1, DataInvariance, PTL DEF Spec
<1>. QED
  BY <1>2 DEF SourcesAgree, Agree
=============================================================================
