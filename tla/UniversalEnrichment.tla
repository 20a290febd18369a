------------------------- MODULE UniversalEnrichment -------------------------
(***************************************************************************)
(* The enrichment every tracked token gets: boost feeds, the facts that    *)
(* come free with a pair response, and the shared market context           *)
(* (collection/boosts.py, collection/polling.py, collection/market_context *)
(* .py, persistence/enrichment.py).                                        *)
(*                                                                         *)
(* Histories are change-only: a fact is written when it differs from the   *)
(* latest one of its scope, and boost changes are told as events.  Answers *)
(* are received at one time and committed at a later one; in between the   *)
(* context loop may have closed the bucket they belong to, the lease of    *)
(* the poll may have gone, or the process may have died.                   *)
(***************************************************************************)
EXTENDS Integers, Sequences, FiniteSets, FiniteSetsExt

CONSTANTS
  Pair,           \* the pairs, one for every tracked token
  FeedAnswer,     \* what a feed may list: sequences of records, one per token
  PairAnswer,     \* what a pair response may say of one pair
  Threshold,      \* _BOOST_THRESHOLDS
  Interval,       \* market_context_interval_seconds
  Volatility,     \* how far back prices count for the volatility (an hour)
  CohortAge,      \* age at which the mature cohort starts (an hour)
  None,
  MaxClock, MaxAnswers, MaxStarts   \* bounds of the model

VARIABLES
  now,
  up,         \* the collector runs
  feeds,      \* per boost loop: the answer it is storing, or None
  polls,      \* scheduled polls whose answer has come and is not committed yet
  rows,       \* pair facts, token metadata and boost observations
  events,     \* boost events
  observations, \* observations: the price of a pair at a receipt
  lifecycle,  \* lifecycle events
  contexts,   \* market context snapshots, by the end of their bucket
  contextAt,  \* when the context loop of this process last ran, or None
  received,   \* number of answers so far
  lastAnswer, \* receipt of the latest answer
  shown,      \* history: what the answers that were stored said, by scope
  conflicts,  \* history: buckets whose stored context contradicted a new one
  starts

vars == <<now, up, feeds, polls, rows, events, observations, lifecycle, contexts, contextAt,
          received, lastAnswer, shown, conflicts, starts>>
stored == <<rows, events, shown>>
market == <<observations, lifecycle>>
clock == <<now, received, lastAnswer, starts>>

Feed == {"latest", "top"}
Metric == {"active_boost_count", "amount", "total_amount"}

Scope ==
  {<<"boost", f, p>> : f \in Feed, p \in Pair} \cup
  {<<k, "pair_response", p>> : k \in {"boost", "metadata", "pair-fact"}, p \in Pair} \cup
  {<<"metadata", "boost_feed", p>> : p \in Pair}

\* A number of an answer, what a feed may list of one token, and what a fact may say.
Value == Int \cup {None}
Listing == UNION {{l[i] : i \in DOMAIN l} : l \in FeedAnswer}
Boosts == [active_boost_count : Value, amount : Value, total_amount : Value]
Content == {a.fact : a \in PairAnswer} \cup {a.info : a \in PairAnswer}
             \cup {r.links : r \in Listing} \cup Boosts

\* A feed lists a token once: the loop does not look for a second record of one token, and two
\* records of one answer have one time, so that only their identifiers would order them.
ASSUME EnrichmentAssumption ==
  /\ \A r \in Listing : r.pair \in Pair /\ r.amount \in Value /\ r.total_amount \in Value
  /\ \A l \in FeedAnswer :
       /\ l \in Seq(Listing) /\ l # <<>>
       /\ \A i, j \in DOMAIN l : l[i].pair = l[j].pair => i = j
  /\ \A a \in PairAnswer : a.boosts \in Value /\ a.trades \in BOOLEAN
  /\ None \notin Int /\ None \notin [scope : Scope, at : Nat, content : Content]
  /\ Threshold \subseteq Nat \ {0}
  /\ Interval \in Nat \ {0} /\ Volatility \in Nat /\ CohortAge \in Nat
  /\ MaxClock \in Nat /\ MaxAnswers \in Nat /\ MaxStarts \in Nat
-----------------------------------------------------------------------------
(* Change-only histories.                                                  *)

Latest(scope, at) ==
  LET known == {r \in rows : r.scope = scope /\ r.at <= at} IN
  IF known = {} THEN None ELSE CHOOSE r \in known : \A s \in known : s.at <= r.at

\* Content whose values are all missing is not written.
Empty(content) == content = None \/ content = [m \in Metric |-> None]

\* Mutation of Changed: looks for the content in the whole history.
ChangedEver(fact) == \A r \in rows : r.scope = fact.scope => r.content # fact.content
Changed(fact) ==
  LET previous == Latest(fact.scope, MaxClock) IN
  previous = None \/ previous.content # fact.content

\* record_if_changed of the three repositories: the rows some facts add.
Recorded(facts) == {fact \in facts : ~Empty(fact.content) /\ Changed(fact)}

\* Mutation of Crossed: a fall from the threshold itself is not a crossing.
CrossedStrictly(threshold, before, after) ==
  (before < threshold /\ threshold <= after) \/ (before > threshold /\ threshold > after)
Crossed(threshold, before, after) ==
  (before < threshold /\ threshold <= after) \/ (before >= threshold /\ threshold > after)

BoostEvent(row, type, metric, threshold, up_) ==
  [scope |-> row.scope, at |-> row.at, type |-> type, metric |-> metric,
   threshold |-> threshold, up |-> up_]

\* _record_events for one metric: the first value, or a change with the thresholds crossed.
MetricEvents(row, metric) ==
  LET previous == Latest(row.scope, MaxClock)
      before == IF previous = None THEN None ELSE previous.content[metric]
      after == row.content[metric]
  IN  IF after = None \/ after = before THEN {}
      ELSE IF before = None THEN {BoostEvent(row, "first_seen", metric, None, FALSE)}
      ELSE {BoostEvent(row, "state_change", metric, None, after > before)} \cup
           {BoostEvent(row, "threshold_crossing", metric, h, after > before) :
              h \in {h \in Threshold : Crossed(h, before, after)}}

Record(facts) ==
  LET new == Recorded(facts) IN
  /\ rows' = rows \cup new
  /\ events' = events \cup
       UNION {MetricEvents(r, m) : r \in {r \in new : r.scope[1] = "boost"}, m \in Metric}
  /\ shown' = shown \cup {fact \in facts : ~Empty(fact.content)}
-----------------------------------------------------------------------------
Init ==
  /\ now = 0
  /\ up = FALSE
  /\ feeds = [f \in Feed |-> None]
  /\ polls = {}
  /\ rows = {} /\ events = {} /\ shown = {}
  /\ observations = {}
  /\ lifecycle = {[pair |-> p, state |-> "NEW", at |-> 0, decided_at |-> 0] : p \in Pair}
  /\ contexts = <<>> /\ contextAt = None /\ conflicts = {}
  /\ received = 0 /\ lastAnswer = 0 /\ starts = 0

Tick ==
  /\ now < MaxClock
  /\ now' = now + 1
  /\ UNCHANGED <<up, feeds, polls, stored, market, contexts, contextAt, received, lastAnswer,
                 conflicts, starts>>

StartCollector ==
  /\ ~up
  /\ starts < MaxStarts
  /\ up' = TRUE
  /\ starts' = starts + 1
  /\ UNCHANGED <<now, feeds, polls, stored, market, contexts, contextAt, received, lastAnswer,
                 conflicts>>

\* What the process held in memory and in open transactions is gone.
Down ==
  /\ up' = FALSE
  /\ feeds' = [f \in Feed |-> None]
  /\ polls' = {}
  /\ contextAt' = None

\* Killed, or brought down by an error none of its loops expects.
StopCollector ==
  /\ up
  /\ Down
  /\ UNCHANGED <<stored, market, contexts, conflicts, clock>>

\* Receipts have microseconds: no two of them are at the same time.
Answered ==
  /\ up
  /\ received < MaxAnswers
  /\ lastAnswer < now
  /\ received' = received + 1
  /\ lastAnswer' = now
-----------------------------------------------------------------------------
(* The boost loops (BoostCollectionWorkflow.collect).                      *)

\* The raw answer is committed first; a failed request leaves a log row only.
ReceiveFeed(f) ==
  /\ Answered
  /\ feeds[f] = None
  /\ \E records \in FeedAnswer :
       feeds' = [feeds EXCEPT ![f] = [at |-> now, records |-> records]]
  /\ UNCHANGED <<now, up, polls, stored, market, contexts, contextAt, conflicts, starts>>

FeedFacts(f) ==
  LET record == Head(feeds[f].records)
      fact(scope, content) == [scope |-> scope, at |-> feeds[f].at, content |-> content]
  IN  {fact(<<"boost", f, record.pair>>,
            [active_boost_count |-> None, amount |-> record.amount,
             total_amount |-> record.total_amount]),
       fact(<<"metadata", "boost_feed", record.pair>>, record.links)}

\* One transaction per tracked record, under the advisory locks of its two scopes.
StoreRecord(f) ==
  /\ feeds[f] # None
  /\ Record(FeedFacts(f))
  /\ LET rest == Tail(feeds[f].records) IN
     feeds' = [feeds EXCEPT ![f] =
       IF rest = <<>> THEN None ELSE [at |-> feeds[f].at, records |-> rest]]
  /\ UNCHANGED <<up, polls, market, contexts, contextAt, conflicts, clock>>
-----------------------------------------------------------------------------
(* Scheduled polls (ScheduledObservationWorkflow.execute).                 *)

\* A pair is a member of one open batch; a batch with a lapsed lease is not.
ReceivePoll(p) ==
  /\ Answered
  /\ \A a \in polls : a.pair = p => ~a.owned
  /\ \E says \in PairAnswer :
       polls' = polls \cup {[pair |-> p, at |-> now, says |-> says, owned |-> TRUE]}
  /\ UNCHANGED <<now, up, feeds, stored, market, contexts, contextAt, conflicts, starts>>

\* The lease of the batch ends and a claim closes it.
LeaseLost(a) ==
  /\ a.owned
  /\ polls' = (polls \ {a}) \cup {[a EXCEPT !.owned = FALSE]}
  /\ UNCHANGED <<up, feeds, stored, market, contexts, contextAt, conflicts, clock>>

PollFacts(a) ==
  LET fact(kind, content) ==
        [scope |-> <<kind, "pair_response", a.pair>>, at |-> a.at, content |-> content]
  IN  {fact("pair-fact", a.says.fact), fact("metadata", a.says.info),
       fact("boost", [active_boost_count |-> a.says.boosts, amount |-> None,
                      total_amount |-> None])}

IsActive(p) == \E e \in lifecycle : e.pair = p /\ e.state = "ACTIVE"

Owned(a) == a.owned

\* The transaction of a poll: the facts, the observation and the completion of the batch.
Complete(a) ==
  /\ Owned(a)
  /\ Record(PollFacts(a))
  /\ observations' = observations \cup {[pair |-> a.pair, at |-> a.at, price |-> a.says.price]}

\* With the evaluation of the lifecycle, whose time is that of the evaluation.
CommitPoll(a) ==
  /\ Complete(a)
  /\ polls' = polls \ {a}
  /\ \/ /\ a.says.trades /\ ~IsActive(a.pair)
        /\ \E decided_at \in a.at .. now :
             lifecycle' = lifecycle \cup
               {[pair |-> a.pair, state |-> "ACTIVE", at |-> a.at, decided_at |-> decided_at]}
     \/ /\ ~a.says.trades \/ IsActive(a.pair)
        /\ UNCHANGED lifecycle
  /\ UNCHANGED <<up, feeds, contexts, contextAt, conflicts, clock>>

\* The evaluation fails in its savepoint: the rest is committed, and LifecycleEvaluationError
\* then ends the collector.
CommitPollUnevaluated(a) ==
  /\ Complete(a)
  /\ Down
  /\ UNCHANGED <<lifecycle, contexts, conflicts, clock>>

\* LostPollLeaseError: the transaction is rolled back, and no loop expects the error.
LosePoll(a) ==
  /\ ~Owned(a)
  /\ Down
  /\ UNCHANGED <<stored, market, contexts, conflicts, clock>>
-----------------------------------------------------------------------------
(* Market context (MarketContextWorkflow.record_closed_bucket).            *)

\* Mutation of BucketEnd: the bucket that is still open.
BucketEndOpen(time) == Interval * (time \div Interval) + Interval
BucketEnd(time) == Interval * (time \div Interval)

InBucket(time, end) == end - Interval <= time /\ time < end

\* The latest committed observation of every pair in the bucket.
Sample(end) ==
  LET inside == {o \in observations : InBucket(o.at, end)} IN
  {o \in inside : \A other \in inside : other.pair = o.pair => other.at <= o.at}

Transitions(state, end) ==
  {e.pair : e \in {e \in lifecycle : e.state = state /\ InBucket(e.decided_at, end)}}

Cohort(end) ==
  {e.pair : e \in {e \in lifecycle : /\ e.state = "NEW"
                                     /\ end - 2 * CohortAge <= e.decided_at
                                     /\ e.decided_at < end - CohortAge}}
MatureActive(end) ==
  {p \in Cohort(end) : \E e \in lifecycle :
     e.pair = p /\ e.state = "ACTIVE" /\ e.decided_at < end}

\* The price of a sample: what the median is taken of, or None.
Price(sample) ==
  LET priced == {o \in sample : o.price # None} IN
  IF priced = {} THEN None ELSE {<<o.pair, o.price>> : o \in priced}

EarlierBuckets(end) ==
  {b \in DOMAIN contexts : b <= end - Interval /\ b >= end - Interval - Volatility}

\* The earlier prices the return and the volatility are computed from.
PriorPrices(end) ==
  {<<b, contexts[b].says.price>> :
     b \in {b \in EarlierBuckets(end) : contexts[b].says.price # None}}

Context(end) ==
  [sample |-> Sample(end), price |-> Price(Sample(end)), prior |-> PriorPrices(end),
   admitted |-> Transitions("NEW", end), activated |-> Transitions("ACTIVE", end),
   cohort |-> Cohort(end), mature |-> MatureActive(end)]

\* As history: what was committed and what was on its way when the context was recorded.
Snapshot(end) ==
  [says |-> Context(end), known |-> observations \cup lifecycle,
   underway |-> {<<a.pair, a.at>> : a \in polls}]

ContextDue ==
  /\ up
  /\ contextAt # None => now - contextAt >= Interval

RecordContext ==
  /\ ContextDue
  /\ BucketEnd(now) \notin DOMAIN contexts
  /\ contexts' = [b \in DOMAIN contexts \cup {BucketEnd(now)} |->
       IF b = BucketEnd(now) THEN Snapshot(b) ELSE contexts[b]]
  /\ contextAt' = now
  /\ UNCHANGED <<up, feeds, polls, stored, market, conflicts, clock>>

SameContext(end) == contexts[end].says = Context(end)

ConfirmContext ==
  /\ ContextDue
  /\ BucketEnd(now) \in DOMAIN contexts
  /\ SameContext(BucketEnd(now))
  /\ contextAt' = now
  /\ UNCHANGED <<up, feeds, polls, stored, market, contexts, conflicts, clock>>

\* EnrichmentIdentityConflictError, which no loop expects.
RejectContext ==
  /\ ContextDue
  /\ BucketEnd(now) \in DOMAIN contexts
  /\ ~SameContext(BucketEnd(now))
  /\ conflicts' = conflicts \cup {BucketEnd(now)}
  /\ Down
  /\ UNCHANGED <<stored, market, contexts, clock>>
-----------------------------------------------------------------------------
Next ==
  \/ Tick \/ StartCollector \/ StopCollector
  \/ \E f \in Feed : ReceiveFeed(f) \/ StoreRecord(f)
  \/ \E p \in Pair : ReceivePoll(p)
  \/ \E a \in polls :
       LeaseLost(a) \/ CommitPoll(a) \/ CommitPollUnevaluated(a) \/ LosePoll(a)
  \/ RecordContext \/ ConfirmContext \/ RejectContext

Spec == Init /\ [][Next]_vars
-----------------------------------------------------------------------------
(* Properties.                                                             *)

\* The rows of the tables; an event belongs to a boost observation.
IsRow(r) == r.scope \in Scope /\ r.at \in 1 .. lastAnswer /\ ~Empty(r.content)
IsEvent(e) ==
  /\ e.metric \in Metric /\ e.type \in {"first_seen", "state_change", "threshold_crossing"}
  /\ e.type = "threshold_crossing" <=> e.threshold \in Threshold
  /\ \E r \in rows : r.scope = e.scope /\ r.at = e.at
IsObservation(o) == o.pair \in Pair /\ o.at \in 1 .. lastAnswer
IsTransition(e) ==
  e.pair \in Pair /\ e.state \in {"NEW", "ACTIVE"} /\ e.at <= e.decided_at /\ e.decided_at <= now

\* Every answer waiting is of the past, every row is one of its table, only a running
\* collector holds answers.
TypeOK ==
  /\ now \in 0 .. MaxClock /\ received \in 0 .. MaxAnswers /\ starts \in 0 .. MaxStarts
  /\ lastAnswer \in 0 .. now
  /\ \A r \in rows : IsRow(r)
  /\ \A e \in events : IsEvent(e)
  /\ \A o \in observations : IsObservation(o)
  /\ \A e \in lifecycle : IsTransition(e)
  /\ \A a \in polls : a.at \in 1 .. lastAnswer
  /\ \A a, b \in polls : a.owned /\ b.owned /\ a.pair = b.pair => a = b
  /\ DOMAIN contexts \subseteq 0 .. now
  /\ ~up => polls = {} /\ contextAt = None /\ \A f \in Feed : feeds[f] = None

\* The scopes one writer at a time writes to, in the order it received its answers: all but
\* the metadata the two boost loops share.
OneWriter == {s \in Scope : s[1] = "metadata" => s[2] # "boost_feed"}

\* A change-only history says, at the receipt of every answer that was stored, exactly what
\* that answer said (record_if_changed): a value that comes back is written again, and an
\* answer committed late does not end up before one that was stored already.
HistoryExact ==
  \A s \in {s \in shown : s.scope \in OneWriter} :
    Latest(s.scope, s.at) # None /\ Latest(s.scope, s.at).content = s.content

\* The records have their types and the histories are exact.
HistoriesConsistent == TypeOK /\ HistoryExact

Count(scope, metric, threshold, way, from, to) ==
  Cardinality({e \in events : /\ e.type = "threshold_crossing" /\ e.scope = scope
                              /\ e.metric = metric /\ e.threshold = threshold
                              /\ e.up = way /\ from < e.at /\ e.at <= to})
AtLeast(value, threshold) == IF value >= threshold THEN 1 ELSE 0

\* From the last first_seen on, the crossings of a threshold add up: whoever follows the
\* events alone knows on which side of every threshold the metric is (_record_events).
CrossingsAddUp ==
  \A r \in {r \in rows : r.scope[1] = "boost"} : \A m \in Metric : r.content[m] # None =>
    LET firsts == {e.at : e \in {e \in events : /\ e.scope = r.scope /\ e.metric = m
                                               /\ e.type = "first_seen" /\ e.at <= r.at}}
    IN  /\ firsts # {}
        /\ \A h \in Threshold :
             AtLeast(Latest(r.scope, Max(firsts)).content[m], h)
               + Count(r.scope, m, h, TRUE, Max(firsts), r.at)
             = Count(r.scope, m, h, FALSE, Max(firsts), r.at) + AtLeast(r.content[m], h)

\* What a context counts and was committed after it was recorded: what belongs to its bucket,
\* and the transitions of its mature cohort, which may be older than the bucket.
Late(b) ==
  ({o \in observations : InBucket(o.at, b)} \cup
   {e \in lifecycle : \/ InBucket(e.decided_at, b)
                      \/ e.pair \in Cohort(b) /\ e.decided_at < b}) \ contexts[b].known

\* What the context of a bucket lacks was on its way when the context was recorded: the
\* bucket was over, so nothing can be received into it any more (record_closed_bucket).
ContextLacksOnlyUnderway ==
  \A b \in DOMAIN contexts : \A x \in Late(b) : <<x.pair, x.at>> \in contexts[b].underway

\* A stored context is contradicted after a restart only by an answer it counts that was
\* committed between the two (MarketContextRepository.record); without one it is confirmed,
\* whatever contexts were recorded meanwhile.
ConflictsAreLateAnswers == \A b \in conflicts : Late(b) # {}

\* Whatever a context misses or contradicts is explained by an answer committed late.
ContextsExplained == ContextLacksOnlyUnderway /\ ConflictsAreLateAnswers
=============================================================================
