---------------------- MODULE UniversalEnrichmentProofs ----------------------
(* Change-only histories say what every stored answer said, the events of a *)
(* metric add up to it, and a market context lacks only what was underway.  *)
EXTENDS UniversalEnrichment, FiniteSetTheorems, SequenceTheorems, WellFoundedInduction, TLAPS

(* Numbers and buckets.                                                     *)

LEMMA LeastExists ==
  ASSUME NEW S \in SUBSET Nat, S # {}
  PROVE  \E n \in S : \A k \in S : n <= k
<1>1. PICK n \in S : \A k \in S : <<k, n>> \notin OpToRel(<, Nat)
  BY NatLessThanWellFounded, WFMin, Zenon
<1>2. \A k \in S : ~ (k < n)
  BY <1>1, Zenon DEF OpToRel
<1>. QED
  BY <1>2

\* A bounded set of numbers has a greatest one.
LEMMA GreatestExists ==
  ASSUME NEW S \in SUBSET Nat, S # {}, NEW N \in Nat, \A k \in S : k <= N
  PROVE  \E n \in S : \A k \in S : k <= n
<1>. DEFINE bounds == {m \in Nat : \A k \in S : k <= m}
<1>1. bounds \in SUBSET Nat /\ bounds # {}
  OBVIOUS
<1>. HIDE DEF bounds
<1>2. PICK n \in bounds : \A m \in bounds : n <= m
  BY <1>1, LeastExists
<1>3. n \in Nat /\ \A k \in S : k <= n
  BY <1>2 DEF bounds
<1>4. ASSUME n \notin S
      PROVE  FALSE
  <2>1. \A k \in S : k < n
    BY <1>3, <1>4
  <2>2. PICK k \in S : TRUE
    OBVIOUS
  <2>3. k \in Nat /\ k < n
    BY <2>1, <2>2
  <2>4. n - 1 \in Nat /\ \A j \in S : j <= n - 1
    BY <1>3, <2>1, <2>3
  <2>5. n - 1 \in bounds
    BY <2>4 DEF bounds
  <2>. QED
    BY <1>2, <1>3, <2>5
<1>. QED
  BY <1>3, <1>4

LEMMA MaxIsGreatest ==
  ASSUME NEW S \in SUBSET Nat, S # {}, NEW N \in Nat, \A k \in S : k <= N
  PROVE  Max(S) \in S /\ \A k \in S : k <= Max(S)
<1>1. PICK n \in S : \A k \in S : k <= n
  BY GreatestExists
<1>. QED
  BY <1>1 DEF Max

LEMMA BucketIsPast ==
  ASSUME NEW n \in Nat
  PROVE  BucketEnd(n) \in 0 .. n
<1>1. Interval \in Nat \ {0}
  BY EnrichmentAssumption
<1>2. n \div Interval \in Nat /\ Interval * (n \div Interval) <= n
  BY <1>1
<1>. QED
  BY <1>1, <1>2 DEF BucketEnd

LEMMA BucketsAscend ==
  ASSUME NEW m \in Nat, NEW n \in Nat, m <= n
  PROVE  BucketEnd(m) <= BucketEnd(n)
<1>1. Interval \in Nat \ {0}
  BY EnrichmentAssumption
<1>2. m \div Interval \in Nat /\ n \div Interval \in Nat /\ m \div Interval <= n \div Interval
  BY <1>1
<1>. QED
  BY <1>1, <1>2 DEF BucketEnd

(* The inductive invariant.                                                 *)

IsFact(r) ==
  /\ r \in [scope : Scope, at : 1 .. lastAnswer, content : Content]
  /\ ~Empty(r.content)
  /\ r.scope[1] = "boost" => r.content \in Boosts

FactsTyped == (\A r \in rows : IsFact(r)) /\ (\A r \in shown : IsFact(r))

EventShape ==
  [scope : Scope, at : Nat, type : {"first_seen", "state_change", "threshold_crossing"},
   metric : Metric, threshold : Threshold \cup {None}, up : BOOLEAN]
EventsTyped == \A e \in events : e \in EventShape /\ IsEvent(e)

Answer == [at : Nat, records : Seq(Listing)]
FeedTyped(f) ==
  feeds[f] # None =>
    /\ feeds[f] \in Answer /\ feeds[f].at \in 1 .. lastAnswer /\ feeds[f].records # <<>>
    /\ \A i, j \in DOMAIN feeds[f].records :
         feeds[f].records[i].pair = feeds[f].records[j].pair => i = j
FeedsTyped == feeds \in [Feed -> Answer \cup {None}] /\ \A f \in Feed : FeedTyped(f)

IsPoll(a) == a \in [pair : Pair, at : 1 .. lastAnswer, says : PairAnswer, owned : BOOLEAN]
PollsTyped ==
  /\ \A a \in polls : IsPoll(a)
  /\ \A a, b \in polls : a.owned /\ b.owned /\ a.pair = b.pair => a = b

Observed(pair, at, price) == [pair |-> pair, at |-> at, price |-> price]
Moved(pair, state, at, decided_at) ==
  [pair |-> pair, state |-> state, at |-> at, decided_at |-> decided_at]
Admitted == {Moved(p, "NEW", 0, 0) : p \in Pair}

MarketTyped ==
  /\ \A o \in observations : IsObservation(o) /\ o = Observed(o.pair, o.at, o.price)
  /\ \A e \in lifecycle :
       /\ e = Moved(e.pair, e.state, e.at, e.decided_at)
       /\ e.at \in Nat /\ e.decided_at \in Nat /\ IsTransition(e)
       /\ e.state = "NEW" => e \in Admitted
  /\ Admitted \subseteq lifecycle

ClockTyped ==
  /\ now \in 0 .. MaxClock /\ received \in 0 .. MaxAnswers /\ starts \in 0 .. MaxStarts
  /\ lastAnswer \in 0 .. now
  /\ ~up => polls = {} /\ contextAt = None /\ \A f \in Feed : feeds[f] = None

Typed == ClockTyped /\ FactsTyped /\ EventsTyped /\ FeedsTyped /\ PollsTyped /\ MarketTyped

\* What a process holds is newer than anything stored of the scopes it alone writes to, and
\* no two answers have the same time.
FeedNewer(f) ==
  feeds[f] # None =>
    \A r \in rows \cup shown : \A i \in DOMAIN feeds[f].records :
      LET pair == feeds[f].records[i].pair
      IN  /\ r.scope = <<"boost", f, pair>> => r.at < feeds[f].at
          /\ r.scope = <<"metadata", "boost_feed", pair>> => r.at # feeds[f].at
PollNewer(a) ==
  a.owned => \A r \in rows \cup shown :
               r.scope[2] = "pair_response" /\ r.scope[3] = a.pair => r.at < a.at
FeedsApart ==
  \A f, g \in Feed : feeds[f] # None /\ feeds[g] # None /\ f # g => feeds[f].at # feeds[g].at
HeldNewer ==
  (\A f \in Feed : FeedNewer(f)) /\ (\A a \in polls : PollNewer(a)) /\ FeedsApart

RowsUnique == \A r, s \in rows : r.scope = s.scope /\ r.at = s.at => r = s

Histories == HeldNewer /\ RowsUnique /\ HistoryExact

\* The terms of CrossingsAddUp.
Crossings(scope, metric, threshold, way) ==
  {e \in events : /\ e.type = "threshold_crossing" /\ e.scope = scope
                  /\ e.metric = metric /\ e.threshold = threshold /\ e.up = way}
Between(scope, metric, threshold, way, from, to) ==
  {e \in events : /\ e.type = "threshold_crossing" /\ e.scope = scope
                  /\ e.metric = metric /\ e.threshold = threshold
                  /\ e.up = way /\ from < e.at /\ e.at <= to}
Firsts(scope, metric, at) ==
  {e.at : e \in {e \in events : /\ e.scope = scope /\ e.metric = metric
                               /\ e.type = "first_seen" /\ e.at <= at}}

AddUp(r, m) ==
  LET first == Max(Firsts(r.scope, m, r.at)) IN
  /\ Firsts(r.scope, m, r.at) # {}
  /\ \A h \in Threshold :
       AtLeast(Latest(r.scope, first).content[m], h)
         + Cardinality(Between(r.scope, m, h, TRUE, first, r.at))
       = Cardinality(Between(r.scope, m, h, FALSE, first, r.at)) + AtLeast(r.content[m], h)

\* A context explains what it lacks, and says the same again unless something came late.
ContextSound(b) ==
  /\ b \in 0 .. now
  /\ \A a \in polls : a.at < b => <<a.pair, a.at>> \in contexts[b].underway
  /\ contexts[b].known \subseteq observations \cup lifecycle
  /\ Admitted \subseteq contexts[b].known
  /\ \A x \in (observations \cup lifecycle) \ contexts[b].known :
       x.at < b => <<x.pair, x.at>> \in contexts[b].underway
  /\ Late(b) = {} => contexts[b].says = Context(b)
ContextsSound ==
  /\ \A b \in DOMAIN contexts : ContextSound(b) /\ \E t \in 0 .. now : b = BucketEnd(t)
  /\ \A b \in conflicts : b \in DOMAIN contexts /\ Late(b) # {}

(* Types.                                                                   *)

LEMMA Constants ==
  /\ MaxClock \in Nat /\ MaxAnswers \in Nat /\ MaxStarts \in Nat
  /\ Interval \in Nat \ {0} /\ Volatility \in Nat /\ CohortAge \in Nat
  /\ Threshold \subseteq Nat \ {0} /\ None \notin Int /\ None \notin Nat /\ None \notin Threshold
<1>1. None \notin Int
  BY EnrichmentAssumption
<1>2. Threshold \subseteq Nat \ {0}
  BY EnrichmentAssumption
<1>3. None \notin Nat
  BY <1>1
<1>4. None \notin Threshold
  BY <1>2, <1>3
<1>5. MaxClock \in Nat /\ MaxAnswers \in Nat /\ MaxStarts \in Nat
  BY EnrichmentAssumption
<1>6. Interval \in Nat \ {0} /\ Volatility \in Nat /\ CohortAge \in Nat
  BY EnrichmentAssumption
<1>. QED
  BY <1>1, <1>2, <1>3, <1>4, <1>5, <1>6

LEMMA NoneIsNoFact == \A r : IsFact(r) => r # None
<1>1. \A r \in [scope : Scope, at : Nat, content : Content] : r # None
  BY EnrichmentAssumption
<1>2. \A r \in [scope : Scope, at : 1 .. lastAnswer, content : Content] :
        r \in [scope : Scope, at : Nat, content : Content]
  OBVIOUS
<1>. QED
  BY <1>1, <1>2 DEF IsFact

\* The scopes, by their parts.
LEMMA ScopeParts ==
  /\ \A f \in Feed, p \in Pair : <<"boost", f, p>> \in Scope
  /\ \A p \in Pair : /\ <<"boost", "pair_response", p>> \in Scope
                     /\ <<"metadata", "pair_response", p>> \in Scope
                     /\ <<"pair-fact", "pair_response", p>> \in Scope
                     /\ <<"metadata", "boost_feed", p>> \in Scope
BY DEF Scope

\* The facts of an answer, one for each of their scopes, at the time of the answer.
FactsOf(facts, at) ==
  /\ \A r \in facts : /\ r \in [scope : Scope, at : {at}, content : Content]
                      /\ r.scope[1] = "boost" => r.content \in Boosts
  /\ \A r, s \in facts : r.scope = s.scope => r = s

LEMMA ListingFields ==
  ASSUME NEW r \in Listing
  PROVE  /\ r.pair \in Pair /\ r.amount \in Value /\ r.total_amount \in Value
         /\ r.links \in Content
BY EnrichmentAssumption DEF Content

LEMMA PairAnswerFields ==
  ASSUME NEW a \in PairAnswer
  PROVE  a.fact \in Content /\ a.info \in Content /\ a.boosts \in Value /\ a.trades \in BOOLEAN
BY EnrichmentAssumption DEF Content

LEMMA BoostsAreContent ==
  ASSUME NEW x \in Value, NEW y \in Value, NEW z \in Value
  PROVE  LET c == [active_boost_count |-> x, amount |-> y, total_amount |-> z]
         IN  c \in Boosts /\ c \in Content
BY DEF Content, Boosts

LEMMA FeedFactsAre ==
  ASSUME Typed, NEW f \in Feed, feeds[f] # None
  PROVE  FactsOf(FeedFacts(f), feeds[f].at)
<1>. DEFINE record == Head(feeds[f].records)
            at == feeds[f].at
            boost == [scope |-> <<"boost", f, record.pair>>, at |-> at,
                      content |-> [active_boost_count |-> None, amount |-> record.amount,
                                   total_amount |-> record.total_amount]]
            metadata == [scope |-> <<"metadata", "boost_feed", record.pair>>, at |-> at,
                         content |-> record.links]
<1>1. FeedFacts(f) = {boost, metadata}
  BY DEF FeedFacts
<1>2. record \in Listing
  BY DEF Typed, FeedsTyped, FeedTyped, Answer
<1>. HIDE DEF record
<1>3. record.pair \in Pair /\ record.amount \in Value /\ record.total_amount \in Value
      /\ record.links \in Content /\ None \in Value
  BY <1>2, ListingFields DEF Value
<1>4. boost.content \in Boosts /\ boost.content \in Content
  BY <1>3, BoostsAreContent
<1>5. boost \in [scope : Scope, at : {at}, content : Content]
  BY <1>3, <1>4, ScopeParts
<1>6. metadata \in [scope : Scope, at : {at}, content : Content] /\ metadata.scope[1] = "metadata"
  BY <1>3, ScopeParts
<1>7. boost.scope # metadata.scope
  OBVIOUS
<1>. HIDE DEF boost, metadata
<1>. QED
  BY <1>1, <1>4, <1>5, <1>6, <1>7 DEF FactsOf

LEMMA PollFactsAre ==
  ASSUME Typed, NEW a \in polls
  PROVE  FactsOf(PollFacts(a), a.at)
<1>. DEFINE fact(kind, content) ==
              [scope |-> <<kind, "pair_response", a.pair>>, at |-> a.at, content |-> content]
            pair == fact("pair-fact", a.says.fact)
            metadata == fact("metadata", a.says.info)
            boost == fact("boost", [active_boost_count |-> a.says.boosts, amount |-> None,
                                    total_amount |-> None])
<1>1. PollFacts(a) = {pair, metadata, boost}
  BY DEF PollFacts
<1>2. a.pair \in Pair /\ a.says \in PairAnswer
  BY DEF Typed, PollsTyped, IsPoll
<1>3. a.says.fact \in Content /\ a.says.info \in Content /\ a.says.boosts \in Value
      /\ None \in Value
  BY <1>2, PairAnswerFields DEF Value
<1>4. boost.content \in Boosts /\ boost.content \in Content
  BY <1>3, BoostsAreContent
<1>5. boost \in [scope : Scope, at : {a.at}, content : Content]
  BY <1>2, <1>4, ScopeParts
<1>6. /\ pair \in [scope : Scope, at : {a.at}, content : Content] /\ pair.scope[1] = "pair-fact"
      /\ metadata \in [scope : Scope, at : {a.at}, content : Content]
      /\ metadata.scope[1] = "metadata"
  BY <1>2, <1>3, ScopeParts
<1>7. pair.scope # metadata.scope /\ boost.scope # metadata.scope /\ boost.scope # pair.scope
  OBVIOUS
<1>. HIDE DEF boost, metadata, pair
<1>. QED
  BY <1>1, <1>4, <1>5, <1>6, <1>7 DEF FactsOf

(* Rows and events of new facts.                                            *)

LatestOf(known) ==
  IF known = {} THEN None ELSE CHOOSE r \in known : \A s \in known : s.at <= r.at
LatestIn(table, scope, at) == LatestOf({r \in table : r.scope = scope /\ r.at <= at})

LEMMA LatestInIs ==
  ASSUME NEW table, \A r \in table : r.at \in Nat /\ r # None, NEW scope, NEW at \in Nat
  PROVE  LET known == {r \in table : r.scope = scope /\ r.at <= at}
             latest == LatestIn(table, scope, at)
         IN  /\ known = {} => latest = None
             /\ known # {} => /\ latest \in known /\ latest # None
                              /\ \A r \in known : r.at <= latest.at
<1>. DEFINE known == {r \in table : r.scope = scope /\ r.at <= at}
            times == {r.at : r \in known}
            latest == CHOOSE r \in known : \A s \in known : s.at <= r.at
<1>1. LatestIn(table, scope, at) = IF known = {} THEN None ELSE latest
  BY DEF LatestIn, LatestOf
<1>2. ASSUME known # {}
      PROVE  \E r \in known : \A s \in known : s.at <= r.at
  <2>1. \A r \in known : r.at \in Nat /\ r.at <= at
    OBVIOUS
  <2>2. times \in SUBSET Nat /\ times # {} /\ \A n \in times : n <= at
    BY <1>2, <2>1
  <2>. HIDE DEF times
  <2>3. PICK n \in times : \A k \in times : k <= n
    BY <2>2, GreatestExists
  <2>. QED
    BY <2>3 DEF times
<1>3. known # {} => latest \in known /\ \A r \in known : r.at <= latest.at
  BY <1>2
<1>4. \A r \in known : r # None
  OBVIOUS
<1>. HIDE DEF known, latest
<1>5. /\ known = {} => LatestIn(table, scope, at) = None
      /\ known # {} => /\ LatestIn(table, scope, at) \in known
                       /\ LatestIn(table, scope, at) # None
                       /\ \A r \in known : r.at <= LatestIn(table, scope, at).at
  BY <1>1, <1>3, <1>4
<1>. QED
  BY <1>5 DEF known

LEMMA LatestIsIn ==
  ASSUME NEW scope, NEW at
  PROVE  /\ Latest(scope, at) = LatestIn(rows, scope, at)
         /\ Latest(scope, at)' = LatestIn(rows', scope, at)
BY DEF Latest, LatestIn, LatestOf

LEMMA RowTimes ==
  ASSUME FactsTyped, lastAnswer \in Nat
  PROVE  \A r \in rows : r.at \in Nat /\ r # None /\ r.at <= lastAnswer
BY NoneIsNoFact DEF FactsTyped, IsFact

LEMMA BoostValues ==
  ASSUME NEW c \in Boosts, NEW m \in Metric
  PROVE  c[m] \in Value
BY DEF Boosts, Metric

LEMMA EventFields ==
  ASSUME NEW row, NEW m \in Metric, row.scope \in Scope, row.at \in Nat,
         NEW e \in MetricEvents(row, m)
  PROVE  /\ e \in EventShape /\ e.scope = row.scope /\ e.at = row.at /\ e.metric = m
         /\ e.type = "threshold_crossing" <=> e.threshold \in Threshold
<1>. DEFINE previous == Latest(row.scope, MaxClock)
            before == IF previous = None THEN None ELSE previous.content[m]
            after == row.content[m]
            higher == after > before
<1>1. \/ e = BoostEvent(row, "first_seen", m, None, FALSE)
      \/ e = BoostEvent(row, "state_change", m, None, higher)
      \/ \E h \in Threshold : e = BoostEvent(row, "threshold_crossing", m, h, higher)
  BY DEF MetricEvents
<1>2. higher \in BOOLEAN
  OBVIOUS
<1>. HIDE DEF higher
<1>3. CASE e = BoostEvent(row, "first_seen", m, None, FALSE)
  BY <1>3, Constants DEF BoostEvent, EventShape
<1>4. CASE e = BoostEvent(row, "state_change", m, None, higher)
  BY <1>2, <1>4, Constants DEF BoostEvent, EventShape
<1>5. ASSUME NEW h \in Threshold, e = BoostEvent(row, "threshold_crossing", m, h, higher)
      PROVE  /\ e \in EventShape /\ e.scope = row.scope /\ e.at = row.at /\ e.metric = m
             /\ e.type = "threshold_crossing" <=> e.threshold \in Threshold
  BY <1>2, <1>5 DEF BoostEvent, EventShape
<1>. QED
  BY <1>1, <1>3, <1>4, <1>5

\* The facts are recorded at the time of their answer.
LEMMA NewRows ==
  ASSUME Typed, NEW facts, NEW at \in 1 .. lastAnswer, FactsOf(facts, at), Record(facts)
  PROVE  LET new == rows' \ rows
         IN  /\ new \subseteq facts /\ rows' = rows \cup new
             /\ \A r \in facts : IsFact(r) \/ Empty(r.content)
             /\ \A r \in new : IsFact(r) /\ r.at = at
             /\ \A r \in shown' \ shown : r \in facts /\ IsFact(r) /\ r.at = at
             /\ shown \subseteq shown'
<1>1. \A r \in facts : r.at = at /\ (IsFact(r) \/ Empty(r.content))
  BY DEF FactsOf, IsFact
<1>2. \A r \in Recorded(facts) : r \in facts /\ ~Empty(r.content)
  BY DEF Recorded
<1>3. /\ rows' = rows \cup Recorded(facts)
      /\ shown' = shown \cup {fact \in facts : ~Empty(fact.content)}
  BY DEF Record
<1>. QED
  BY <1>1, <1>2, <1>3

LEMMA AllRowTimes ==
  ASSUME Typed, NEW facts, NEW at \in 1 .. lastAnswer, FactsOf(facts, at), Record(facts)
  PROVE  \A r \in rows' : r.at \in Nat /\ r # None
<1>1. lastAnswer \in Nat
  BY DEF Typed, ClockTyped
<1>2. \A r \in rows : r.at \in Nat /\ r # None
  BY <1>1, RowTimes DEF Typed
<1>3. \A r \in rows' \ rows : IsFact(r)
  BY NewRows
<1>4. \A r \in rows' \ rows : r.at \in Nat /\ r # None
  BY <1>1, <1>3, NoneIsNoFact DEF IsFact
<1>. QED
  BY <1>2, <1>4

LEMMA RecordTyped ==
  ASSUME Typed, NEW facts, NEW at \in 1 .. lastAnswer, FactsOf(facts, at), Record(facts),
         lastAnswer' = lastAnswer
  PROVE  FactsTyped' /\ EventsTyped'
<1>. DEFINE new == Recorded(facts)
            boosts == {r \in new : r.scope[1] = "boost"}
<1>1. /\ rows' = rows \cup new
      /\ events' = events \cup UNION {MetricEvents(r, m) : r \in boosts, m \in Metric}
  BY DEF Record
<1>2. \A r : IsFact(r) => IsFact(r)'
  BY DEF IsFact, Empty
<1>3. \A r \in new : IsFact(r) /\ r.at = at
  <2>1. \A r \in facts : r.at = at /\ (IsFact(r) \/ Empty(r.content))
    BY DEF FactsOf, IsFact
  <2>. QED
    BY <2>1 DEF Recorded
<1>4. FactsTyped'
  <2>1. \A r \in rows' : IsFact(r)
    BY <1>1, <1>3 DEF Typed, FactsTyped
  <2>2. \A r \in shown' : IsFact(r)
    BY NewRows DEF Typed, FactsTyped
  <2>. QED
    BY <1>2, <2>1, <2>2 DEF FactsTyped
<1>. HIDE DEF new
<1>5. ASSUME NEW e \in events'
      PROVE  e \in EventShape /\ IsEvent(e)'
  <2>1. CASE e \in events
    <3>1. e \in EventShape /\ IsEvent(e)
      BY <2>1 DEF Typed, EventsTyped
    <3>. QED
      BY <1>1, <3>1 DEF IsEvent
  <2>2. CASE e \notin events
    <3>1. PICK r \in boosts, m \in Metric : e \in MetricEvents(r, m)
      BY <1>1, <2>2
    <3>2. r \in new /\ r.scope \in Scope /\ r.at \in Nat
      BY <1>3 DEF IsFact
    <3>3. /\ e \in EventShape /\ e.scope = r.scope /\ e.at = r.at /\ e.metric = m
          /\ e.type = "threshold_crossing" <=> e.threshold \in Threshold
      BY <3>1, <3>2, EventFields
    <3>4. r \in rows'
      BY <1>1, <3>2
    <3>. QED
      BY <3>3, <3>4 DEF IsEvent, EventShape
  <2>. QED
    BY <2>1, <2>2
<1>. QED
  BY <1>4, <1>5 DEF EventsTyped

(* Every action keeps the types.                                            *)

LEMMA FactsStay ==
  ASSUME Typed, UNCHANGED stored, lastAnswer' \in Nat, lastAnswer <= lastAnswer'
  PROVE  FactsTyped' /\ EventsTyped'
<1>1. lastAnswer \in Nat
  BY DEF Typed, ClockTyped
<1>2. \A r : IsFact(r) => IsFact(r)'
  BY <1>1 DEF IsFact, Empty
<1>3. FactsTyped'
  BY <1>2 DEF Typed, FactsTyped, stored
<1>4. EventsTyped'
  BY DEF Typed, EventsTyped, IsEvent, stored
<1>. QED
  BY <1>3, <1>4

LEMMA MarketStays ==
  ASSUME Typed, UNCHANGED market, lastAnswer' \in Nat, lastAnswer <= lastAnswer',
         now' \in Nat, now <= now'
  PROVE  MarketTyped'
<1>1. lastAnswer \in Nat /\ now \in Nat
  BY DEF Typed, ClockTyped
<1>2. \A o \in observations : IsObservation(o) => IsObservation(o)'
  BY <1>1 DEF IsObservation
<1>3. \A e \in lifecycle : e.decided_at \in Nat /\ IsTransition(e) => IsTransition(e)'
  BY <1>1 DEF IsTransition
<1>. QED
  BY <1>2, <1>3 DEF Typed, MarketTyped, market

LEMMA DownTyped ==
  ASSUME Down
  PROVE  FeedsTyped' /\ PollsTyped' /\ polls' = {} /\ contextAt' = None /\ ~up'
         /\ \A f \in Feed : feeds'[f] = None
BY DEF Down, FeedsTyped, FeedTyped, PollsTyped

LEMMA HeldStay ==
  ASSUME Typed, UNCHANGED <<feeds, polls>>, lastAnswer' \in Nat, lastAnswer <= lastAnswer'
  PROVE  FeedsTyped' /\ PollsTyped'
<1>1. lastAnswer \in Nat
  BY DEF Typed, ClockTyped
<1>2. \A a : IsPoll(a) => IsPoll(a)'
  BY <1>1 DEF IsPoll
<1>3. PollsTyped'
  BY <1>2 DEF Typed, PollsTyped
<1>4. \A f \in Feed : FeedTyped(f)'
  BY <1>1 DEF Typed, FeedsTyped, FeedTyped
<1>. QED
  BY <1>3, <1>4 DEF Typed, FeedsTyped

\* The time of an answer.
LEMMA AnsweredAt ==
  ASSUME Typed, Answered, now' = now, starts' = starts
  PROVE  /\ lastAnswer \in Nat /\ lastAnswer < now /\ lastAnswer' = now /\ now \in 1 .. MaxClock
         /\ up /\ received' \in 0 .. MaxAnswers
BY Constants DEF Typed, ClockTyped, Answered

LEMMA ReceiveFeedTyped ==
  ASSUME Typed, NEW f \in Feed, ReceiveFeed(f)
  PROVE  Typed'
<1>1. /\ lastAnswer \in Nat /\ lastAnswer < now /\ lastAnswer' = now /\ now \in 1 .. MaxClock
      /\ up /\ received' \in 0 .. MaxAnswers
  BY AnsweredAt DEF ReceiveFeed
<1>2. FactsTyped' /\ EventsTyped'
  BY <1>1, FactsStay DEF ReceiveFeed
<1>3. MarketTyped'
  BY <1>1, MarketStays DEF ReceiveFeed
<1>4. ClockTyped'
  BY <1>1 DEF ReceiveFeed, Typed, ClockTyped
<1>5. \A a : IsPoll(a) => IsPoll(a)'
  BY <1>1 DEF IsPoll
<1>6. PollsTyped'
  BY <1>5 DEF Typed, PollsTyped, ReceiveFeed
<1>7. PICK l \in FeedAnswer : feeds' = [feeds EXCEPT ![f] = [at |-> now, records |-> l]]
  BY DEF ReceiveFeed
<1>8. l \in Seq(Listing) /\ l # <<>> /\ \A i, j \in DOMAIN l : l[i].pair = l[j].pair => i = j
  BY EnrichmentAssumption
<1>9. [at |-> now, records |-> l] \in Answer
  BY <1>1, <1>8 DEF Answer
<1>10. feeds' \in [Feed -> Answer \cup {None}]
  BY <1>7, <1>9 DEF Typed, FeedsTyped
<1>11. FeedTyped(f)'
  BY <1>1, <1>7, <1>8, <1>9 DEF Typed, FeedsTyped, FeedTyped
<1>12. ASSUME NEW g \in Feed, g # f
       PROVE  FeedTyped(g)'
  <2>1. feeds'[g] = feeds[g]
    BY <1>7, <1>12 DEF Typed, FeedsTyped
  <2>. QED
    BY <1>1, <2>1 DEF Typed, FeedsTyped, FeedTyped
<1>13. FeedsTyped'
  BY <1>10, <1>11, <1>12 DEF FeedsTyped
<1>. QED
  BY <1>2, <1>3, <1>4, <1>6, <1>13 DEF Typed

LEMMA ReceivePollTyped ==
  ASSUME Typed, NEW p \in Pair, ReceivePoll(p)
  PROVE  Typed'
<1>1. /\ lastAnswer \in Nat /\ lastAnswer < now /\ lastAnswer' = now /\ now \in 1 .. MaxClock
      /\ up /\ received' \in 0 .. MaxAnswers
  BY AnsweredAt DEF ReceivePoll
<1>2. FactsTyped' /\ EventsTyped'
  BY <1>1, FactsStay DEF ReceivePoll
<1>3. MarketTyped'
  BY <1>1, MarketStays DEF ReceivePoll
<1>4. ClockTyped'
  BY <1>1 DEF ReceivePoll, Typed, ClockTyped
<1>5. \A a : IsPoll(a) => IsPoll(a)'
  BY <1>1 DEF IsPoll
<1>6. PICK says \in PairAnswer :
        polls' = polls \cup {[pair |-> p, at |-> now, says |-> says, owned |-> TRUE]}
  BY DEF ReceivePoll
<1>. DEFINE new == [pair |-> p, at |-> now, says |-> says, owned |-> TRUE]
<1>13. new \in [pair : Pair, at : 1 .. lastAnswer', says : PairAnswer, owned : BOOLEAN]
       /\ new.pair = p
  BY <1>1
<1>14. polls' = polls \cup {new}
  BY <1>6
<1>. HIDE DEF new
<1>7. \A a \in polls' : IsPoll(a)'
  <2>1. \A a \in polls : IsPoll(a)'
    BY <1>5 DEF Typed, PollsTyped
  <2>2. \A a : a = new => IsPoll(a)'
    BY <1>13 DEF IsPoll
  <2>. QED
    BY <1>14, <2>1, <2>2
<1>8. \A a \in polls : a.pair = p => ~a.owned
  BY DEF ReceivePoll
<1>9. \A a, b \in polls' : a.owned /\ b.owned /\ a.pair = b.pair => a = b
  BY <1>8, <1>13, <1>14 DEF Typed, PollsTyped
<1>10. \A g \in Feed : FeedTyped(g)'
  BY <1>1 DEF Typed, FeedsTyped, FeedTyped, ReceivePoll
<1>11. FeedsTyped'
  BY <1>10 DEF Typed, FeedsTyped, ReceivePoll
<1>. QED
  BY <1>2, <1>3, <1>4, <1>7, <1>9, <1>11 DEF Typed, PollsTyped

LEMMA TailIs ==
  ASSUME NEW l \in Seq(Listing), l # <<>>
  PROVE  /\ Tail(l) \in Seq(Listing) /\ Head(l) = l[1] /\ 1 \in DOMAIN l
         /\ \A i \in DOMAIN Tail(l) : /\ i \in Int /\ i >= 1 /\ i + 1 \in DOMAIN l
                                      /\ Tail(l)[i] = l[i + 1]
<1>1. Len(l) \in Nat /\ DOMAIN l = 1 .. Len(l) /\ Len(l) >= 1
  <2>1. Len(l) \in Nat /\ DOMAIN l = 1 .. Len(l)
    OBVIOUS
  <2>2. Len(l) # 0
    OBVIOUS
  <2>. QED
    BY <2>1, <2>2
<1>2. /\ Tail(l) \in Seq(Listing) /\ Len(Tail(l)) = Len(l) - 1
      /\ \A i \in 1 .. Len(Tail(l)) : Tail(l)[i] = l[i + 1]
  BY <1>1, HeadTailProperties
<1>3. DOMAIN Tail(l) = 1 .. Len(l) - 1
  BY <1>2
<1>. QED
  BY <1>1, <1>2, <1>3

LEMMA StoreRecordHolds ==
  ASSUME Typed, NEW f \in Feed, StoreRecord(f)
  PROVE  /\ feeds[f] \in Answer /\ feeds[f].at \in 1 .. lastAnswer
         /\ Head(feeds[f].records) = feeds[f].records[1] /\ 1 \in DOMAIN feeds[f].records
         /\ feeds' \in [Feed -> Answer \cup {None}]
         /\ \A g \in Feed : g # f => feeds'[g] = feeds[g]
         /\ feeds'[f] # None =>
              /\ feeds'[f].at = feeds[f].at /\ feeds'[f].records # <<>>
              /\ \A i \in DOMAIN feeds'[f].records :
                   /\ i \in Int /\ i >= 1 /\ i + 1 \in DOMAIN feeds[f].records
                   /\ feeds'[f].records[i] = feeds[f].records[i + 1]
<1>. DEFINE l == feeds[f].records
            tail == Tail(l)
            rest == IF tail = <<>> THEN None ELSE [at |-> feeds[f].at, records |-> tail]
<1>1. feeds[f] # None /\ feeds[f] \in Answer /\ l \in Seq(Listing) /\ l # <<>>
      /\ feeds[f].at \in 1 .. lastAnswer /\ feeds \in [Feed -> Answer \cup {None}]
  BY DEF StoreRecord, Typed, FeedsTyped, FeedTyped, Answer
<1>2. feeds' = [feeds EXCEPT ![f] = rest]
  BY DEF StoreRecord
<1>. HIDE DEF l
<1>3. /\ tail \in Seq(Listing) /\ Head(l) = l[1] /\ 1 \in DOMAIN l
      /\ \A i \in DOMAIN tail : /\ i \in Int /\ i >= 1 /\ i + 1 \in DOMAIN l
                                /\ tail[i] = l[i + 1]
  BY <1>1, TailIs
<1>. HIDE DEF tail
<1>4. rest \in Answer \cup {None}
  BY <1>1, <1>3 DEF Answer
<1>5. rest # None =>
        /\ rest.at = feeds[f].at /\ rest.records # <<>>
        /\ \A i \in DOMAIN rest.records : /\ i \in Int /\ i >= 1 /\ i + 1 \in DOMAIN l
                                          /\ rest.records[i] = l[i + 1]
  <2>1. CASE tail = <<>>
    BY <2>1
  <2>2. CASE tail # <<>>
    <3>1. rest.at = feeds[f].at /\ rest.records = tail
      BY <2>2
    <3>. QED
      BY <1>3, <2>2, <3>1
  <2>. QED
    BY <2>1, <2>2
<1>. HIDE DEF rest
<1>6. feeds'[f] = rest /\ \A g \in Feed : g # f => feeds'[g] = feeds[g]
  BY <1>1, <1>2
<1>7. feeds' \in [Feed -> Answer \cup {None}]
  BY <1>1, <1>2, <1>4
<1>. QED
  BY <1>1, <1>3, <1>5, <1>6, <1>7 DEF l

LEMMA StoreRecordTyped ==
  ASSUME Typed, NEW f \in Feed, StoreRecord(f)
  PROVE  Typed'
<1>1. /\ feeds[f] # None /\ feeds[f].at \in 1 .. lastAnswer /\ Record(FeedFacts(f))
      /\ UNCHANGED <<up, polls, market, contexts, contextAt, conflicts, clock>>
  BY StoreRecordHolds DEF StoreRecord
<1>2. now \in Nat /\ lastAnswer \in Nat /\ lastAnswer' = lastAnswer /\ now' = now
  BY <1>1 DEF Typed, ClockTyped, clock
<1>3. FactsTyped' /\ EventsTyped'
  BY <1>1, <1>2, FeedFactsAre, RecordTyped
<1>4. MarketTyped'
  BY <1>1, <1>2, MarketStays
<1>5. PollsTyped'
  <2>1. \A a : IsPoll(a) => IsPoll(a)'
    BY <1>2 DEF IsPoll
  <2>. QED
    BY <1>1, <2>1 DEF Typed, PollsTyped
<1>6. FeedTyped(f)'
  <2>1. \A i, j \in DOMAIN feeds[f].records :
          feeds[f].records[i].pair = feeds[f].records[j].pair => i = j
    BY <1>1 DEF Typed, FeedsTyped, FeedTyped
  <2>2. feeds'[f] # None =>
          \A i, j \in DOMAIN feeds'[f].records :
            feeds'[f].records[i].pair = feeds'[f].records[j].pair
              => i + 1 = j + 1 /\ i \in Int /\ j \in Int
    BY <2>1, StoreRecordHolds
  <2>. QED
    BY <1>1, <1>2, <2>2, StoreRecordHolds DEF FeedTyped
<1>7. \A g \in Feed : FeedTyped(g)'
  BY <1>2, <1>6, StoreRecordHolds DEF Typed, FeedsTyped, FeedTyped
<1>8. up
  BY <1>1 DEF Typed, ClockTyped
<1>9. ClockTyped'
  BY <1>1, <1>8 DEF Typed, ClockTyped, clock
<1>. QED
  BY <1>3, <1>4, <1>5, <1>7, <1>9, StoreRecordHolds DEF Typed, FeedsTyped

LEMMA CompleteTyped ==
  ASSUME Typed, NEW a \in polls, Complete(a), lastAnswer' = lastAnswer
  PROVE  /\ FactsTyped' /\ EventsTyped' /\ a.at \in 1 .. lastAnswer /\ a.pair \in Pair
         /\ \A o \in observations' :
              IsObservation(o)' /\ o = Observed(o.pair, o.at, o.price)
<1>1. a.at \in 1 .. lastAnswer /\ a.pair \in Pair
  BY DEF Typed, PollsTyped, IsPoll
<1>2. FactsTyped' /\ EventsTyped'
  BY <1>1, PollFactsAre, RecordTyped DEF Complete
<1>. DEFINE new == Observed(a.pair, a.at, a.says.price)
<1>3. observations' = observations \cup {new}
  BY DEF Complete, Observed
<1>4. IsObservation(new)' /\ new = Observed(new.pair, new.at, new.price)
  BY <1>1 DEF IsObservation, Observed
<1>5. \A o : IsObservation(o) => IsObservation(o)'
  BY DEF IsObservation
<1>. HIDE DEF new
<1>. QED
  BY <1>1, <1>2, <1>3, <1>4, <1>5 DEF Typed, MarketTyped

LEMMA LeaseLostTyped ==
  ASSUME Typed, NEW a \in polls, LeaseLost(a)
  PROVE  Typed'
<1>1. UNCHANGED <<up, feeds, stored, market, contexts, contextAt, conflicts, clock>>
  BY DEF LeaseLost
<1>2. now \in Nat /\ lastAnswer \in Nat /\ lastAnswer' = lastAnswer /\ now' = now
      /\ received' = received /\ starts' = starts
  BY <1>1 DEF Typed, ClockTyped, clock
<1>3. FactsTyped' /\ EventsTyped'
  BY <1>1, <1>2, FactsStay
<1>4. MarketTyped'
  BY <1>1, <1>2, MarketStays
<1>. DEFINE lost == [a EXCEPT !.owned = FALSE]
<1>5. polls' = (polls \ {a}) \cup {lost}
  BY DEF LeaseLost
<1>6. \A b : IsPoll(b) => IsPoll(b)'
  BY <1>2 DEF IsPoll
<1>7. IsPoll(lost) /\ ~lost.owned
  BY DEF Typed, PollsTyped, IsPoll
<1>. HIDE DEF lost
<1>8. PollsTyped'
  BY <1>5, <1>6, <1>7 DEF Typed, PollsTyped
<1>9. FeedsTyped'
  BY <1>1, <1>2 DEF Typed, FeedsTyped, FeedTyped
<1>10. ClockTyped'
  BY <1>1, <1>2 DEF Typed, ClockTyped
<1>. QED
  BY <1>3, <1>4, <1>8, <1>9, <1>10 DEF Typed

LEMMA CommitPollTyped ==
  ASSUME Typed, NEW a \in polls, CommitPoll(a)
  PROVE  Typed'
<1>1. Complete(a) /\ polls' = polls \ {a} /\ UNCHANGED <<up, feeds, contextAt, clock>>
  BY DEF CommitPoll
<1>2. /\ now \in Nat /\ lastAnswer \in Nat /\ lastAnswer' = lastAnswer /\ now' = now
      /\ received' = received /\ starts' = starts /\ lastAnswer <= now
  BY <1>1 DEF Typed, ClockTyped, clock
<1>3. /\ FactsTyped' /\ EventsTyped' /\ a.at \in 1 .. lastAnswer /\ a.pair \in Pair
      /\ \A o \in observations' : IsObservation(o)' /\ o = Observed(o.pair, o.at, o.price)
  BY <1>1, <1>2, CompleteTyped
<1>4. \A e : IsTransition(e) => IsTransition(e)'
  BY <1>2 DEF IsTransition
<1>5. ASSUME NEW e \in lifecycle', e \notin lifecycle
      PROVE  /\ e = Moved(e.pair, e.state, e.at, e.decided_at) /\ e.at \in Nat
             /\ e.decided_at \in Nat /\ IsTransition(e)' /\ e.state # "NEW"
  <2>1. PICK d \in a.at .. now : e = Moved(a.pair, "ACTIVE", a.at, d)
    BY <1>5 DEF CommitPoll, Moved
  <2>2. d \in Nat /\ a.at <= d /\ d <= now /\ a.at \in Nat
    BY <1>2, <1>3
  <2>3. e.pair = a.pair /\ e.state = "ACTIVE" /\ e.at = a.at /\ e.decided_at = d
    BY <2>1 DEF Moved
  <2>. QED
    BY <1>2, <1>3, <2>1, <2>2, <2>3 DEF IsTransition
<1>6. lifecycle \subseteq lifecycle'
  BY DEF CommitPoll
<1>7. MarketTyped'
  BY <1>3, <1>4, <1>5, <1>6 DEF Typed, MarketTyped
<1>8. \A b : IsPoll(b) => IsPoll(b)'
  BY <1>2 DEF IsPoll
<1>9. PollsTyped'
  BY <1>1, <1>8 DEF Typed, PollsTyped
<1>10. FeedsTyped'
  BY <1>1, <1>2 DEF Typed, FeedsTyped, FeedTyped
<1>11. ClockTyped'
  BY <1>1, <1>2 DEF Typed, ClockTyped
<1>. QED
  BY <1>3, <1>7, <1>9, <1>10, <1>11 DEF Typed

LEMMA CommitPollUnevaluatedTyped ==
  ASSUME Typed, NEW a \in polls, CommitPollUnevaluated(a)
  PROVE  Typed'
<1>1. Complete(a) /\ Down /\ UNCHANGED <<lifecycle, clock>>
  BY DEF CommitPollUnevaluated
<1>2. /\ now \in Nat /\ lastAnswer \in Nat /\ lastAnswer' = lastAnswer /\ now' = now
      /\ received' = received /\ starts' = starts
  BY <1>1 DEF Typed, ClockTyped, clock
<1>3. /\ FactsTyped' /\ EventsTyped'
      /\ \A o \in observations' : IsObservation(o)' /\ o = Observed(o.pair, o.at, o.price)
  BY <1>1, <1>2, CompleteTyped
<1>4. \A e : IsTransition(e) => IsTransition(e)'
  BY <1>2 DEF IsTransition
<1>5. MarketTyped'
  BY <1>1, <1>3, <1>4 DEF Typed, MarketTyped
<1>6. ClockTyped'
  BY <1>1, <1>2, DownTyped DEF Typed, ClockTyped
<1>. QED
  BY <1>1, <1>3, <1>5, <1>6, DownTyped DEF Typed

\* The actions that leave the tables and the clock as they are.
LEMMA DownKeepsTyped ==
  ASSUME Typed, Down, UNCHANGED <<stored, market, clock>>
  PROVE  Typed'
<1>1. /\ now \in Nat /\ lastAnswer \in Nat /\ lastAnswer' = lastAnswer /\ now' = now
      /\ received' = received /\ starts' = starts
  BY DEF Typed, ClockTyped, clock
<1>2. FactsTyped' /\ EventsTyped' /\ MarketTyped'
  BY <1>1, FactsStay, MarketStays
<1>3. ClockTyped'
  BY <1>1, DownTyped DEF Typed, ClockTyped
<1>. QED
  BY <1>2, <1>3, DownTyped DEF Typed

LEMMA ContextStepTyped ==
  ASSUME Typed, RecordContext \/ ConfirmContext
  PROVE  Typed'
<1>1. up /\ UNCHANGED <<up, feeds, polls, stored, market, clock>>
  BY DEF RecordContext, ConfirmContext, ContextDue
<1>2. /\ now \in Nat /\ lastAnswer \in Nat /\ lastAnswer' = lastAnswer /\ now' = now
      /\ received' = received /\ starts' = starts
  BY <1>1 DEF Typed, ClockTyped, clock
<1>3. FactsTyped' /\ EventsTyped' /\ MarketTyped' /\ FeedsTyped' /\ PollsTyped'
  BY <1>1, <1>2, FactsStay, MarketStays, HeldStay
<1>4. ClockTyped'
  BY <1>1, <1>2 DEF Typed, ClockTyped
<1>. QED
  BY <1>3, <1>4 DEF Typed

LEMMA TickTyped ==
  ASSUME Typed, Tick
  PROVE  Typed'
<1>1. /\ now \in Nat /\ lastAnswer \in Nat /\ lastAnswer' = lastAnswer /\ now' = now + 1
      /\ now' \in Nat /\ now <= now' /\ now' <= MaxClock
  BY Constants DEF Typed, ClockTyped, Tick
<1>2. UNCHANGED <<stored, market, feeds, polls>>
  BY DEF Tick
<1>3. FactsTyped' /\ EventsTyped' /\ MarketTyped' /\ FeedsTyped' /\ PollsTyped'
  BY <1>1, <1>2, FactsStay, MarketStays, HeldStay
<1>4. ClockTyped'
  BY <1>1, Constants DEF Typed, ClockTyped, Tick
<1>. QED
  BY <1>3, <1>4 DEF Typed

LEMMA StartCollectorTyped ==
  ASSUME Typed, StartCollector
  PROVE  Typed'
<1>1. now \in Nat /\ lastAnswer \in Nat /\ lastAnswer' = lastAnswer /\ now' = now
  BY DEF Typed, ClockTyped, StartCollector
<1>2. UNCHANGED <<stored, market, feeds, polls>>
  BY DEF StartCollector
<1>3. FactsTyped' /\ EventsTyped' /\ MarketTyped' /\ FeedsTyped' /\ PollsTyped'
  BY <1>1, <1>2, FactsStay, MarketStays, HeldStay
<1>4. ClockTyped'
  BY Constants DEF Typed, ClockTyped, StartCollector
<1>. QED
  BY <1>3, <1>4 DEF Typed

LEMMA StutterTyped ==
  ASSUME Typed, UNCHANGED vars
  PROVE  Typed'
<1>1. /\ now \in Nat /\ lastAnswer \in Nat /\ lastAnswer' = lastAnswer /\ now' = now
      /\ received' = received /\ starts' = starts
      /\ UNCHANGED <<stored, market, feeds, polls, up, contextAt>>
  BY DEF Typed, ClockTyped, vars, stored, market
<1>2. FactsTyped' /\ EventsTyped' /\ MarketTyped' /\ FeedsTyped' /\ PollsTyped'
  BY <1>1, FactsStay, MarketStays, HeldStay
<1>3. ClockTyped'
  BY <1>1 DEF Typed, ClockTyped
<1>. QED
  BY <1>2, <1>3 DEF Typed

LEMMA InitTyped ==
  ASSUME Init
  PROVE  Typed
<1>1. ClockTyped
  BY Constants DEF Init, ClockTyped
<1>2. FactsTyped /\ EventsTyped /\ PollsTyped
  BY DEF Init, FactsTyped, EventsTyped, PollsTyped
<1>3. FeedsTyped
  BY DEF Init, FeedsTyped, FeedTyped
<1>4. lifecycle = Admitted /\ observations = {}
  BY DEF Init, Admitted, Moved
<1>5. \A e \in Admitted : /\ e.pair \in Pair /\ e.state = "NEW" /\ e.at = 0 /\ e.decided_at = 0
                          /\ e = Moved(e.pair, e.state, e.at, e.decided_at)
  BY DEF Admitted, Moved
<1>6. now = 0
  BY DEF Init
<1>7. MarketTyped
  BY <1>4, <1>5, <1>6 DEF MarketTyped, IsTransition
<1>. QED
  BY <1>1, <1>2, <1>3, <1>7 DEF Typed

LEMMA NextTyped ==
  ASSUME Typed, [Next]_vars
  PROVE  Typed'
<1>1. CASE Tick
  BY <1>1, TickTyped
<1>2. CASE StartCollector
  BY <1>2, StartCollectorTyped
<1>3. CASE StopCollector
  BY <1>3, DownKeepsTyped DEF StopCollector
<1>4. ASSUME NEW f \in Feed, ReceiveFeed(f)
      PROVE  Typed'
  BY <1>4, ReceiveFeedTyped
<1>5. ASSUME NEW f \in Feed, StoreRecord(f)
      PROVE  Typed'
  BY <1>5, StoreRecordTyped
<1>6. ASSUME NEW p \in Pair, ReceivePoll(p)
      PROVE  Typed'
  BY <1>6, ReceivePollTyped
<1>7. ASSUME NEW a \in polls, LeaseLost(a)
      PROVE  Typed'
  BY <1>7, LeaseLostTyped
<1>8. ASSUME NEW a \in polls, CommitPoll(a)
      PROVE  Typed'
  BY <1>8, CommitPollTyped
<1>9. ASSUME NEW a \in polls, CommitPollUnevaluated(a)
      PROVE  Typed'
  BY <1>9, CommitPollUnevaluatedTyped
<1>10. ASSUME NEW a \in polls, LosePoll(a)
       PROVE  Typed'
  BY <1>10, DownKeepsTyped DEF LosePoll
<1>11. CASE RecordContext \/ ConfirmContext
  BY <1>11, ContextStepTyped
<1>12. CASE RejectContext
  BY <1>12, DownKeepsTyped DEF RejectContext
<1>13. CASE UNCHANGED vars
  BY <1>13, StutterTyped
<1>. QED
  BY <1>1, <1>2, <1>3, <1>4, <1>5, <1>6, <1>7, <1>8, <1>9, <1>10, <1>11, <1>12, <1>13 DEF Next

(* Market contexts.                                                         *)

LEMMA ObservedIsNotMoved ==
  \A x, p, q, t, u, price, state, d : x = Observed(p, t, price) => x # Moved(q, state, u, d)
<1>. SUFFICES ASSUME NEW p, NEW q, NEW t, NEW u, NEW price, NEW state, NEW d,
                     Observed(p, t, price) = Moved(q, state, u, d)
              PROVE  FALSE
  OBVIOUS
<1>1. DOMAIN Observed(p, t, price) = {"pair", "at", "price"}
  BY DEF Observed
<1>2. "state" \in DOMAIN Moved(q, state, u, d)
  BY DEF Moved
<1>. QED
  BY <1>1, <1>2

\* The pairs of a mature cohort are the same at all times.
LEMMA CohortStays ==
  ASSUME MarketTyped, MarketTyped', NEW b \in Nat
  PROVE  Cohort(b)' = Cohort(b)
<1>1. \A e \in lifecycle : e.state = "NEW" => e \in lifecycle'
  BY DEF MarketTyped
<1>2. \A e \in lifecycle' : e.state = "NEW" => e \in lifecycle
  BY DEF MarketTyped
<1>. QED
  BY <1>1, <1>2 DEF Cohort

LEMMA SampleOfBucket ==
  ASSUME NEW b, {o \in observations' : InBucket(o.at, b)} = {o \in observations : InBucket(o.at, b)}
  PROVE  Sample(b)' = Sample(b)
BY DEF Sample, InBucket

LEMMA TransitionsOfBucket ==
  ASSUME NEW b, NEW state,
         {e \in lifecycle' : InBucket(e.decided_at, b)}
           = {e \in lifecycle : InBucket(e.decided_at, b)}
  PROVE  Transitions(state, b)' = Transitions(state, b)
<1>1. {e \in lifecycle' : e.state = state /\ InBucket(e.decided_at, b)}
        = {e \in lifecycle : e.state = state /\ InBucket(e.decided_at, b)}
  OBVIOUS
<1>. QED
  BY <1>1 DEF Transitions, InBucket

LEMMA MatureOfCohort ==
  ASSUME NEW b, Cohort(b)' = Cohort(b),
         \A e \in lifecycle' : e.pair \in Cohort(b) /\ e.decided_at < b => e \in lifecycle,
         lifecycle \subseteq lifecycle'
  PROVE  MatureActive(b)' = MatureActive(b)
BY DEF MatureActive

LEMMA PriorOfBucket ==
  ASSUME NEW b \in Nat, DOMAIN contexts \subseteq DOMAIN contexts',
         \A c \in DOMAIN contexts : contexts'[c] = contexts[c],
         \A c \in DOMAIN contexts' \ DOMAIN contexts : c \in Nat /\ b <= c
  PROVE  PriorPrices(b)' = PriorPrices(b)
<1>1. EarlierBuckets(b)' = EarlierBuckets(b)
  BY Constants DEF EarlierBuckets
<1>2. \A c \in EarlierBuckets(b) : contexts'[c] = contexts[c]
  BY DEF EarlierBuckets
<1>. QED
  BY <1>1, <1>2 DEF PriorPrices

\* What came late stays late, and nothing changes for a bucket without it.
LEMMA LateGrows ==
  ASSUME MarketTyped, MarketTyped', NEW b \in Nat, contexts'[b] = contexts[b],
         observations \subseteq observations', lifecycle \subseteq lifecycle'
  PROVE  Late(b) \subseteq Late(b)'
<1>1. Cohort(b)' = Cohort(b)
  BY CohortStays
<1>. QED
  BY <1>1 DEF Late, InBucket

LEMMA ContextStays ==
  ASSUME MarketTyped, MarketTyped', NEW b \in Nat, contexts'[b] = contexts[b],
         observations \subseteq observations', lifecycle \subseteq lifecycle',
         contexts[b].known \subseteq observations \cup lifecycle, Late(b)' = {},
         PriorPrices(b)' = PriorPrices(b)
  PROVE  Context(b)' = Context(b)
<1>. DEFINE known == contexts[b].known
<1>1. Cohort(b)' = Cohort(b)
  BY CohortStays
<1>2. /\ \A o \in observations' : InBucket(o.at, b) => o \in known
      /\ \A e \in lifecycle' : InBucket(e.decided_at, b) => e \in known
      /\ \A e \in lifecycle' : e.pair \in Cohort(b) /\ e.decided_at < b => e \in known
  BY <1>1 DEF Late, InBucket
<1>3. /\ \A o \in observations' : o \in known => o \in observations
      /\ \A e \in lifecycle' : e \in known => e \in lifecycle
  <2>1. observations' \cap lifecycle' = {}
    BY ObservedIsNotMoved DEF MarketTyped
  <2>. QED
    BY <2>1
<1>4. Sample(b)' = Sample(b)
  <2>1. {o \in observations' : InBucket(o.at, b)} = {o \in observations : InBucket(o.at, b)}
    BY <1>2, <1>3
  <2>. QED
    BY <2>1, SampleOfBucket
<1>5. \A state : Transitions(state, b)' = Transitions(state, b)
  <2>1. {e \in lifecycle' : InBucket(e.decided_at, b)}
          = {e \in lifecycle : InBucket(e.decided_at, b)}
    BY <1>2, <1>3
  <2>. QED
    BY <2>1, TransitionsOfBucket
<1>6. MatureActive(b)' = MatureActive(b)
  BY <1>1, <1>2, <1>3, MatureOfCohort
<1>7. Price(Sample(b))' = Price(Sample(b))
  BY <1>4 DEF Price
<1>. QED
  BY <1>1, <1>4, <1>5, <1>6, <1>7 DEF Context

\* Commits, receipts and the passing of time.
LEMMA MarketGrows ==
  ASSUME Typed, Typed', ContextsSound, contexts' = contexts, conflicts' = conflicts,
         observations \subseteq observations', lifecycle \subseteq lifecycle', now <= now',
         \A x \in (observations' \cup lifecycle') \ (observations \cup lifecycle) :
           \E a \in polls : x.pair = a.pair /\ x.at = a.at,
         \A a \in polls' : a.at = now \/ \E c \in polls : c.pair = a.pair /\ c.at = a.at
  PROVE  ContextsSound'
<1>1. MarketTyped /\ MarketTyped' /\ now \in Nat /\ now' \in Nat
  BY DEF Typed, ClockTyped
<1>2. ASSUME NEW b \in DOMAIN contexts
      PROVE  ContextSound(b)' /\ Late(b) \subseteq Late(b)'
  <2>1. ContextSound(b) /\ b \in 0 .. now /\ b \in Nat
    BY <1>1 DEF ContextsSound, ContextSound
  <2>2. Late(b) \subseteq Late(b)'
    BY <1>1, <2>1, LateGrows
  <2>3. \A a \in polls' : a.at < b => <<a.pair, a.at>> \in contexts[b].underway
    BY <1>1, <2>1 DEF ContextSound
  <2>4. \A x \in (observations' \cup lifecycle') \ contexts[b].known :
          x.at < b => <<x.pair, x.at>> \in contexts[b].underway
    BY <2>1 DEF ContextSound
  <2>5. PriorPrices(b)' = PriorPrices(b)
    BY <2>1, PriorOfBucket
  <2>6. contexts[b].known \subseteq observations \cup lifecycle
    BY <2>1 DEF ContextSound
  <2>7. Late(b)' = {} => contexts[b].says = Context(b)'
    <3>. SUFFICES ASSUME Late(b)' = {}
                  PROVE  contexts[b].says = Context(b)'
      OBVIOUS
    <3>1. Context(b)' = Context(b)
      BY <1>1, <2>1, <2>5, <2>6, ContextStays
    <3>2. Late(b) = {}
      BY <2>2
    <3>. QED
      BY <2>1, <3>1, <3>2 DEF ContextSound
  <2>8. b \in 0 .. now' /\ Admitted \subseteq contexts[b].known
    BY <1>1, <2>1 DEF ContextSound
  <2>. QED
    BY <2>2, <2>3, <2>4, <2>6, <2>7, <2>8 DEF ContextSound
<1>3. \A b \in DOMAIN contexts : \E t \in 0 .. now' : b = BucketEnd(t)
  BY <1>1 DEF ContextsSound
<1>4. \A b \in conflicts : b \in DOMAIN contexts /\ Late(b)' # {}
  BY <1>2 DEF ContextsSound
<1>. QED
  BY <1>2, <1>3, <1>4 DEF ContextsSound, BucketEnd

\* The bucket of a new context is later than every bucket that has one.
LEMMA RecordContextSound ==
  ASSUME Typed, ContextsSound, RecordContext
  PROVE  ContextsSound'
<1>0. PICK new \in Nat : new = BucketEnd(now)
  BY BucketIsPast DEF Typed, ClockTyped
<1>1. /\ new \notin DOMAIN contexts /\ DOMAIN contexts' = DOMAIN contexts \cup {new}
      /\ \A b \in DOMAIN contexts : contexts'[b] = contexts[b]
      /\ contexts'[new] = Snapshot(new)
      /\ conflicts' = conflicts /\ polls' = polls /\ now' = now
      /\ observations' = observations /\ lifecycle' = lifecycle
  BY <1>0 DEF RecordContext, market, clock
<1>2. now \in Nat /\ new \in 0 .. now /\ new \in Nat /\ MarketTyped /\ MarketTyped'
      /\ Admitted \subseteq lifecycle
  BY <1>0, <1>1, BucketIsPast DEF Typed, ClockTyped, MarketTyped, IsObservation, IsTransition,
                                  clock, RecordContext
<1>3. ASSUME NEW b \in DOMAIN contexts
      PROVE  b \in 0 .. now /\ b \in Nat /\ b <= new
  <2>1. PICK t \in 0 .. now : b = BucketEnd(t)
    BY DEF ContextsSound
  <2>2. b \in 0 .. now
    BY DEF ContextsSound, ContextSound
  <2>3. t \in Nat /\ t <= now
    BY <1>2
  <2>4. b <= new
    BY <1>0, <1>2, <2>1, <2>3, BucketsAscend
  <2>. QED
    BY <1>2, <2>2, <2>4
<1>4. ASSUME NEW b \in DOMAIN contexts'
      PROVE  PriorPrices(b)' = PriorPrices(b) /\ Context(b)' = Context(b)
  <2>1. b \in Nat /\ b <= new
    BY <1>1, <1>2, <1>3
  <2>2. PriorPrices(b)' = PriorPrices(b)
    BY <1>1, <1>2, <2>1, PriorOfBucket
  <2>3. /\ Sample(b)' = Sample(b) /\ Cohort(b)' = Cohort(b)
        /\ MatureActive(b)' = MatureActive(b)
        /\ \A state : Transitions(state, b)' = Transitions(state, b)
    BY <1>1 DEF Sample, Cohort, MatureActive, Transitions, InBucket
  <2>4. Price(Sample(b))' = Price(Sample(b))
    BY <2>3 DEF Price
  <2>. QED
    BY <2>2, <2>3, <2>4 DEF Context
<1>5. ASSUME NEW b \in DOMAIN contexts
      PROVE  ContextSound(b)' /\ Late(b)' = Late(b)
  <2>1. contexts'[b] = contexts[b] /\ b \in DOMAIN contexts'
    BY <1>1
  <2>2. Late(b)' = Late(b)
    BY <1>1, <2>1 DEF Late, Cohort, InBucket
  <2>3. Context(b)' = Context(b)
    BY <1>4, <2>1
  <2>4. ContextSound(b)
    BY DEF ContextsSound
  <2>. QED
    BY <1>1, <2>1, <2>2, <2>3, <2>4 DEF ContextSound, Admitted, Moved
<1>6. ContextSound(new)'
  <2>1. new \in DOMAIN contexts'
    BY <1>1
  <2>2. Context(new)' = Context(new)
    BY <1>4, <2>1
  <2>3. /\ contexts'[new].says = Context(new)
        /\ contexts'[new].known = observations \cup lifecycle
        /\ contexts'[new].underway = {<<a.pair, a.at>> : a \in polls}
    BY <1>1 DEF Snapshot
  <2>. QED
    BY <1>1, <1>2, <2>2, <2>3 DEF ContextSound
<1>7. \A b \in DOMAIN contexts' : \E t \in 0 .. now' : b = BucketEnd(t)
  BY <1>0, <1>1, <1>2 DEF ContextsSound
<1>8. \A b \in conflicts : b \in DOMAIN contexts' /\ Late(b)' # {}
  BY <1>1, <1>5 DEF ContextsSound
<1>. QED
  BY <1>1, <1>5, <1>6, <1>7, <1>8 DEF ContextsSound, BucketEnd

\* A context is contradicted only if something is late.
LEMMA RejectContextSound ==
  ASSUME Typed, Typed', ContextsSound, RejectContext
  PROVE  ContextsSound'
<1>. DEFINE b0 == BucketEnd(now)
<1>1. /\ b0 \in DOMAIN contexts /\ contexts[b0].says # Context(b0)
      /\ conflicts' = conflicts \cup {b0} /\ polls' = {}
      /\ contexts' = contexts /\ now' = now
      /\ observations' = observations /\ lifecycle' = lifecycle
  BY DEF RejectContext, SameContext, Down, market, clock
<1>2. Late(b0) # {}
  BY <1>1 DEF ContextsSound, ContextSound
<1>. HIDE DEF b0
<1>3. \A b : Late(b)' = Late(b) /\ Context(b)' = Context(b)
  BY <1>1 DEF Late, Context, Sample, Cohort, MatureActive, Transitions, InBucket, Price,
              PriorPrices, EarlierBuckets
<1>4. \A b \in DOMAIN contexts : ContextSound(b)'
  BY <1>1, <1>3 DEF ContextsSound, ContextSound
<1>. QED
  BY <1>1, <1>2, <1>3, <1>4 DEF ContextsSound, BucketEnd

LEMMA NextContextsSound ==
  ASSUME Typed, Typed', ContextsSound, [Next]_vars
  PROVE  ContextsSound'
<1>0. now \in Nat
  BY DEF Typed, ClockTyped
<1>1. CASE RecordContext
  BY <1>1, RecordContextSound
<1>2. CASE RejectContext
  BY <1>2, RejectContextSound
<1>3. ASSUME NEW a \in polls, CommitPoll(a)
      PROVE  ContextsSound'
  <2>1. /\ contexts' = contexts /\ conflicts' = conflicts /\ now' = now
        /\ polls' = polls \ {a} /\ lifecycle \subseteq lifecycle'
        /\ observations \subseteq observations'
    BY <1>3 DEF CommitPoll, Complete, clock
  <2>2. \A x \in observations' \ observations : x.pair = a.pair /\ x.at = a.at
    BY <1>3 DEF CommitPoll, Complete
  <2>3. \A x \in lifecycle' \ lifecycle : x.pair = a.pair /\ x.at = a.at
    BY <1>3 DEF CommitPoll
  <2>. QED
    BY <1>0, <2>1, <2>2, <2>3, MarketGrows
<1>4. ASSUME NEW a \in polls, CommitPollUnevaluated(a)
      PROVE  ContextsSound'
  <2>1. /\ contexts' = contexts /\ conflicts' = conflicts /\ now' = now
        /\ polls' = {} /\ lifecycle = lifecycle'
        /\ observations \subseteq observations'
    BY <1>4 DEF CommitPollUnevaluated, Complete, Down, clock
  <2>2. \A x \in observations' \ observations : x.pair = a.pair /\ x.at = a.at
    BY <1>4 DEF CommitPollUnevaluated, Complete
  <2>. QED
    BY <1>0, <2>1, <2>2, MarketGrows
<1>5. ASSUME NEW p \in Pair, ReceivePoll(p)
      PROVE  ContextsSound'
  <2>1. /\ contexts' = contexts /\ conflicts' = conflicts /\ now' = now
        /\ lifecycle = lifecycle' /\ observations' = observations
        /\ \A a \in polls' : a \in polls \/ a.at = now
    BY <1>5 DEF ReceivePoll, market
  <2>. QED
    BY <1>0, <2>1, MarketGrows
<1>6. ASSUME NEW a \in polls, LeaseLost(a)
      PROVE  ContextsSound'
  <2>1. IsPoll(a)
    BY DEF Typed, PollsTyped
  <2>2. LET lost == [a EXCEPT !.owned = FALSE]
        IN  lost.pair = a.pair /\ lost.at = a.at
    BY <2>1 DEF IsPoll
  <2>3. /\ contexts' = contexts /\ conflicts' = conflicts /\ now' = now
        /\ lifecycle = lifecycle' /\ observations' = observations
        /\ \A b \in polls' : b \in polls \/ (b.pair = a.pair /\ b.at = a.at)
    BY <1>6, <2>2 DEF LeaseLost, market, clock
  <2>. QED
    BY <1>0, <2>3, MarketGrows
<1>7. ASSUME /\ contexts' = contexts /\ conflicts' = conflicts /\ now <= now'
             /\ lifecycle = lifecycle' /\ observations' = observations /\ polls' \subseteq polls
      PROVE  ContextsSound'
  BY <1>7, MarketGrows
<1>8. CASE Tick \/ StartCollector \/ StopCollector \/ ConfirmContext
  BY <1>0, <1>7, <1>8 DEF Tick, StartCollector, StopCollector, ConfirmContext, Down, market, clock
<1>9. ASSUME NEW f \in Feed, ReceiveFeed(f) \/ StoreRecord(f)
      PROVE  ContextsSound'
  BY <1>0, <1>7, <1>9 DEF ReceiveFeed, StoreRecord, market, clock
<1>10. ASSUME NEW a \in polls, LosePoll(a)
       PROVE  ContextsSound'
  BY <1>0, <1>7, <1>10 DEF LosePoll, Down, market, clock
<1>11. CASE UNCHANGED vars
  BY <1>0, <1>7, <1>11 DEF vars
<1>. QED
  BY <1>1, <1>2, <1>3, <1>4, <1>5, <1>6, <1>8, <1>9, <1>10, <1>11 DEF Next

LEMMA InitContextsSound ==
  ASSUME Init
  PROVE  ContextsSound
BY DEF Init, ContextsSound

LEMMA ContextsSoundExplain ==
  ASSUME Typed, ContextsSound
  PROVE  ContextsExplained
<1>1. ASSUME NEW b \in DOMAIN contexts, NEW x \in Late(b)
      PROVE  <<x.pair, x.at>> \in contexts[b].underway
  <2>1. ContextSound(b) /\ b \in Nat
    BY DEF ContextsSound, ContextSound
  <2>2. x \in (observations \cup lifecycle) \ contexts[b].known
    BY DEF Late
  <2>3. CASE x \in observations /\ InBucket(x.at, b)
    BY <2>1, <2>2, <2>3 DEF ContextSound, InBucket
  <2>4. CASE x \in lifecycle /\ x.decided_at < b
    <3>1. x.at \in Nat /\ x.decided_at \in Nat /\ x.at <= x.decided_at
      BY <2>4 DEF Typed, MarketTyped, IsTransition
    <3>. QED
      BY <2>1, <2>2, <2>4, <3>1 DEF ContextSound
  <2>. QED
    BY <2>3, <2>4 DEF Late, InBucket
<1>2. ContextLacksOnlyUnderway
  BY <1>1 DEF ContextLacksOnlyUnderway
<1>3. ConflictsAreLateAnswers
  BY DEF ContextsSound, ConflictsAreLateAnswers
<1>. QED
  BY <1>2, <1>3 DEF ContextsExplained

(* Histories.                                                               *)

\* Nothing is stored yet at the time of the facts, nor after it where there is one writer.
Writable(facts, at) ==
  \A x \in facts : \A r \in rows \cup shown :
    r.scope = x.scope => r.at # at /\ (x.scope \in OneWriter => r.at < at)

LEMMA StoreRecordWrites ==
  ASSUME Typed, Histories, NEW f \in Feed, StoreRecord(f)
  PROVE  Writable(FeedFacts(f), feeds[f].at)
<1>. DEFINE record == feeds[f].records[1]
            at == feeds[f].at
<1>1. /\ feeds[f] # None /\ at \in 1 .. lastAnswer
      /\ Head(feeds[f].records) = record /\ 1 \in DOMAIN feeds[f].records
  BY StoreRecordHolds DEF StoreRecord
<1>2. \A x \in FeedFacts(f) : \/ x.scope = <<"boost", f, record.pair>>
                              \/ x.scope = <<"metadata", "boost_feed", record.pair>>
  BY <1>1 DEF FeedFacts
<1>3. ASSUME NEW r \in rows \cup shown
      PROVE  /\ r.scope = <<"boost", f, record.pair>> => r.at < at
             /\ r.scope = <<"metadata", "boost_feed", record.pair>> => r.at # at
  BY <1>1 DEF Histories, HeldNewer, FeedNewer
<1>4. \A r \in rows \cup shown : r.at \in Nat
  BY DEF Typed, FactsTyped, IsFact
<1>5. at \in Nat
  BY <1>1 DEF Typed, ClockTyped
<1>6. <<"metadata", "boost_feed", record.pair>> \notin OneWriter
  BY DEF OneWriter
<1>. HIDE DEF record, at
<1>7. \A x \in FeedFacts(f) : \A r \in rows \cup shown :
        r.scope = x.scope => r.at # at /\ (x.scope \in OneWriter => r.at < at)
  BY <1>2, <1>3, <1>4, <1>5, <1>6
<1>. QED
  BY <1>7 DEF Writable, at

LEMMA CompleteWrites ==
  ASSUME Typed, Histories, NEW a \in polls, Owned(a)
  PROVE  Writable(PollFacts(a), a.at)
<1>1. \A x \in PollFacts(a) : x.scope[2] = "pair_response" /\ x.scope[3] = a.pair
  BY DEF PollFacts
<1>2. \A r \in rows \cup shown : r.scope[2] = "pair_response" /\ r.scope[3] = a.pair => r.at < a.at
  BY DEF Histories, HeldNewer, PollNewer, Owned
<1>3. (\A r \in rows \cup shown : r.at \in Nat) /\ a.at \in Nat
  BY DEF Typed, FactsTyped, IsFact, PollsTyped, IsPoll, ClockTyped
<1>. QED
  BY <1>1, <1>2, <1>3 DEF Writable

LEMMA RecordUnique ==
  ASSUME Typed, RowsUnique, NEW facts, NEW at \in 1 .. lastAnswer, FactsOf(facts, at),
         Writable(facts, at), Record(facts)
  PROVE  RowsUnique'
<1>1. rows' = rows \cup (rows' \ rows) /\ \A r \in rows' \ rows : r \in facts /\ r.at = at
  BY NewRows
<1>2. \A r, s \in facts : r.scope = s.scope => r = s
  BY DEF FactsOf
<1>3. \A x \in facts : \A r \in rows : r.scope = x.scope => r.at # at
  BY DEF Writable
<1>4. ASSUME NEW r \in rows', NEW s \in rows', r.scope = s.scope, r.at = s.at
      PROVE  r = s
  <2>1. CASE r \in rows /\ s \in rows
    BY <1>4, <2>1 DEF RowsUnique
  <2>2. CASE r \in rows /\ s \notin rows
    BY <1>1, <1>3, <1>4, <2>2
  <2>3. CASE r \notin rows /\ s \in rows
    BY <1>1, <1>3, <1>4, <2>3
  <2>4. CASE r \notin rows /\ s \notin rows
    BY <1>1, <1>2, <1>4, <2>4
  <2>. QED
    BY <2>1, <2>2, <2>3, <2>4
<1>. QED
  BY <1>4 DEF RowsUnique

\* An older row stays the latest of its time.
LEMMA LatestStays ==
  ASSUME NEW scope, NEW at,
         {r \in rows' : r.scope = scope /\ r.at <= at}
           = {r \in rows : r.scope = scope /\ r.at <= at}
  PROVE  Latest(scope, at)' = Latest(scope, at)
<1>1. LatestIn(rows', scope, at) = LatestIn(rows, scope, at)
  BY DEF LatestIn
<1>. QED
  BY <1>1, LatestIsIn

LEMMA RecordExact ==
  ASSUME Typed, Typed', RowsUnique, HistoryExact, NEW facts, NEW at \in 1 .. lastAnswer,
         FactsOf(facts, at), Writable(facts, at), Record(facts)
  PROVE  HistoryExact'
<1>0. RowsUnique'
  BY RecordUnique
<1>1. /\ rows' = rows \cup (rows' \ rows) /\ \A r \in rows' \ rows : r \in facts /\ r.at = at
      /\ shown \subseteq shown' /\ \A s \in shown' \ shown : s \in facts /\ IsFact(s) /\ s.at = at
  BY NewRows
<1>2. rows' = rows \cup Recorded(facts)
  BY DEF Record
<1>3. at \in Nat /\ at <= MaxClock /\ MaxClock \in Nat /\ lastAnswer \in Nat
  BY Constants DEF Typed, ClockTyped
<1>4. (\A r \in rows : r.at \in Nat /\ r # None) /\ (\A r \in rows' : r.at \in Nat /\ r # None)
  BY <1>3, RowTimes, AllRowTimes DEF Typed
<1>5. OneWriter' = OneWriter
  BY DEF OneWriter
<1>6. ASSUME NEW s \in shown, s.scope \in OneWriter
      PROVE  Latest(s.scope, s.at)' # None /\ Latest(s.scope, s.at)'.content = s.content
  <2>1. \A x \in facts : x.scope = s.scope => s.at < at
    BY <1>6 DEF Writable
  <2>2. \A r \in rows' \ rows : r.scope = s.scope => ~(r.at <= s.at)
    <3>1. s.at \in Nat
      BY DEF Typed, FactsTyped, IsFact, ClockTyped
    <3>. QED
      BY <1>1, <1>3, <2>1, <3>1
  <2>3. {r \in rows' : r.scope = s.scope /\ r.at <= s.at}
          = {r \in rows : r.scope = s.scope /\ r.at <= s.at}
    BY <1>1, <2>2
  <2>4. Latest(s.scope, s.at)' = Latest(s.scope, s.at)
    BY <2>3, LatestStays
  <2>. QED
    BY <1>6, <2>4 DEF HistoryExact
<1>7. ASSUME NEW s \in facts, s.at = at, IsFact(s), s.scope \in OneWriter
      PROVE  Latest(s.scope, at)' # None /\ Latest(s.scope, at)'.content = s.content
  <2>. DEFINE latest == LatestIn(rows', s.scope, at)
              known == {r \in rows' : r.scope = s.scope /\ r.at <= at}
  <2>0. Latest(s.scope, at)' = latest
    BY LatestIsIn
  <2>1. \A r \in rows : r.scope = s.scope => r.at < at
    BY <1>7 DEF Writable
  <2>2. CASE Changed(s)
    <3>1. s \in rows'
      BY <1>2, <1>7, <2>2 DEF Recorded, IsFact
    <3>2. s \in known
      BY <1>3, <1>7, <3>1
    <3>3. latest \in known /\ latest # None /\ s.at <= latest.at
      BY <1>3, <1>4, <3>2, LatestInIs
    <3>4. latest = s
      <4>1. latest \in rows' /\ latest.scope = s.scope /\ latest.at <= at /\ latest.at \in Nat
        BY <1>4, <3>3
      <4>2. latest.at = at
        BY <1>3, <1>7, <3>3, <4>1
      <4>. HIDE DEF latest
      <4>. QED
        BY <1>0, <1>7, <3>1, <4>1, <4>2 DEF RowsUnique
    <3>. HIDE DEF latest
    <3>. QED
      BY <2>0, <3>3, <3>4
  <2>3. CASE ~Changed(s)
    <3>1. /\ Latest(s.scope, MaxClock) # None
          /\ Latest(s.scope, MaxClock).content = s.content
      BY <2>3 DEF Changed
    <3>2. \A r \in rows' : r.scope = s.scope => r \in rows
      <4>1. \A x \in facts : x.scope = s.scope => x = s
        BY <1>7 DEF FactsOf
      <4>2. s \in rows' => s \in rows
        BY <1>2, <2>3 DEF Recorded
      <4>. QED
        BY <1>1, <4>1, <4>2
    <3>3. known = {r \in rows : r.scope = s.scope /\ r.at <= MaxClock}
      BY <1>1, <1>3, <1>4, <2>1, <3>2
    <3>4. latest = LatestIn(rows, s.scope, MaxClock)
      BY <3>3 DEF LatestIn
    <3>5. latest = Latest(s.scope, MaxClock)
      BY <3>4, LatestIsIn
    <3>. HIDE DEF latest
    <3>. QED
      BY <2>0, <3>1, <3>5
  <2>. QED
    BY <2>2, <2>3
<1>8. ASSUME NEW s \in shown', s.scope \in OneWriter
      PROVE  Latest(s.scope, s.at)' # None /\ Latest(s.scope, s.at)'.content = s.content
  <2>1. CASE s \in shown
    BY <1>6, <1>8, <2>1
  <2>2. CASE s \notin shown
    <3>1. s \in facts /\ IsFact(s) /\ s.at = at
      BY <1>1, <2>2
    <3>. QED
      BY <1>7, <1>8, <3>1
  <2>. QED
    BY <2>1, <2>2
<1>. QED
  BY <1>5, <1>8 DEF HistoryExact

LEMMA StoreRecordHistories ==
  ASSUME Typed, Typed', Histories, NEW f \in Feed, StoreRecord(f)
  PROVE  Histories'
<1>. DEFINE at == feeds[f].at
            facts == FeedFacts(f)
            pair == feeds[f].records[1].pair
<1>1. /\ feeds[f] # None /\ at \in 1 .. lastAnswer /\ Record(facts) /\ polls' = polls
      /\ Head(feeds[f].records) = feeds[f].records[1] /\ 1 \in DOMAIN feeds[f].records
  BY StoreRecordHolds DEF StoreRecord
<1>2. FactsOf(facts, at) /\ Writable(facts, at)
  BY <1>1, FeedFactsAre, StoreRecordWrites
<1>3. RowsUnique' /\ HistoryExact'
  BY <1>1, <1>2, RecordUnique, RecordExact DEF Histories
<1>4. \A x \in facts : \/ x.scope = <<"boost", f, pair>>
                       \/ x.scope = <<"metadata", "boost_feed", pair>>
  BY <1>1 DEF FeedFacts
<1>5. /\ rows' \cup shown' = (rows \cup shown) \cup ((rows' \cup shown') \ (rows \cup shown))
      /\ \A r \in (rows' \cup shown') \ (rows \cup shown) : r \in facts /\ r.at = at
  BY <1>1, <1>2, NewRows
<1>6. \A i, j \in DOMAIN feeds[f].records :
        feeds[f].records[i].pair = feeds[f].records[j].pair => i = j
  BY <1>1 DEF Typed, FeedsTyped, FeedTyped
<1>7. FeedNewer(f) /\ (\A a \in polls : PollNewer(a)) /\ FeedsApart
  BY DEF Histories, HeldNewer
<1>8. f \in {"latest", "top"}
  BY DEF Feed
<1>. HIDE DEF facts, pair
<1>9. FeedNewer(f)'
  <2>. SUFFICES ASSUME feeds'[f] # None, NEW r \in rows' \cup shown',
                       NEW i \in DOMAIN feeds'[f].records
                PROVE  LET p == feeds'[f].records[i].pair
                       IN  /\ r.scope = <<"boost", f, p>> => r.at < feeds'[f].at
                           /\ r.scope = <<"metadata", "boost_feed", p>> => r.at # feeds'[f].at
    BY DEF FeedNewer
  <2>1. /\ feeds'[f].at = at /\ i + 1 \in DOMAIN feeds[f].records /\ i \in Int /\ i >= 1
        /\ feeds'[f].records[i] = feeds[f].records[i + 1]
    BY StoreRecordHolds
  <2>2. feeds[f].records[i + 1].pair # pair
    <3>1. i + 1 # 1
      BY <2>1
    <3>. QED
      BY <1>1, <1>6, <2>1, <3>1 DEF pair
  <2>3. CASE r \in rows \cup shown
    BY <1>1, <1>7, <2>1, <2>3 DEF FeedNewer
  <2>4. CASE r \notin rows \cup shown
    <3>1. r \in facts
      BY <1>5, <2>4
    <3>. QED
      BY <1>4, <2>1, <2>2, <3>1
  <2>. QED
    BY <2>3, <2>4
<1>10. ASSUME NEW g \in Feed, g # f
       PROVE  FeedNewer(g)'
  <2>1. feeds'[g] = feeds[g] /\ FeedNewer(g)
    BY <1>10, StoreRecordHolds DEF Histories, HeldNewer
  <2>2. feeds[g] # None => feeds[g].at # at
    BY <1>1, <1>7, <1>10 DEF FeedsApart
  <2>3. ASSUME feeds[g] # None, NEW r \in (rows' \cup shown') \ (rows \cup shown), NEW p
        PROVE  /\ r.scope # <<"boost", g, p>>
               /\ r.scope = <<"metadata", "boost_feed", p>> => r.at # feeds[g].at
    <3>1. r \in facts /\ r.at = at
      BY <1>5
    <3>. QED
      BY <1>4, <1>10, <2>2, <2>3, <3>1
  <2>. QED
    BY <1>5, <2>1, <2>3 DEF FeedNewer
<1>11. ASSUME NEW a \in polls
       PROVE  PollNewer(a)'
  <2>1. \A r \in (rows' \cup shown') \ (rows \cup shown) : r.scope[2] # "pair_response"
    BY <1>4, <1>5, <1>8
  <2>. QED
    BY <1>5, <1>7, <2>1 DEF PollNewer
<1>12. FeedsApart'
  <2>1. \A g \in Feed : feeds'[g] # None => feeds[g] # None /\ feeds'[g].at = feeds[g].at
    BY <1>1, StoreRecordHolds
  <2>. QED
    BY <1>7, <2>1 DEF FeedsApart
<1>13. HeldNewer'
  BY <1>1, <1>9, <1>10, <1>11, <1>12 DEF HeldNewer
<1>. QED
  BY <1>3, <1>13 DEF Histories

LEMMA CompleteHistories ==
  ASSUME Typed, Typed', Histories, NEW a \in polls, Complete(a), lastAnswer' = lastAnswer
  PROVE  /\ RowsUnique' /\ HistoryExact'
         /\ \A f \in Feed : feeds'[f] = feeds[f] => FeedNewer(f)'
         /\ \A b \in polls \ {a} : PollNewer(b)'
<1>. DEFINE facts == PollFacts(a)
<1>1. Owned(a) /\ Record(facts) /\ IsPoll(a) /\ a.at \in 1 .. lastAnswer
  BY DEF Complete, Typed, PollsTyped, IsPoll
<1>2. FactsOf(facts, a.at) /\ Writable(facts, a.at)
  BY <1>1, PollFactsAre, CompleteWrites
<1>3. RowsUnique' /\ HistoryExact'
  BY <1>1, <1>2, RecordUnique, RecordExact DEF Histories
<1>4. \A x \in facts : x.scope[2] = "pair_response" /\ x.scope[3] = a.pair
  BY DEF PollFacts
<1>5. /\ rows' \cup shown' = (rows \cup shown) \cup ((rows' \cup shown') \ (rows \cup shown))
      /\ \A r \in (rows' \cup shown') \ (rows \cup shown) : r \in facts
  BY <1>1, <1>2, NewRows
<1>6. /\ \A f \in Feed : FeedNewer(f)
      /\ \A b \in polls : PollNewer(b)
  BY DEF Histories, HeldNewer
<1>. HIDE DEF facts
<1>7. ASSUME NEW f \in Feed, feeds'[f] = feeds[f]
      PROVE  FeedNewer(f)'
  <2>1. f # "pair_response"
    BY DEF Feed
  <2>2. ASSUME NEW r \in (rows' \cup shown') \ (rows \cup shown), NEW p
        PROVE  r.scope # <<"boost", f, p>> /\ r.scope # <<"metadata", "boost_feed", p>>
    BY <1>4, <1>5, <2>1
  <2>. QED
    BY <1>5, <1>6, <1>7, <2>2 DEF FeedNewer
<1>8. ASSUME NEW b \in polls \ {a}
      PROVE  PollNewer(b)'
  <2>1. b.owned => b.pair # a.pair
    BY <1>1 DEF Typed, PollsTyped, Owned
  <2>2. b.owned => \A r \in (rows' \cup shown') \ (rows \cup shown) : r.scope[3] # b.pair
    BY <1>4, <1>5, <2>1
  <2>. QED
    BY <1>5, <1>6, <2>2 DEF PollNewer
<1>. QED
  BY <1>3, <1>7, <1>8

\* What is held is received after everything stored, or was held before, or there is nothing.
LEMMA HeldKeepsHistories ==
  ASSUME Typed, Histories, UNCHANGED <<rows, shown>>,
         \A f \in Feed : \/ feeds'[f] = None \/ feeds'[f] = feeds[f]
                         \/ (feeds'[f].at = now /\ lastAnswer < now),
         \A f, g \in Feed : feeds'[f] # None /\ feeds'[g] # None /\ f # g =>
                              feeds'[f] = feeds[f] \/ feeds'[g] = feeds[g],
         \A a \in polls' : a \in polls \/ ~a.owned \/ (a.at = now /\ lastAnswer < now)
  PROVE  Histories'
<1>1. \A r \in rows \cup shown : r.at \in Nat /\ r.at <= lastAnswer
  BY DEF Typed, FactsTyped, IsFact, ClockTyped
<1>2. now \in Nat /\ lastAnswer \in Nat
  BY DEF Typed, ClockTyped
<1>3. /\ \A f \in Feed : FeedNewer(f) /\ FeedTyped(f)
      /\ \A b \in polls : PollNewer(b)
      /\ FeedsApart
  BY DEF Histories, HeldNewer, Typed, FeedsTyped
<1>4. ASSUME NEW f \in Feed
      PROVE  FeedNewer(f)'
  BY <1>1, <1>2, <1>3 DEF FeedNewer
<1>5. ASSUME NEW a \in polls'
      PROVE  PollNewer(a)'
  BY <1>1, <1>2, <1>3 DEF PollNewer
<1>6. FeedsApart'
  BY <1>2, <1>3 DEF FeedsApart, FeedTyped
<1>7. RowsUnique'
  BY DEF Histories, RowsUnique
<1>8. HistoryExact'
  BY DEF Histories, HistoryExact, Latest, OneWriter
<1>. QED
  BY <1>4, <1>5, <1>6, <1>7, <1>8 DEF Histories, HeldNewer

LEMMA NextHistories ==
  ASSUME Typed, Typed', Histories, [Next]_vars
  PROVE  Histories'
<1>1. ASSUME NEW f \in Feed, StoreRecord(f)
      PROVE  Histories'
  BY <1>1, StoreRecordHistories
<1>2. ASSUME NEW a \in polls, CommitPoll(a)
      PROVE  Histories'
  <2>1. /\ Complete(a) /\ polls' = polls \ {a} /\ feeds' = feeds /\ lastAnswer' = lastAnswer
    BY <1>2 DEF CommitPoll, clock
  <2>2. /\ RowsUnique' /\ HistoryExact' /\ \A f \in Feed : FeedNewer(f)'
        /\ \A b \in polls \ {a} : PollNewer(b)'
    BY <2>1, CompleteHistories
  <2>3. FeedsApart'
    BY <2>1 DEF Histories, HeldNewer, FeedsApart
  <2>. QED
    BY <2>1, <2>2, <2>3 DEF Histories, HeldNewer
<1>3. ASSUME NEW a \in polls, CommitPollUnevaluated(a)
      PROVE  Histories'
  <2>1. Complete(a) /\ Down /\ lastAnswer' = lastAnswer
    BY <1>3 DEF CommitPollUnevaluated, clock
  <2>2. RowsUnique' /\ HistoryExact'
    BY <2>1, CompleteHistories
  <2>3. HeldNewer'
    BY <2>1, DownTyped DEF HeldNewer, FeedNewer, FeedsApart
  <2>. QED
    BY <2>2, <2>3 DEF Histories
<1>4. ASSUME Down, UNCHANGED stored
      PROVE  Histories'
  BY <1>4, DownTyped, HeldKeepsHistories DEF stored
<1>5. ASSUME UNCHANGED <<feeds, polls, stored>>
      PROVE  Histories'
  BY <1>5, HeldKeepsHistories DEF stored
<1>6. ASSUME NEW f \in Feed, ReceiveFeed(f)
      PROVE  Histories'
  <2>1. PICK l \in FeedAnswer : feeds' = [feeds EXCEPT ![f] = [at |-> now, records |-> l]]
    BY <1>6 DEF ReceiveFeed
  <2>2. feeds'[f].at = now /\ \A g \in Feed : g # f => feeds'[g] = feeds[g]
    BY <2>1 DEF Typed, FeedsTyped
  <2>3. UNCHANGED <<rows, shown, polls>> /\ lastAnswer < now
    BY <1>6 DEF ReceiveFeed, Answered, stored
  <2>. QED
    BY <2>2, <2>3, HeldKeepsHistories
<1>7. ASSUME NEW p \in Pair, ReceivePoll(p)
      PROVE  Histories'
  <2>1. /\ UNCHANGED <<rows, shown, feeds>> /\ lastAnswer < now
        /\ \A a \in polls' : a \in polls \/ a.at = now
    BY <1>7 DEF ReceivePoll, Answered, stored
  <2>. QED
    BY <2>1, HeldKeepsHistories
<1>8. ASSUME NEW a \in polls, LeaseLost(a)
      PROVE  Histories'
  <2>1. IsPoll(a)
    BY DEF Typed, PollsTyped
  <2>2. LET lost == [a EXCEPT !.owned = FALSE] IN ~lost.owned
    BY <2>1 DEF IsPoll
  <2>3. UNCHANGED <<rows, shown, feeds>> /\ \A b \in polls' : b \in polls \/ ~b.owned
    BY <1>8, <2>2 DEF LeaseLost, stored
  <2>. QED
    BY <2>3, HeldKeepsHistories
<1>9. CASE Tick \/ StartCollector \/ RecordContext \/ ConfirmContext \/ UNCHANGED vars
  BY <1>5, <1>9 DEF Tick, StartCollector, RecordContext, ConfirmContext, vars, stored
<1>10. CASE StopCollector \/ RejectContext
  BY <1>4, <1>10 DEF StopCollector, RejectContext
<1>11. ASSUME NEW a \in polls, LosePoll(a)
       PROVE  Histories'
  BY <1>4, <1>11 DEF LosePoll
<1>. QED
  BY <1>1, <1>2, <1>3, <1>6, <1>7, <1>8, <1>9, <1>10, <1>11 DEF Next

LEMMA InitHistories ==
  ASSUME Init
  PROVE  Histories
BY DEF Init, Histories, HeldNewer, FeedNewer, FeedsApart, RowsUnique, HistoryExact

LEMMA TypedIsTypeOK ==
  ASSUME Typed, ContextsSound
  PROVE  TypeOK
<1>1. lastAnswer \in Nat
  BY DEF Typed, ClockTyped
<1>2. \A r \in rows : IsRow(r)
  BY DEF Typed, FactsTyped, IsFact, IsRow
<1>3. DOMAIN contexts \subseteq 0 .. now
  BY DEF ContextsSound, ContextSound
<1>. QED
  BY <1>2, <1>3 DEF Typed, TypeOK, ClockTyped, EventsTyped, MarketTyped, PollsTyped, IsPoll

(* The events of a metric.                                                  *)

AllAddUp ==
  \A r \in rows : r.scope[1] = "boost" =>
    \A m \in Metric : r.content[m] # None => AddUp(r, m)

LEMMA EventTimes ==
  ASSUME Typed
  PROVE  \A e \in events : /\ e \in EventShape /\ e.at \in 0 .. lastAnswer
                           /\ \E r \in rows : r.scope = e.scope /\ r.at = e.at
BY DEF Typed, EventsTyped, IsEvent, FactsTyped, IsFact, ClockTyped

\* There is at most one crossing of a kind at a time.
LEMMA CrossingsFinite ==
  ASSUME Typed, NEW scope, NEW m, NEW h, NEW way, NEW from, NEW to
  PROVE  IsFiniteSet(Between(scope, m, h, way, from, to))
<1>. DEFINE S == Between(scope, m, h, way, from, to)
            times == [e \in S |-> e.at]
<1>1. lastAnswer \in Nat
  BY DEF Typed, ClockTyped
<1>2. \A e \in S : /\ e \in EventShape /\ e.at \in 0 .. lastAnswer
                   /\ e.type = "threshold_crossing" /\ e.scope = scope
                   /\ e.metric = m /\ e.threshold = h /\ e.up = way
  BY EventTimes DEF Between
<1>3. ASSUME NEW e \in S, NEW g \in S, e.at = g.at
      PROVE  e = g
  <2>1. e \in EventShape /\ g \in EventShape
    BY <1>2
  <2>2. /\ e.type = g.type /\ e.scope = g.scope /\ e.metric = g.metric
        /\ e.threshold = g.threshold /\ e.up = g.up
    BY <1>2
  <2>. QED
    BY <1>3, <2>1, <2>2 DEF EventShape
<1>. HIDE DEF S
<1>4. times \in [S -> 0 .. lastAnswer] /\ \A e \in S : times[e] = e.at
  BY <1>2
<1>. HIDE DEF times
<1>5. times \in Injection(S, 0 .. lastAnswer)
  BY <1>3, <1>4 DEF Injection, IsInjective
<1>6. IsFiniteSet(0 .. lastAnswer)
  BY <1>1, FS_Interval
<1>7. IsFiniteSet(S)
  BY <1>5, <1>6, FS_Injection
<1>. QED
  BY <1>7 DEF S

LEMMA FirstsAre ==
  ASSUME Typed, NEW scope, NEW m, NEW at \in Nat, Firsts(scope, m, at) # {}
  PROVE  LET first == Max(Firsts(scope, m, at))
         IN  first \in Firsts(scope, m, at) /\ first \in Nat /\ first <= at
<1>. DEFINE S == Firsts(scope, m, at)
<1>1. S \in SUBSET Nat /\ \A n \in S : n <= at
  BY EventTimes DEF Firsts, Typed, ClockTyped
<1>. HIDE DEF S
<1>2. S # {}
  BY DEF S
<1>3. Max(S) \in S
  BY <1>1, <1>2, MaxIsGreatest
<1>. QED
  BY <1>1, <1>3 DEF S

\* What is written after a row changes nothing of what the events say at the row.
LEMMA OldRowAddsUp ==
  ASSUME Typed, NEW r \in rows, NEW m \in Metric, AddUp(r, m),
         events \subseteq events', rows \subseteq rows',
         \A e \in events' \ events : e.scope = r.scope => ~(e.at <= r.at),
         \A q \in rows' \ rows : q.scope = r.scope => ~(q.at <= r.at) /\ q.at \in Nat
  PROVE  AddUp(r, m)'
<1>1. r.at \in Nat
  BY DEF Typed, FactsTyped, IsFact, ClockTyped
<1>2. Firsts(r.scope, m, r.at)' = Firsts(r.scope, m, r.at)
  BY DEF Firsts
<1>3. PICK first : first = Max(Firsts(r.scope, m, r.at))
  OBVIOUS
<1>4. first \in Nat /\ first <= r.at
  BY <1>1, <1>3, FirstsAre DEF AddUp
<1>5. {q \in rows' : q.scope = r.scope /\ q.at <= first}
        = {q \in rows : q.scope = r.scope /\ q.at <= first}
  BY <1>1, <1>4
<1>6. Latest(r.scope, first)' = Latest(r.scope, first)
  BY <1>5, LatestStays
<1>7. \A h, way : Between(r.scope, m, h, way, first, r.at)'
                  = Between(r.scope, m, h, way, first, r.at)
  BY DEF Between
<1>8. /\ Firsts(r.scope, m, r.at) # {}
      /\ \A h \in Threshold :
           AtLeast(Latest(r.scope, first).content[m], h)
             + Cardinality(Between(r.scope, m, h, TRUE, first, r.at))
           = Cardinality(Between(r.scope, m, h, FALSE, first, r.at)) + AtLeast(r.content[m], h)
  BY <1>3 DEF AddUp
<1>9. Max(Firsts(r.scope, m, r.at))' = first
  BY <1>2, <1>3 DEF Max
<1>. QED
  BY <1>2, <1>6, <1>7, <1>8, <1>9 DEF AddUp, AtLeast

LEMMA NewEvents ==
  ASSUME Typed, NEW facts, NEW at \in 1 .. lastAnswer, FactsOf(facts, at), Writable(facts, at),
         Record(facts)
  PROVE  /\ events \subseteq events'
         /\ \A e \in events' \ events :
              \E r \in rows' \ rows : e.scope = r.scope /\ e.at = at
         /\ \A r \in rows' \ rows : r.scope[1] = "boost" =>
              /\ r.at = at /\ IsFact(r)
              /\ \A e \in events : e.scope = r.scope => e.at < at
              /\ \A m \in Metric :
                   /\ MetricEvents(r, m) \subseteq events'
                   /\ \A e \in MetricEvents(r, m) : e.at = at /\ e.scope = r.scope /\ e.metric = m
                   /\ \A e \in events' : e.scope = r.scope /\ e.metric = m =>
                        e \in events \/ e \in MetricEvents(r, m)
<1>. DEFINE new == Recorded(facts)
            boosts == {r \in new : r.scope[1] = "boost"}
<1>1. /\ rows' = rows \cup new
      /\ events' = events \cup UNION {MetricEvents(r, m) : r \in boosts, m \in Metric}
  BY DEF Record
<1>2. \A r \in new : r \in facts /\ IsFact(r) /\ r.at = at /\ r \notin rows
  <2>1. \A r \in facts : r.at = at /\ (IsFact(r) \/ Empty(r.content))
    BY DEF FactsOf, IsFact
  <2>2. \A r \in facts : r \notin rows
    BY <2>1 DEF Writable
  <2>. QED
    BY <2>1, <2>2 DEF Recorded
<1>3. rows' \ rows = new
  BY <1>1, <1>2
<1>. HIDE DEF new
<1>4. \A r \in boosts : r.scope \in Scope /\ r.at \in Nat
  BY <1>2 DEF IsFact
<1>5. \A r \in boosts, m \in Metric : \A e \in MetricEvents(r, m) :
        e.at = at /\ e.scope = r.scope /\ e.metric = m
  BY <1>2, <1>4, EventFields
<1>6. ASSUME NEW r \in boosts, NEW e \in events, e.scope = r.scope
      PROVE  e.at < at
  <2>1. PICK q \in rows : q.scope = e.scope /\ q.at = e.at
    BY EventTimes
  <2>2. r.scope \in OneWriter
    BY <1>4 DEF OneWriter
  <2>3. q.at < at
    BY <1>2, <1>6, <2>1, <2>2 DEF Writable
  <2>. QED
    BY <2>1, <2>3
<1>7. ASSUME NEW r \in boosts, NEW m \in Metric, NEW e \in events', e.scope = r.scope, e.metric = m,
             e \notin events
      PROVE  e \in MetricEvents(r, m)
  <2>1. PICK q \in boosts, k \in Metric : e \in MetricEvents(q, k)
    BY <1>1, <1>7
  <2>2. q.scope = r.scope /\ k = m
    BY <1>5, <1>7, <2>1
  <2>3. q = r
    BY <1>2, <2>2 DEF FactsOf
  <2>. QED
    BY <2>1, <2>2, <2>3
<1>8. ASSUME NEW e \in events' \ events
      PROVE  \E r \in new : e.scope = r.scope /\ e.at = at
  <2>1. PICK q \in boosts, k \in Metric : e \in MetricEvents(q, k)
    BY <1>1
  <2>. QED
    BY <1>5, <2>1
<1>9. \A r \in boosts, m \in Metric : MetricEvents(r, m) \subseteq events'
  BY <1>1
<1>10. events \subseteq events'
  BY <1>1
<1>. QED
  BY <1>2, <1>3, <1>5, <1>6, <1>7, <1>8, <1>9, <1>10

\* How the values of a metric may change, and the crossings of it.
LEMMA ChangeAddsUp ==
  ASSUME NEW h \in Nat, NEW before \in Int, NEW after \in Int
  PROVE  /\ Crossed(h, before, after) /\ after > before =>
              AtLeast(before, h) = 0 /\ AtLeast(after, h) = 1
         /\ Crossed(h, before, after) /\ ~(after > before) =>
              AtLeast(before, h) = 1 /\ AtLeast(after, h) = 0
         /\ ~Crossed(h, before, after) => AtLeast(before, h) = AtLeast(after, h)
         /\ AtLeast(before, h) \in {0, 1} /\ AtLeast(after, h) \in {0, 1}
BY DEF Crossed, AtLeast

\* The first value of a metric: its events begin.
LEMMA FirstRowAddsUp ==
  ASSUME Typed, Typed', RowsUnique', NEW facts, NEW at \in 1 .. lastAnswer, FactsOf(facts, at),
         Writable(facts, at), Record(facts),
         NEW r \in rows' \ rows, r.scope[1] = "boost", NEW m \in Metric, r.content[m] # None,
         LET previous == Latest(r.scope, MaxClock)
         IN  previous = None \/ previous.content[m] = None
  PROVE  AddUp(r, m)'
<1>. DEFINE first == BoostEvent(r, "first_seen", m, None, FALSE)
<1>1. /\ events \subseteq events' /\ r.at = at
      /\ \A e \in events : e.scope = r.scope => e.at < at
      /\ MetricEvents(r, m) \subseteq events'
      /\ \A e \in events' : e.scope = r.scope /\ e.metric = m =>
           e \in events \/ e \in MetricEvents(r, m)
  BY NewEvents
<1>2. MetricEvents(r, m) = {first}
  BY DEF MetricEvents
<1>3. first.at = at /\ first.scope = r.scope /\ first.metric = m /\ first.type = "first_seen"
  BY <1>1 DEF BoostEvent
<1>. HIDE DEF first
<1>4. at \in Nat /\ \A e \in events : e.at \in Nat
  BY EventTimes DEF Typed, ClockTyped
<1>5. /\ at \in Firsts(r.scope, m, r.at)'
      /\ \A n \in Firsts(r.scope, m, r.at)' : n <= at /\ n \in Nat
  <2>1. first \in {e \in events' : /\ e.scope = r.scope /\ e.metric = m
                                   /\ e.type = "first_seen" /\ e.at <= r.at}
    BY <1>1, <1>2, <1>3, <1>4
  <2>2. \A e \in events' : e.scope = r.scope /\ e.metric = m => e.at <= at /\ e.at \in Nat
    BY <1>1, <1>2, <1>3, <1>4
  <2>. QED
    BY <1>1, <1>3, <2>1, <2>2 DEF Firsts
<1>6. Max(Firsts(r.scope, m, r.at))' = at
  <2>. DEFINE S == Firsts(r.scope, m, r.at)'
  <2>1. S \in SUBSET Nat /\ S # {} /\ \A n \in S : n <= at
    BY <1>5
  <2>. HIDE DEF S
  <2>2. Max(S) \in S /\ \A n \in S : n <= Max(S)
    BY <1>4, <2>1, MaxIsGreatest
  <2>3. Max(S) = at
    BY <1>4, <1>5, <2>1, <2>2 DEF S
  <2>4. Max(Firsts(r.scope, m, r.at))' = Max(S)
    BY DEF Max, S
  <2>. QED
    BY <2>3, <2>4
<1>7. Latest(r.scope, at)' = r
  <2>. DEFINE latest == LatestIn(rows', r.scope, at)
  <2>1. \A q \in rows' : q.at \in Nat /\ q # None
    BY AllRowTimes
  <2>2. r \in {q \in rows' : q.scope = r.scope /\ q.at <= at}
    BY <1>1, <1>4
  <2>3. latest \in {q \in rows' : q.scope = r.scope /\ q.at <= at} /\ r.at <= latest.at
    BY <1>4, <2>1, <2>2, LatestInIs
  <2>4. latest \in rows' /\ latest.scope = r.scope /\ latest.at = r.at
    BY <1>1, <1>4, <2>1, <2>3
  <2>. HIDE DEF latest
  <2>5. latest = r
    BY <2>4 DEF RowsUnique
  <2>. QED
    BY <2>5, LatestIsIn DEF latest
<1>8. \A h, way : Between(r.scope, m, h, way, at, r.at)' = {}
  BY <1>1, <1>4, EventTimes DEF Between, Typed, EventsTyped, EventShape
<1>9. \A h : AtLeast(r.content[m], h) \in {0, 1}
  BY DEF AtLeast
<1>10. ASSUME NEW h
       PROVE  /\ Cardinality(Between(r.scope, m, h, TRUE, at, r.at))' = 0
              /\ Cardinality(Between(r.scope, m, h, FALSE, at, r.at))' = 0
  BY <1>8, FS_EmptySet
<1>11. \A h \in Threshold :
         AtLeast(Latest(r.scope, at)'.content[m], h)
           + Cardinality(Between(r.scope, m, h, TRUE, at, r.at))'
         = Cardinality(Between(r.scope, m, h, FALSE, at, r.at))' + AtLeast(r.content[m], h)
  <2>. SUFFICES ASSUME NEW h \in Threshold
                PROVE  AtLeast(r.content[m], h)
                         + Cardinality(Between(r.scope, m, h, TRUE, at, r.at))'
                       = Cardinality(Between(r.scope, m, h, FALSE, at, r.at))'
                         + AtLeast(r.content[m], h)
    BY <1>7
  <2>1. /\ Cardinality(Between(r.scope, m, h, TRUE, at, r.at))' = 0
        /\ Cardinality(Between(r.scope, m, h, FALSE, at, r.at))' = 0
    BY <1>10
  <2>2. AtLeast(r.content[m], h) \in {0, 1}
    BY <1>9
  <2>. DEFINE side == AtLeast(r.content[m], h)
              rises == Cardinality(Between(r.scope, m, h, TRUE, at, r.at))'
              falls == Cardinality(Between(r.scope, m, h, FALSE, at, r.at))'
  <2>3. side \in {0, 1} /\ rises = 0 /\ falls = 0
    BY <2>1, <2>2
  <2>. HIDE DEF side, rises, falls
  <2>4. side + rises = falls + side
    BY <2>3
  <2>. QED
    BY <2>4 DEF side, rises, falls
<1>. QED
  BY <1>5, <1>6, <1>11 DEF AddUp, AtLeast

\* A later value of a metric: its crossings are added to those of the row before.
LEMMA LaterRowAddsUp ==
  ASSUME Typed, Typed', AllAddUp, NEW facts, NEW at \in 1 .. lastAnswer, FactsOf(facts, at),
         Writable(facts, at), Record(facts),
         NEW r \in rows' \ rows, r.scope[1] = "boost", NEW m \in Metric, r.content[m] # None,
         Latest(r.scope, MaxClock) # None, Latest(r.scope, MaxClock).content[m] # None
  PROVE  AddUp(r, m)'
<1>1. /\ events \subseteq events' /\ r.at = at /\ IsFact(r)
      /\ \A e \in events : e.scope = r.scope => e.at < at
      /\ MetricEvents(r, m) \subseteq events'
      /\ \A e \in MetricEvents(r, m) : e.at = at /\ e.scope = r.scope /\ e.metric = m
      /\ \A e \in events' : e.scope = r.scope /\ e.metric = m =>
           e \in events \/ e \in MetricEvents(r, m)
  BY NewEvents
<1>2. at \in Nat /\ MaxClock \in Nat /\ lastAnswer \in Nat /\ lastAnswer <= MaxClock
  BY Constants DEF Typed, ClockTyped
<1>3. /\ r \in facts /\ \A p \in rows' \ rows : p.at = at
      /\ rows \subseteq rows' /\ r.scope \in OneWriter
  BY <1>1, NewRows DEF IsFact, OneWriter
<1>4. PICK q : q = Latest(r.scope, MaxClock)
  OBVIOUS
<1>5. /\ q \in rows /\ q.scope = r.scope /\ q.at \in Nat /\ q.content[m] # None
      /\ \A p \in rows : p.scope = r.scope => p.at <= q.at
  <2>1. \A p \in rows : p.at \in Nat /\ p # None /\ p.at <= MaxClock
    BY <1>2, RowTimes DEF Typed
  <2>. DEFINE latest == LatestIn(rows, r.scope, MaxClock)
              known == {p \in rows : p.scope = r.scope /\ p.at <= MaxClock}
  <2>2. q = latest /\ latest # None
    BY <1>4, LatestIsIn
  <2>3. /\ known = {} => latest = None
        /\ known # {} => latest \in known /\ \A p \in known : p.at <= latest.at
    BY <1>2, <2>1, LatestInIs
  <2>. HIDE DEF latest
  <2>4. q \in known /\ \A p \in known : p.at <= q.at
    BY <2>2, <2>3
  <2>. QED
    BY <1>4, <2>1, <2>4
<1>6. q.at < at
  BY <1>3, <1>5 DEF Writable
<1>. DEFINE before == q.content[m]
            after == r.content[m]
            higher == after > before
            crossing(h) == BoostEvent(r, "threshold_crossing", m, h, higher)
<1>7. before \in Int /\ after \in Int
  <2>1. IsFact(q) /\ q.scope[1] = "boost"
    BY <1>5 DEF Typed, FactsTyped
  <2>2. before \in Value /\ after \in Value
    BY <1>1, <2>1, BoostValues DEF IsFact
  <2>. QED
    BY <1>5, <2>2 DEF Value
<1>8. MetricEvents(r, m) =
        IF after = before THEN {}
        ELSE {BoostEvent(r, "state_change", m, None, higher)} \cup
             {crossing(h) : h \in {h \in Threshold : Crossed(h, before, after)}}
  BY <1>4, <1>5 DEF MetricEvents
<1>9. /\ \A h : /\ crossing(h).type = "threshold_crossing" /\ crossing(h).threshold = h
                /\ crossing(h).up = higher
      /\ BoostEvent(r, "state_change", m, None, higher).type = "state_change"
  BY DEF BoostEvent
<1>10. higher \in BOOLEAN
  OBVIOUS
<1>. HIDE DEF crossing
<1>11. \A e \in events : e.scope = r.scope => e.at \in Nat /\ e.at <= q.at
  BY <1>5, EventTimes DEF Typed, ClockTyped
<1>12. Firsts(r.scope, m, r.at)' = Firsts(r.scope, m, q.at)
  <2>1. \A e \in MetricEvents(r, m) : e.type # "first_seen"
    BY <1>8, <1>9
  <2>2. {e \in events' : e.scope = r.scope /\ e.metric = m /\ e.type = "first_seen" /\ e.at <= r.at}
          = {e \in events : /\ e.scope = r.scope /\ e.metric = m
                            /\ e.type = "first_seen" /\ e.at <= q.at}
    BY <1>1, <1>2, <1>5, <1>6, <1>11, <2>1
  <2>. QED
    BY <2>2 DEF Firsts
<1>13. PICK first : first = Max(Firsts(r.scope, m, q.at))
  OBVIOUS
<1>14. /\ Firsts(r.scope, m, q.at) # {}
       /\ \A h \in Threshold :
            AtLeast(Latest(r.scope, first).content[m], h)
              + Cardinality(Between(r.scope, m, h, TRUE, first, q.at))
            = Cardinality(Between(r.scope, m, h, FALSE, first, q.at)) + AtLeast(before, h)
  BY <1>5, <1>13 DEF AllAddUp, AddUp
<1>15. first \in Nat /\ first <= q.at
  BY <1>5, <1>13, <1>14, FirstsAre
<1>16. Latest(r.scope, first)' = Latest(r.scope, first)
  <2>1. {p \in rows' : p.scope = r.scope /\ p.at <= first}
          = {p \in rows : p.scope = r.scope /\ p.at <= first}
    BY <1>2, <1>3, <1>5, <1>6, <1>15
  <2>. QED
    BY <2>1, LatestStays
<1>17. Max(Firsts(r.scope, m, r.at))' = first
  BY <1>12, <1>13 DEF Max
<1>18. ASSUME NEW h \in Threshold, NEW way \in BOOLEAN
       PROVE  LET old == Between(r.scope, m, h, way, first, q.at)
              IN  /\ IsFiniteSet(old)
                  /\ Crossed(h, before, after) /\ way = higher /\ after # before =>
                       /\ Between(r.scope, m, h, way, first, r.at)' = old \cup {crossing(h)}
                       /\ crossing(h) \notin old
                  /\ ~(Crossed(h, before, after) /\ way = higher /\ after # before) =>
                       Between(r.scope, m, h, way, first, r.at)' = old
  <2>. DEFINE old == Between(r.scope, m, h, way, first, q.at)
              added == {e \in MetricEvents(r, m) :
                          e.type = "threshold_crossing" /\ e.threshold = h /\ e.up = way}
  <2>1. IsFiniteSet(old)
    BY CrossingsFinite
  <2>2. Between(r.scope, m, h, way, first, r.at)' = old \cup added
    BY <1>1, <1>2, <1>5, <1>6, <1>11, <1>15 DEF Between
  <2>3. \A e \in old : e.at <= q.at
    BY DEF Between
  <2>4. \A e \in MetricEvents(r, m) : e \notin old
    BY <1>1, <1>2, <1>5, <1>6, <2>3
  <2>5. Crossed(h, before, after) /\ way = higher /\ after # before => added = {crossing(h)}
    BY <1>8, <1>9
  <2>6. ~(Crossed(h, before, after) /\ way = higher /\ after # before) => added = {}
    BY <1>8, <1>9
  <2>7. Crossed(h, before, after) /\ after # before => crossing(h) \in MetricEvents(r, m)
    BY <1>8
  <2>. HIDE DEF old, added
  <2>. QED
    BY <2>1, <2>2, <2>4, <2>5, <2>6, <2>7 DEF old
<1>19. ASSUME NEW h \in Threshold
       PROVE  AtLeast(Latest(r.scope, first)'.content[m], h)
                + Cardinality(Between(r.scope, m, h, TRUE, first, r.at)')
              = Cardinality(Between(r.scope, m, h, FALSE, first, r.at)') + AtLeast(after, h)
  <2>. DEFINE U == Between(r.scope, m, h, TRUE, first, q.at)
              D == Between(r.scope, m, h, FALSE, first, q.at)
              U1 == Between(r.scope, m, h, TRUE, first, r.at)'
              D1 == Between(r.scope, m, h, FALSE, first, r.at)'
              start == AtLeast(Latest(r.scope, first).content[m], h)
  <2>1. start + Cardinality(U) = Cardinality(D) + AtLeast(before, h)
    BY <1>14
  <2>2. /\ IsFiniteSet(U)
        /\ Crossed(h, before, after) /\ higher /\ after # before =>
             U1 = U \cup {crossing(h)} /\ crossing(h) \notin U
        /\ ~(Crossed(h, before, after) /\ higher /\ after # before) => U1 = U
    BY <1>10, <1>18
  <2>3. /\ IsFiniteSet(D)
        /\ Crossed(h, before, after) /\ ~higher /\ after # before =>
             D1 = D \cup {crossing(h)} /\ crossing(h) \notin D
        /\ ~(Crossed(h, before, after) /\ ~higher /\ after # before) => D1 = D
    BY <1>10, <1>18
  <2>4. h \in Nat /\ start \in {0, 1}
    BY Constants DEF AtLeast
  <2>5. /\ Crossed(h, before, after) /\ higher =>
              AtLeast(before, h) = 0 /\ AtLeast(after, h) = 1
        /\ Crossed(h, before, after) /\ ~higher =>
              AtLeast(before, h) = 1 /\ AtLeast(after, h) = 0
        /\ ~Crossed(h, before, after) => AtLeast(before, h) = AtLeast(after, h)
        /\ AtLeast(before, h) \in {0, 1} /\ AtLeast(after, h) \in {0, 1}
    BY <1>7, <2>4, ChangeAddsUp
  <2>6. after = before => AtLeast(before, h) = AtLeast(after, h)
    OBVIOUS
  <2>. HIDE DEF U, D, U1, D1, start, before, after, higher
  <2>7. Cardinality(U) \in Nat /\ Cardinality(D) \in Nat
    BY <2>2, <2>3, FS_CardinalityType
  <2>8. start + Cardinality(U1) = Cardinality(D1) + AtLeast(after, h)
    <3>1. CASE Crossed(h, before, after) /\ higher /\ after # before
      <4>1. Cardinality(U1) = Cardinality(U) + 1 /\ D1 = D
        BY <2>2, <2>3, <3>1, FS_AddElement
      <4>. QED
        BY <2>1, <2>4, <2>5, <2>7, <3>1, <4>1
    <3>2. CASE Crossed(h, before, after) /\ ~higher /\ after # before
      <4>1. Cardinality(D1) = Cardinality(D) + 1 /\ U1 = U
        BY <2>2, <2>3, <3>2, FS_AddElement
      <4>. QED
        BY <2>1, <2>4, <2>5, <2>7, <3>2, <4>1
    <3>3. CASE ~Crossed(h, before, after) \/ after = before
      <4>1. U1 = U /\ D1 = D /\ AtLeast(before, h) = AtLeast(after, h)
        BY <2>2, <2>3, <2>5, <2>6, <3>3
      <4>. QED
        BY <2>1, <4>1
    <3>. QED
      BY <3>1, <3>2, <3>3
  <2>. QED
    BY <1>16, <2>8 DEF U1, D1, start, after
<1>. QED
  BY <1>12, <1>14, <1>17, <1>19 DEF AddUp, AtLeast

LEMMA RecordAddsUp ==
  ASSUME Typed, Typed', Histories, AllAddUp, NEW facts, NEW at \in 1 .. lastAnswer,
         FactsOf(facts, at), Writable(facts, at), Record(facts)
  PROVE  AllAddUp'
<1>1. RowsUnique'
  BY RecordUnique DEF Histories
<1>2. /\ events \subseteq events' /\ rows \subseteq rows'
      /\ \A e \in events' \ events : \E p \in rows' \ rows : e.scope = p.scope /\ e.at = at
      /\ \A p \in rows' \ rows : p \in facts /\ p.at = at
  BY NewEvents, NewRows
<1>3. at \in Nat
  BY DEF Typed, ClockTyped
<1>4. ASSUME NEW r \in rows, r.scope[1] = "boost", NEW m \in Metric, r.content[m] # None
      PROVE  AddUp(r, m)'
  <2>1. AddUp(r, m)
    BY <1>4 DEF AllAddUp
  <2>2. r.scope \in OneWriter /\ r.at \in Nat
    BY <1>4 DEF Typed, FactsTyped, IsFact, OneWriter, ClockTyped
  <2>3. \A p \in rows' \ rows : p.scope = r.scope => ~(at <= r.at)
    <3>1. \A p \in facts : p.scope = r.scope => r.at < at
      BY <2>2 DEF Writable
    <3>. QED
      BY <1>2, <1>3, <2>2, <3>1
  <2>. QED
    BY <1>2, <1>3, <2>1, <2>3, OldRowAddsUp
<1>5. ASSUME NEW r \in rows' \ rows, r.scope[1] = "boost", NEW m \in Metric, r.content[m] # None
      PROVE  AddUp(r, m)'
  BY <1>1, <1>5, FirstRowAddsUp, LaterRowAddsUp
<1>6. \A r \in rows' : r \in rows \/ r \in rows' \ rows
  OBVIOUS
<1>. QED
  BY <1>4, <1>5, <1>6 DEF AllAddUp

LEMMA NextAddsUp ==
  ASSUME Typed, Typed', Histories, AllAddUp, [Next]_vars
  PROVE  AllAddUp'
<1>1. ASSUME NEW f \in Feed, StoreRecord(f)
      PROVE  AllAddUp'
  <2>1. feeds[f] # None /\ feeds[f].at \in 1 .. lastAnswer /\ Record(FeedFacts(f))
    BY <1>1, StoreRecordHolds DEF StoreRecord
  <2>. QED
    BY <1>1, <2>1, FeedFactsAre, StoreRecordWrites, RecordAddsUp
<1>2. ASSUME NEW a \in polls, Complete(a)
      PROVE  AllAddUp'
  <2>1. Owned(a) /\ Record(PollFacts(a)) /\ a.at \in 1 .. lastAnswer
    BY <1>2 DEF Complete, Typed, PollsTyped, IsPoll
  <2>. QED
    BY <2>1, PollFactsAre, CompleteWrites, RecordAddsUp
<1>3. ASSUME UNCHANGED stored
      PROVE  AllAddUp'
  <2>1. rows' = rows /\ events' = events
    BY <1>3 DEF stored
  <2>2. ASSUME NEW r \in rows, NEW m \in Metric, AddUp(r, m)
        PROVE  AddUp(r, m)'
    BY <2>1, <2>2, OldRowAddsUp
  <2>. QED
    BY <2>1, <2>2 DEF AllAddUp
<1>4. CASE UNCHANGED vars
  BY <1>3, <1>4 DEF vars, stored
<1>5. CASE \/ Tick \/ StartCollector \/ StopCollector
           \/ RecordContext \/ ConfirmContext \/ RejectContext
  BY <1>3, <1>5 DEF Tick, StartCollector, StopCollector, RecordContext, ConfirmContext,
                    RejectContext
<1>6. ASSUME NEW f \in Feed, ReceiveFeed(f)
      PROVE  AllAddUp'
  BY <1>3, <1>6 DEF ReceiveFeed
<1>7. ASSUME NEW p \in Pair, ReceivePoll(p)
      PROVE  AllAddUp'
  BY <1>3, <1>7 DEF ReceivePoll
<1>8. ASSUME NEW a \in polls, LeaseLost(a) \/ LosePoll(a)
      PROVE  AllAddUp'
  BY <1>3, <1>8 DEF LeaseLost, LosePoll
<1>9. ASSUME NEW a \in polls, CommitPoll(a) \/ CommitPollUnevaluated(a)
      PROVE  AllAddUp'
  BY <1>2, <1>9 DEF CommitPoll, CommitPollUnevaluated
<1>. QED
  BY <1>1, <1>4, <1>5, <1>6, <1>7, <1>8, <1>9 DEF Next

LEMMA AllAddUpIsSum ==
  ASSUME AllAddUp
  PROVE  CrossingsAddUp
<1>. SUFFICES ASSUME NEW r \in rows, r.scope[1] = "boost", NEW m \in Metric, r.content[m] # None
              PROVE  LET firsts == Firsts(r.scope, m, r.at)
                     IN  /\ firsts # {}
                         /\ \A h \in Threshold :
                              AtLeast(Latest(r.scope, Max(firsts)).content[m], h)
                                + Count(r.scope, m, h, TRUE, Max(firsts), r.at)
                              = Count(r.scope, m, h, FALSE, Max(firsts), r.at)
                                + AtLeast(r.content[m], h)
  BY DEF CrossingsAddUp, Firsts
<1>1. AddUp(r, m)
  BY DEF AllAddUp
<1>2. \A h, way, from, to : Count(r.scope, m, h, way, from, to)
                             = Cardinality(Between(r.scope, m, h, way, from, to))
  BY DEF Count, Between
<1>. QED
  BY <1>1, <1>2 DEF AddUp

(* The results.                                                             *)

EnrichmentInv == Typed /\ Histories /\ AllAddUp /\ ContextsSound

\* The inductive invariant: the tables are typed, what is held is newer than what is stored,
\* the events add up and every context explains what it lacks.
THEOREM EnrichmentInvariance == Spec => []EnrichmentInv
<1>1. Init => EnrichmentInv
  <2>. SUFFICES ASSUME Init
                PROVE  EnrichmentInv
    OBVIOUS
  <2>1. AllAddUp
    BY DEF Init, AllAddUp
  <2>. QED
    BY <2>1, InitTyped, InitHistories, InitContextsSound DEF EnrichmentInv
<1>2. EnrichmentInv /\ [Next]_vars => EnrichmentInv'
  BY NextTyped, NextHistories, NextAddsUp, NextContextsSound DEF EnrichmentInv
<1>. QED
  BY <1>1, <1>2, PTL DEF Spec

\* HistoriesConsistent: the records have their types, and a change-only history says, at the
\* receipt of every answer that was stored, what that answer said, however late it was
\* committed and whatever process died in between (record_if_changed).
THEOREM HistoriesStayConsistent == Spec => []HistoriesConsistent
<1>1. EnrichmentInv => HistoriesConsistent
  BY TypedIsTypeOK DEF EnrichmentInv, Histories, HistoriesConsistent
<1>. QED
  BY <1>1, EnrichmentInvariance, PTL

\* CrossingsAddUp: from its last first_seen on, the crossings of every threshold add up to
\* the side the metric is on (_record_events), for every set of thresholds and all values.
THEOREM CrossingsAlwaysAddUp == Spec => []CrossingsAddUp
<1>1. EnrichmentInv => CrossingsAddUp
  BY AllAddUpIsSum DEF EnrichmentInv
<1>. QED
  BY <1>1, EnrichmentInvariance, PTL

\* ContextsExplained: what a market context lacks was on its way when it was recorded, and a
\* stored context is contradicted only by what was committed late (record_closed_bucket).
THEOREM ContextsStayExplained == Spec => []ContextsExplained
<1>1. EnrichmentInv => ContextsExplained
  BY ContextsSoundExplain DEF EnrichmentInv
<1>. QED
  BY <1>1, EnrichmentInvariance, PTL
=============================================================================
