----------------------------- MODULE ResearchAsOf -----------------------------
(***************************************************************************)
(* What research knows of one token at a decision time, and what it labels *)
(* afterwards (research/asof.py, features.py, labels.py, candidates.py,    *)
(* contracts.py, sources.py).                                              *)
(*                                                                         *)
(* A history is a set of facts.  Numbers derived from facts by arithmetic  *)
(* alone are left out: a feature is represented by the facts it is         *)
(* computed from.                                                          *)
(***************************************************************************)
EXTENDS Integers, FiniteSets

CONSTANTS
  Lookbacks,              \* LOOKBACK_HORIZONS_SECONDS
  OneMinute,              \* the lookback the slopes and accelerations use
  LookbackTolerance(_),   \* LOOKBACK_TOLERANCE_SECONDS
  PathWindow,             \* the five minutes of the path features
  Horizons,               \* LABEL_HORIZONS_SECONDS
  LabelTolerance(_),      \* LABEL_FORWARD_TOLERANCE_SECONDS
  GapAllowed(_),          \* the longest gap of a complete path
  Upside, Downside,       \* a crossing is a price of Upside, or of 1 / Downside, times the entry
  Offsets,                \* CandidateTimestampPolicy.offsets_seconds
  LabelledStates,         \* CandidateTimestampPolicy.lifecycle_states
  None

\* The tables a history is read from; selective security has eight of them.
Family ==
  {"discovery", "observation", "lifecycle", "pair_fact", "boost", "metadata", "security",
   "context", "coverage", "candidate", "tier", "selective"}

\* at is the receipt or the decision; ref is the input watermark, the end of the bucket or
\* the time a coverage class takes effect; value is a state, a class or an acquisition mode.
IsFact(f) ==
  /\ f.id \in Nat /\ f.family \in Family
  /\ f.at \in Nat /\ f.ref \in Int
  /\ {f.price, f.liquidity} \subseteq Nat \cup {None} /\ f.pair \in Nat \cup {None}

ASSUME ResearchAssumption ==
  /\ Lookbacks \subseteq Nat /\ OneMinute \in Lookbacks /\ Horizons \subseteq Nat
  /\ \A h \in Lookbacks : LookbackTolerance(h) \in Nat
  /\ \A h \in Horizons : {LabelTolerance(h), GapAllowed(h)} \subseteq Nat
  /\ {PathWindow, Upside, Downside} \subseteq Nat /\ Offsets \subseteq Nat
  /\ None \notin Int

Of(family, facts) == {f \in facts : f.family = family}
Least(S) == CHOOSE n \in S : \A k \in S : n <= k
Greatest(S) == CHOOSE n \in S : \A k \in S : k <= n

\* Tuples in dictionary order, the order of Python's max and sorted.
AtLeast(a, b) ==
  \/ a = b
  \/ \E i \in DOMAIN a : a[i] > b[i] /\ \A j \in 1 .. i - 1 : a[j] = b[j]
MaxBy(Key(_), S) ==
  IF S = {} THEN None ELSE CHOOSE f \in S : \A g \in S : AtLeast(Key(f), Key(g))

ByReceipt(f) == <<f.at, f.id>>
ByBucket(f) == <<f.at, f.ref, f.id>>
ByEffect(f) == <<f.ref, f.at, f.id>>
Latest(S) == MaxBy(ByReceipt, S)
LatestInEffect(S) == MaxBy(ByEffect, S)
LatestBucket(S) == MaxBy(ByBucket, S)
Earliest(S) ==
  IF S = {} THEN None ELSE CHOOSE f \in S : \A g \in S : AtLeast(ByReceipt(g), ByReceipt(f))
-----------------------------------------------------------------------------
\* The facts a decision may use.

\* Mutation of Received: the time of the source instead of the receipt.
ReceivedBySource(facts, family, time) == {f \in Of(family, facts) : f.ref <= time}
Received(facts, family, time) == {f \in Of(family, facts) : f.at <= time}

Lifecycle(facts, time) == {f \in Received(facts, "lifecycle", time) : f.ref <= f.at}
InEffect(facts, time) == {f \in Received(facts, "coverage", time) : f.ref <= time}
Decided(facts, family, time) == {f \in Received(facts, family, time) : f.ref <= time}
ClosedBuckets(facts, time) == {f \in Received(facts, "context", time) : f.ref <= time}
Selective(facts, time) ==
  {f \in Received(facts, "selective", time) : f.value = "historically_available"}

Admissions(facts, time) == {f.at : f \in {e \in Lifecycle(facts, time) : e.value = "NEW"}}

\* The pair of the best known liquidity, each pair judged by its latest observation.
PairRank(f) ==
  IF f.liquidity = None THEN <<0, 0, f.at, f.pair>> ELSE <<1, f.liquidity, f.at, f.pair>>
SelectPair(seen) ==
  IF seen = {} THEN None
  ELSE MaxBy(PairRank, {Latest({g \in seen : g.pair = f.pair}) : f \in seen}).pair

\* _validate_history: what the adapters must never hand over.
ValidHistory(facts) ==
  /\ \A f \in Of("lifecycle", facts) \cup Of("candidate", facts) \cup Of("tier", facts) :
       f.ref <= f.at
  /\ \A f \in Of("context", facts) : f.ref <= f.at
  /\ \A f \in Of("selective", facts) :
       f.value \in {"historically_available", "retrospectively_reconstructed"}

AsOf(facts, time) ==
  LET seen == Received(facts, "observation", time)
      pair == SelectPair(seen)
      observed == {f \in seen : f.pair = pair}
      boosts == Received(facts, "boost", time)
  IN [time |-> time,
      admitted |-> IF Admissions(facts, time) = {} THEN None
                   ELSE Least(Admissions(facts, time)),
      discoveries |-> Received(facts, "discovery", time),
      lifecycle |-> Latest(Lifecycle(facts, time)),
      coverage |-> LatestInEffect(InEffect(facts, time)),
      candidate |-> Latest(Decided(facts, "candidate", time)),
      tier |-> Latest(Decided(facts, "tier", time)),
      seen |-> seen, pair |-> pair, observed |-> observed, current |-> Latest(observed),
      pair_fact |-> Latest({f \in Received(facts, "pair_fact", time) : f.pair = pair}),
      boost |-> Latest(boosts), first_boost |-> Earliest(boosts),
      previous_boost |-> Latest(boosts \ {Latest(boosts)}),
      metadata |-> Latest(Received(facts, "metadata", time)),
      security |-> Latest(Received(facts, "security", time)),
      selective |-> Selective(facts, time),
      context |-> LatestBucket(ClosedBuckets(facts, time))]

IdentityKnown(state) ==
  \/ state.discoveries # {} \/ state.seen # {}
  \/ {state.lifecycle, state.candidate, state.tier} # {None}

\* The availability watermark: coverage has no part in it.
Watermark(state) ==
  LET known == state.discoveries \cup state.observed \cup state.selective
                 \cup ({state.lifecycle, state.candidate, state.tier, state.pair_fact,
                        state.boost, state.metadata, state.security, state.context} \ {None})
  IN IF known = {} THEN None ELSE Greatest({f.at : f \in known})
-----------------------------------------------------------------------------
\* Features: everything is computed from the state.

Lookback(observed, end, horizon) ==
  LET baseline == Latest({f \in observed : f.at <= end - horizon})
  IN IF baseline = None THEN None
     ELSE IF end - horizon - baseline.at > LookbackTolerance(horizon) THEN None ELSE baseline

PathPoints(state) ==
  {f \in state.observed : f.at >= state.time - PathWindow /\ f.price \notin {None, 0}}

MarketFeatures(state) ==
  LET baseline == [h \in Lookbacks |-> Lookback(state.observed, state.time, h)]
  IN [admitted |-> state.admitted, identity_known |-> IdentityKnown(state),
      lifecycle |-> state.lifecycle, coverage |-> state.coverage,
      pair |-> state.pair, current |-> state.current,
      baseline |-> baseline,
      prior |-> IF baseline[OneMinute] = None THEN None
                ELSE Lookback(state.observed, state.time - OneMinute, OneMinute),
      path |-> PathPoints(state),
      boosts |-> <<state.first_boost, state.previous_boost, state.boost>>,
      security |-> state.security, context |-> state.context,
      metadata_known |-> state.metadata # None,
      pair_fact |-> state.pair_fact, watermark |-> Watermark(state)]
-----------------------------------------------------------------------------
\* Labels: the observations of the selected pair after the decision.

Future(facts, state) ==
  {f \in Of("observation", facts) : f.pair = state.pair /\ f.at > state.time}

PathLimit(state, horizon) == state.time + horizon + LabelTolerance(horizon)
Endpoint(future, state, horizon) ==
  Earliest({f \in future : f.at \in state.time + horizon .. PathLimit(state, horizon)})
\* Mutation of Path: no limit.
PathUnbounded(future, state, horizon) == future
Path(future, state, horizon) == {f \in future : f.at <= PathLimit(state, horizon)}

\* Every point of the path follows another within the allowed gap.
PathComplete(state, path, horizon) ==
  /\ state.current # None /\ path # {}
  /\ \A f \in path : \E g \in path \cup {state.current} :
       g.at < f.at /\ f.at - g.at <= GapAllowed(horizon)

\* What was seen to happen is known; what was not is false only if nothing was missed.
Tri(happened, complete) ==
  IF happened THEN "TRUE" ELSE IF complete THEN "FALSE" ELSE "UNKNOWN"

Priced(path) == {f \in path : f.price # None}
Ups(state, path) ==
  IF state.current = None \/ state.current.price \in {None, 0} THEN {}
  ELSE {f \in Priced(path) : f.price >= state.current.price * Upside}
Downs(state, path) ==
  IF state.current = None \/ state.current.price \in {None, 0} THEN {}
  ELSE {f \in Priced(path) : f.price * Downside <= state.current.price}
\* A price of 0 is the first crossing of _first_cross, but none of _path_labels.
CrossedDown(state, path) == \E f \in Downs(state, path) : f.price # 0

\* Liquidity at the decision and along the path; "minus 80%" and "half" are the code's.
EntryLiquidity(state) ==
  IF state.current = None \/ state.current.liquidity = None THEN 0 ELSE state.current.liquidity
Collapses(state, path) ==
  {f \in path : /\ EntryLiquidity(state) > 0 /\ f.liquidity # None
                /\ f.liquidity * 5 <= EntryLiquidity(state)}
Survives(state, path) ==
  /\ EntryLiquidity(state) > 0 /\ path # {} /\ Latest(path).liquidity # None
  /\ Latest(path).liquidity * 2 >= EntryLiquidity(state)

LifecycleAt(facts, endpoint) ==
  IF endpoint = None THEN None ELSE Latest(Lifecycle(facts, endpoint.at))

HorizonLabels(facts, state, horizon) ==
  LET future == Future(facts, state)
      path == Path(future, state, horizon)
      endpoint == Endpoint(future, state, horizon)
      complete == endpoint # None /\ PathComplete(state, path, horizon)
  IN [endpoint |-> endpoint, complete |-> complete,
      extremes |-> IF complete THEN {f.price : f \in Priced(path)} ELSE {},
      crossed_up |-> Tri(Ups(state, path) # {}, complete),
      crossed_down |-> Tri(CrossedDown(state, path), complete),
      collapse |-> Tri(Collapses(state, path) # {}, complete),
      survival |-> Tri(Survives(state, path), complete),
      lifecycle |-> LifecycleAt(facts, endpoint),
      used |-> path]

\* Which of the two thresholds came first, over the longest horizon with any observation.
LongestHorizon(facts, state) ==
  LET reached == {h \in Horizons : Path(Future(facts, state), state, h) # {}}
  IN Greatest(IF reached = {} THEN Horizons ELSE reached)
UpBeforeDown(facts, state) ==
  LET horizon == LongestHorizon(facts, state)
      path == Path(Future(facts, state), state, horizon)
      up == Earliest(Ups(state, path))
      down == Earliest(Downs(state, path))
  IN IF up # None
     THEN IF down = None THEN "TRUE" ELSE IF up.at < down.at THEN "TRUE" ELSE "FALSE"
     ELSE Tri(FALSE, down # None \/ HorizonLabels(facts, state, horizon).complete)

Labels(facts, state) ==
  [horizon |-> [h \in Horizons |-> HorizonLabels(facts, state, h)],
   up_before_down |-> UpBeforeDown(facts, state)]
=============================================================================
