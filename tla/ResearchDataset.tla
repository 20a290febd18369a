---------------------------- MODULE ResearchDataset ----------------------------
(***************************************************************************)
(* Research datasets of one token, built while its facts are recorded      *)
(* (research/sources.py, research/dataset.py, research/contracts.py).      *)
(*                                                                         *)
(* A fact gets its time when it is received or decided and becomes visible *)
(* when its transaction commits, which may be later.  A closed epoch is    *)
(* exported to an archive; a build reads PostgreSQL, the archive, or both  *)
(* sides of a cutoff, and publishes a directory named by a digest.         *)
(***************************************************************************)
EXTENDS ResearchAsOf, Sequences

CONSTANTS
  Builder,
  Template,       \* what may be recorded; lag is ref - at
  Hashed,         \* the families _histories_content_sha256 covers
  Scope,          \* [start, end] of a build
  Mode,           \* candidate timestamp policies
  Windows,        \* the split windows, in order; <<>> without a split contract
  PurgeHorizon,   \* maximum_label_horizon_seconds
  MaxTime, MaxOpen, MaxFacts, MaxBuilds   \* bounds of the model

VARIABLES
  now,
  closed,      \* the epoch is closed: nothing more is received
  open,        \* facts of transactions that have not committed
  facts,       \* committed facts
  archive,     \* None, or the verified export of the facts before its cutoff
  builder,     \* what every build command holds in memory
  published,   \* dataset directories, each with the history it was computed from
  live,        \* history: the features of the facts that existed when a time was over
  builds

vars == <<now, closed, open, facts, archive, builder, published, live, builds>>
recording == <<now, closed, open, facts, live>>

Fact ==
  {[id |-> t.id, family |-> t.family, at |-> at, ref |-> at + t.lag, pair |-> t.pair,
    price |-> t.price, liquidity |-> t.liquidity, value |-> t.value] :
     t \in Template, at \in 0 .. MaxTime}
Idle == [pc |-> "idle", identity |-> None, history |-> {}, rows |-> {}]
Source == {"hot", "cold", "hot_cold"}

ASSUME DatasetAssumption ==
  /\ Hashed \subseteq Family /\ Mode \subseteq {"fixed_age", "observation", "lifecycle"}
  /\ \A s \in Scope : s.start \in Nat /\ s.end \in Nat /\ s.start < s.end
  /\ \A i \in DOMAIN Windows :
       /\ {Windows[i].start, Windows[i].end, Windows[i].label_end} \subseteq Nat
       /\ Windows[i].start < Windows[i].end /\ Windows[i].end <= Windows[i].label_end
  /\ \A i \in DOMAIN Windows : i + 1 \in DOMAIN Windows =>
       Windows[i].end <= Windows[i + 1].start
  /\ \A h \in Horizons : h <= PurgeHorizon
  /\ {MaxTime, MaxOpen, MaxFacts, MaxBuilds, PurgeHorizon} \subseteq Nat
  /\ \A f \in Fact : IsFact(f)

\* NULL is not the identity of a dataset.
ASSUME DatasetNullAssumption ==
  None \notin [source : Source, cutoff : Nat \cup {None}, mode : Mode, scope : Scope,
               hashed : SUBSET Fact]

\* Facts are committed once, and a build that is not idle has an identity.
TypeOK ==
  /\ now \in 0 .. MaxTime /\ closed \in BOOLEAN
  /\ open \cup facts \subseteq Fact /\ open \cap facts = {}
  /\ \A f, g \in open \cup facts : f.id = g.id => f = g
  /\ archive # None => archive.facts \subseteq facts /\ archive.cutoff \in Nat
  /\ \A b \in Builder : builder[b].pc = "idle" <=> builder[b].identity = None
  /\ \A b \in Builder : builder[b].history \subseteq facts
-----------------------------------------------------------------------------
\* The sources of a history.

\* Mutation of Slice: an exclusive lower end.
SliceAfter(history, start, end) == {f \in history : start < f.at /\ f.at < end}
Slice(history, start, end) == {f \in history : start <= f.at /\ f.at < end}

\* Lifecycle events and coverage decisions are read from the beginning of the epoch.
HotRows(start, end) ==
  {f \in facts : f.at < end /\ (start <= f.at \/ f.family \in {"lifecycle", "coverage"})}
\* A token has a history when anything of it was observed, decided or proposed.
TokenIn(rows) == \E f \in rows : f.family \in {"lifecycle", "observation", "candidate"}
Hot(start, end) == IF TokenIn(facts) THEN HotRows(start, end) ELSE {}

\* An export holds only the tokens its facts refer to; buckets of the market refer to none.
Cold(start, end) ==
  IF archive = None THEN {}
  ELSE IF \E f \in archive.facts : f.family # "context"
       THEN Slice(archive.facts, start, end) ELSE {}

Smaller(a, b) == IF a < b THEN a ELSE b
Larger(a, b) == IF a < b THEN b ELSE a

\* Equal facts of both sides are merged by identifier.
HotCold(start, end, cutoff) ==
  Slice(Cold(start, Smaller(end, cutoff)), start, Smaller(end, cutoff))
    \cup Slice(Hot(Larger(start, cutoff), end), Larger(start, cutoff), end)

Load(source, scope) ==
  CASE source = "hot" -> Hot(scope.start, scope.end)
    [] source = "cold" -> Cold(scope.start, scope.end)
    [] source = "hot_cold" -> HotCold(scope.start, scope.end, archive.cutoff)
-----------------------------------------------------------------------------
\* Rows.

HistoryAdmissions(history) ==
  {f.at : f \in {e \in Of("lifecycle", history) : e.value = "NEW" /\ e.ref <= e.at}}
AdmissionAt(history) ==
  IF HistoryAdmissions(history) = {} THEN None ELSE Least(HistoryAdmissions(history))

CandidateTimes(history, mode, scope) ==
  LET admitted == AdmissionAt(history)
      points == CASE mode = "fixed_age" -> {admitted + offset : offset \in Offsets}
                  [] mode = "observation" ->
                       {f.at : f \in {e \in Of("observation", history) : e.at >= admitted}}
                  [] mode = "lifecycle" ->
                       {f.at : f \in {e \in Of("lifecycle", history) :
                                        e.value \in LabelledStates /\ e.at >= admitted}}
  IN IF admitted = None THEN {} ELSE points \cap scope.start .. scope.end - 1

\* The window of the admission decides; the decision must lie in it with room for its labels.
Within(window, time) == window.start <= time /\ time < window.end
\* Mutation of AssignmentTime: the decision chooses the window.
AssignmentByDecision(admitted, time) == time
AssignmentTime(admitted, time) == admitted
Assign(admitted, time) ==
  LET holding == {i \in DOMAIN Windows : Within(Windows[i], AssignmentTime(admitted, time))}
      i == Least(holding)
  IN IF Windows = <<>> THEN 0
     ELSE IF holding = {} THEN None
     ELSE IF Within(Windows[i], time) /\ time + PurgeHorizon <= Windows[i].label_end
          THEN i ELSE None

Row(history, mode, time) ==
  LET state == AsOf(history, time)
  IN [time |-> time, mode |-> mode, split |-> Assign(AdmissionAt(history), time),
      features |-> MarketFeatures(state), labels |-> Labels(history, state)]
Rows(history, mode, scope) ==
  {r \in {Row(history, mode, time) : time \in CandidateTimes(history, mode, scope)} :
     r.split # None}

\* _semantic_snapshot: the contracts are constants, the descriptor names the source.
Identity(history, mode, scope, source) ==
  [source |-> source, cutoff |-> IF source = "hot" THEN None ELSE archive.cutoff,
   mode |-> mode, scope |-> scope,
   hashed |-> {f \in history : f.family \in Hashed}]
-----------------------------------------------------------------------------
Init ==
  /\ now = 0 /\ closed = FALSE
  /\ open = {} /\ facts = {}
  /\ archive = None
  /\ builder = [b \in Builder |-> Idle]
  /\ published = {}
  /\ live = [time \in 0 .. MaxTime |-> None]
  /\ builds = 0

\* A message or an answer arrives or a decision is taken; its transaction is still open.
Receive(f) ==
  /\ ~closed /\ f.at = now /\ Cardinality(open) < MaxOpen
  /\ \A g \in open \cup facts : g.id # f.id
  /\ f.ref >= 0 /\ Cardinality(facts) < MaxFacts
  /\ open' = open \cup {f}
  /\ UNCHANGED <<now, closed, facts, archive, builder, published, live, builds>>

Commit(f) ==
  /\ open' = open \ {f}
  /\ facts' = facts \cup {f}
  /\ UNCHANGED <<now, closed, archive, builder, published, live, builds>>

Tick ==
  /\ now < MaxTime
  /\ now' = now + 1
  /\ live' = [live EXCEPT ![now] = MarketFeatures(AsOf(facts \cup open, now))]
  /\ UNCHANGED <<closed, open, facts, archive, builder, published, builds>>

CloseEpoch ==
  /\ ~closed
  /\ closed' = TRUE
  /\ UNCHANGED <<now, open, facts, archive, builder, published, live, builds>>

\* A verified archive holds every fact of its range: module Archive.
ExportBefore(cutoff) ==
  /\ closed /\ archive = None /\ cutoff <= now
  /\ Slice(open, 0, cutoff) = {}
  /\ archive' = [cutoff |-> cutoff, facts |-> Slice(facts, 0, cutoff)]
  /\ UNCHANGED <<recording, builder, published, builds>>

\* build_dataset up to its staging directory; a published identity is verified and reused.
Build(b, source, mode, scope) ==
  LET history == Load(source, scope)
      identity == Identity(history, mode, scope, source)
      existing == {d \in published : d.identity = identity}
  IN /\ builder[b].pc = "idle" /\ builds < MaxBuilds
     /\ source = "hot" \/ archive # None
     /\ ValidHistory(history)
     /\ builds' = builds + 1
     /\ builder' = IF existing # {} THEN builder
                   ELSE [builder EXCEPT ![b] =
                           [pc |-> "staged", identity |-> identity, history |-> history,
                            rows |-> Rows(history, mode, scope)]]
     /\ UNCHANGED <<recording, archive, published>>

Existing(b) == {d \in published : d.identity = builder[b].identity}

\* Another build was faster: the same content is reused, other content is an error; either
\* way this build ends.
MeetPublished(b) ==
  /\ builder[b].pc = "staged" /\ Existing(b) # {}
  /\ builder' = [builder EXCEPT ![b] = Idle]
  /\ UNCHANGED <<recording, archive, published, builds>>
FindNone(b) ==
  /\ builder[b].pc = "staged" /\ Existing(b) = {}
  /\ builder' = [builder EXCEPT ![b].pc = "promoting"]
  /\ UNCHANGED <<recording, archive, published, builds>>

\* os.replace moves the staging directory; it fails on a directory that is not empty.
\* Mutation of CanReplace: what is there is overwritten.
CanReplaceAlways(b) == TRUE
CanReplace(b) == Existing(b) = {}
Promote(b) ==
  /\ builder[b].pc = "promoting"
  /\ IF CanReplace(b)
     THEN LET dataset == [identity |-> builder[b].identity, rows |-> builder[b].rows,
                          history |-> builder[b].history]
          IN published' = (published \ Existing(b)) \cup {dataset}
     ELSE published' = published
  /\ builder' = [builder EXCEPT ![b] = Idle]
  /\ UNCHANGED <<recording, archive, builds>>

\* A killed build leaves a staging directory nobody reads.
Killed(b) ==
  /\ builder[b].pc # "idle"
  /\ builder' = [builder EXCEPT ![b] = Idle]
  /\ UNCHANGED <<recording, archive, published, builds>>

Next ==
  \/ \E f \in Fact : Receive(f)
  \/ \E f \in open : Commit(f)
  \/ Tick \/ CloseEpoch
  \/ \E cutoff \in 1 .. MaxTime : ExportBefore(cutoff)
  \/ \E b \in Builder :
       \/ \E source \in Source, mode \in Mode, scope \in Scope : Build(b, source, mode, scope)
       \/ MeetPublished(b) \/ FindNone(b) \/ Promote(b) \/ Killed(b)

Spec == Init /\ [][Next]_vars
-----------------------------------------------------------------------------
PublishedRows ==
  UNION {{[history |-> d.history, row |-> r] : r \in d.rows} : d \in published}
KnownAt(history, time) == {f \in history : f.at <= time}
NothingMissing(history, time) == KnownAt(facts \cup open, time) \subseteq history

\* No information from the future: whenever a row is computed, and whatever was received
\* after its decision, its features are those the collector would have computed at the
\* decision, provided the build read everything that had been received by then.
FeaturesAsKnown ==
  \A e \in PublishedRows :
    e.row.time < now /\ NothingMissing(e.history, e.row.time) =>
      e.row.features = live[e.row.time]

\* A later build that knows more never takes back a crossing that was seen, and does not
\* change any label of a horizon both builds have read to its limit.
LabelsSettle ==
  \A d, e \in PublishedRows :
    (/\ d.row.time = e.row.time /\ d.history \subseteq e.history
     /\ KnownAt(d.history, d.row.time) = KnownAt(e.history, e.row.time)) =>
      \A h \in Horizons :
        LET old == d.row.labels.horizon[h]
            new == e.row.labels.horizon[h]
            limit == d.row.time + h + LabelTolerance(h)
        IN /\ old.crossed_up = "TRUE" => new.crossed_up = "TRUE"
           /\ old.collapse = "TRUE" => new.collapse = "TRUE"
           /\ KnownAt(d.history, limit) = KnownAt(e.history, limit) => old = new

\* The rows of the token lie in one split, although admissions, decisions and labels of
\* different datasets were read at different times.
TokenInOneSplit ==
  \A d, e \in PublishedRows :
    AdmissionAt(d.history) = AdmissionAt(e.history) => d.row.split = e.row.split

\* Facts, builds and datasets have their types, and a token has one split.
DatasetsConsistent == TypeOK /\ TokenInOneSplit

\* A published dataset is never changed or replaced, whichever builds race for its name.
PublishedImmutable == [][published \subseteq published']_vars

\* Reading cold facts before the cutoff and hot ones after it is reading PostgreSQL, for
\* a scope from the beginning of the epoch and a token the archive knows.
SourcesAgree ==
  [][\A b \in Builder, mode \in Mode, scope \in Scope :
       Build(b, "hot_cold", mode, scope) /\ scope.start = 0
         /\ TokenIn(archive.facts) =>
           HotCold(0, scope.end, archive.cutoff) = Hot(0, scope.end)]_vars

\* What docs/research-label-contract-v1.md says of splits.
LabelsStayInSplit ==
  \A e \in PublishedRows : Windows # <<>> =>
    \A h \in Horizons : \A f \in e.row.labels.horizon[h].used :
      f.at <= Windows[e.row.split].label_end

\* What docs/research-dataset-manifest.md says of the identity of a dataset: a build that
\* reuses a directory would have computed the same rows.
IdentityNamesContent ==
  [][\A b \in Builder, source \in Source, mode \in Mode, scope \in Scope :
       Build(b, source, mode, scope) =>
         LET history == Load(source, scope)
         IN \A d \in published : d.identity = Identity(history, mode, scope, source) =>
              d.rows = Rows(history, mode, scope)]_vars
=============================================================================
