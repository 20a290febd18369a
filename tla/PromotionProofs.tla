--------------------------- MODULE PromotionProofs ---------------------------
(* The way of a token from its discovery to deep review.  Concurrent          *)
(* evaluations keep the budget of deep review, decide on the projection they  *)
(* replace and never wait for a security evaluation that waits for them; an   *)
(* admission happens once and as a whole.  All of it for every number of      *)
(* tokens, workers, processes, loops and transactions.                        *)
EXTENDS DexAvailability, CandidateEvaluation, FiniteSetTheorems, SequenceTheorems,
        WellFoundedInduction, TLAPS

(* The locks a transaction has and will take.                               *)

Holds(L, lock, modes) == \E h \in L : h.lock = lock /\ h.mode \in modes
Takes(step, lock, modes) == step.do = "take" /\ step.lock = lock /\ step.mode \in modes
TakenBefore(s, i, lock, modes) == \E j \in 1 .. i - 1 : Takes(s[j], lock, modes)

\* Modes of which two exclude each other.
Alone == {"exclusive", "no key update", "update"}

\* No two transactions hold a lock in modes that exclude each other.
LocksExclude ==
  \A v, w \in Worker : v # w =>
    \A g \in held[v], h \in held[w] : g.lock = h.lock => Compatible(g.mode, h.mode)

\* Scheduled and security evaluations pass the gate before they take any lock.
GateMode(w) == IF w \in PollWorker THEN "share" ELSE "exclusive"
HasGate(w, L) == [lock |-> Gate, mode |-> GateMode(w), level |-> 0] \in L
GateFirst(w, s, L) ==
  \/ HasGate(w, L)
  \/ /\ L = {}
     /\ s # <<>> => s[1] = Take(Gate, GateMode(w), 0)

\* Boost and security transactions take their locks in one order.
LockRank(lock, mode) ==
  CASE lock.on = "gate" -> 1
    [] lock.on = "token" -> IF mode = "no key update" THEN 5 ELSE 2
    [] lock.on = "wakeups" -> 3
    [] lock.on = "tier3" -> 7
    [] lock.on = "schedule" -> 9
    [] lock.on = "coverage" -> 10
StepRank(step) ==
  CASE step.do = "take" -> LockRank(step.lock, step.mode)
    [] step.do = "load" -> 4
    [] step.do = "judge" -> 6
    [] step.do = "promote" -> 8
    [] step.do = "write" -> 11
Ranked(s, L) ==
  /\ \A i, j \in 1 .. Len(s) : i < j => StepRank(s[i]) < StepRank(s[j])
  /\ \A h \in L : \A i \in 1 .. Len(s) : LockRank(h.lock, h.mode) < StepRank(s[i])
  /\ \A i \in 1 .. Len(s) : s[i].do \in {"judge", "promote", "write"} => i = Len(s)

\* They are about one token, and have taken the locks they begin with or will.
LocksOf(t) == {Gate, Wakeups, Tier3Budget, CoverageBudget, OnToken(t), OnSchedule(t)}
HasOrTakes(s, L, lock, mode) ==
  \/ Holds(L, lock, {mode, "update"})
  \/ \E i \in 1 .. Len(s) : Takes(s[i], lock, {mode})
About(w, t, s, L) ==
  /\ \A h \in L : h.lock \in LocksOf(t)
  /\ \A i \in 1 .. Len(s) :
       IF s[i].do = "take" THEN s[i].lock \in LocksOf(t) ELSE s[i].token = t
  /\ IF w \in BoostWorker
     THEN /\ HasOrTakes(s, L, OnToken(t), "key share") /\ HasOrTakes(s, L, Wakeups, "exclusive")
          /\ ~ Holds(L, Gate, Mode)
          /\ \A i \in 1 .. Len(s) : ~ Takes(s[i], Gate, Mode)
     ELSE HasOrTakes(s, L, OnToken(t), "update")
AboutOne(w, s, L) == \E t \in TokenId : About(w, t, s, L)

\* Savepoints: what a scheduled evaluation does outside of them is to take locks, the gate
\* first and those of the completion last.
Savepoints(w, s) ==
  IF w \in PollWorker
  THEN /\ \A i \in 1 .. Len(s) : s[i].level = 0 => s[i].do = "take"
       /\ \A i, j \in 1 .. Len(s) : i < j /\ s[i].level = 0 =>
            s[j].level = 0 \/ (i = 1 /\ s[i].lock = Gate)
       /\ \A i \in 1 .. Len(s) : Takes(s[i], Gate, Mode) => i = 1
  ELSE \A i \in 1 .. Len(s) : s[i].level = 0

-----------------------------------------------------------------------------
(* The evaluations a transaction will make.                                *)

\* A token is judged, promoted and written when its lock is held, and promoted when the
\* budget is.
StepsGuarded(s, L) ==
  \A i \in 1 .. Len(s) :
    /\ s[i].do \in {"judge", "promote", "write"} =>
         \/ Holds(L, OnToken(s[i].token), Alone)
         \/ TakenBefore(s, i, OnToken(s[i].token), Alone)
    /\ s[i].do = "promote" =>
         \/ Holds(L, Tier3Budget, Alone)
         \/ TakenBefore(s, i, Tier3Budget, Alone)

\* A token is evaluated once: nothing is left to do for one that was written.
EvaluatedOnce(s, written) ==
  /\ \A i \in 1 .. Len(s) : s[i].do # "take" => s[i].token \notin written
  /\ \A i, j \in 1 .. Len(s) :
       i < j /\ s[i].do # "take" /\ s[j].do # "take" /\ s[i].token = s[j].token =>
         s[i].do = "load" /\ s[j].do # "load"

\* One evaluation is under way at a time.
OneUnderWay(s) ==
  \A i, j \in 1 .. Len(s) : i < j =>
    /\ s[j].do \in {"promote", "write"} => s[i].do = "take"
    /\ s[i].do \in {"promote", "write"} => s[j].do \notin {"promote", "write"}

\* A transaction that locks a token before it loads it.
LoadsLocked(w, s, L) ==
  w \notin BoostWorker => \A i \in 1 .. Len(s) : s[i].do = "load" =>
    \/ Holds(L, OnToken(s[i].token), Alone)
    \/ TakenBefore(s, i, OnToken(s[i].token), Alone)

Plan(w, s, L, written) ==
  /\ StepsGuarded(s, L) /\ EvaluatedOnce(s, written) /\ OneUnderWay(s) /\ LoadsLocked(w, s, L)
  /\ Savepoints(w, s)
  /\ w \notin BoostWorker => GateFirst(w, s, L)
  /\ w \notin PollWorker => Ranked(s, L)

-----------------------------------------------------------------------------
(* What was loaded and written: T.loaded, T.saw and T.rows of a transaction T beside   *)
(* the current rows.                                                         *)

LoadedBefore(s, i) == \E j \in 1 .. i - 1 : s[j].do = "load" /\ s[j].token = s[i].token

\* The step knows its row, and one loaded under the lock is the current one.
StepKnown(w, s, i, L, loaded, saw, current) ==
  s[i].do \in {"judge", "promote", "write"} =>
    \/ LoadedBefore(s, i)
    \/ /\ s[i].token \in DOMAIN loaded /\ s[i].token \in DOMAIN saw
       /\ w \notin BoostWorker => /\ loaded[s[i].token] = current[s[i].token]
                                 /\ Holds(L, OnToken(s[i].token), Alone)

\* What was decided goes forward from what was loaded.
Forward(old, now, target) == old.watermark < now \/ (old.watermark = now /\ old.tier <= target)
StepForward(step, loaded, now) ==
  /\ step.do = "promote" => Forward(loaded[step.token], now, 3)
  /\ step.do = "write" => Forward(loaded[step.token], now, step.target)

WritesForward(w, rows, L, current) ==
  \A t \in DOMAIN rows :
    /\ Holds(L, OnToken(t), Alone)
    /\ w \notin BoostWorker => ~ Regresses(current[t], rows[t])

\* Deep review: what a transaction will add is counted, under the lock of the budget.
InReview(current) == {t \in TokenId : current[t].tier = 3}
ReviewSeen(rows, current) ==
  {t \in TokenId : (IF t \in DOMAIN rows THEN rows[t] ELSE current[t]).tier = 3}
Raises(step, loaded) == step.do = "write" /\ step.target = 3 /\ loaded[step.token].tier # 3
ReviewCounted(s, L, loaded, rows, current) ==
  /\ \A i \in 1 .. Len(s) : Raises(s[i], loaded) =>
       Holds(L, Tier3Budget, Alone) /\ Cardinality(ReviewSeen(rows, current)) < MaxTier3
  /\ IF Holds(L, Tier3Budget, Alone)
     THEN Cardinality(ReviewSeen(rows, current)) <= MaxTier3
     ELSE ReviewSeen(rows, current) \subseteq InReview(current)

\* What holds of a transaction of w with the locks L.
Sound(w, T, L, current) ==
  /\ Plan(w, T.todo, L, DOMAIN T.rows)
  /\ w \notin PollWorker /\ T.now # 0 => AboutOne(w, T.todo, L)
  /\ WritesForward(w, T.rows, L, current)
  /\ ReviewCounted(T.todo, L, T.loaded, T.rows, current)
  /\ \A i \in 1 .. Len(T.todo) :
       /\ StepKnown(w, T.todo, i, L, T.loaded, T.saw, current)
       /\ StepForward(T.todo[i], T.loaded, T.now)

-----------------------------------------------------------------------------
(* Types.                                                                  *)

LockKind ==
  {Gate, Wakeups, Tier3Budget, CoverageBudget} \cup {OnToken(t) : t \in TokenId}
    \cup {OnSchedule(t) : t \in TokenId}
Held == [lock : LockKind, mode : Mode, level : 0 .. 2]
AnyStep ==
  [do : {"take", "load", "judge", "promote", "write"}, token : 0 .. TokenCount, target : 0 .. 3,
   level : 0 .. 2, lock : LockKind, mode : Mode \cup {"none"}]
WellFormed(step) == IF step.do = "take" THEN step.mode \in Mode ELSE step.token \in TokenId
PartialRows == UNION {[S -> Row] : S \in SUBSET TokenId}
PartialTimes == UNION {[S -> Until] : S \in SUBSET TokenId}
Transaction ==
  [todo : Seq(AnyStep), now : 0 .. MaxClock, loaded : PartialRows, saw : PartialTimes,
   rows : PartialRows, overlays : PartialTimes, batch : SUBSET TokenId]

\* A worker without a transaction holds nothing.
Resting(w) == txn[w].now = 0 => txn[w] = NoTransaction /\ held[w] = {}

Types ==
  /\ clock \in 1 .. MaxClock /\ begun \in 0 .. MaxTransactions
  /\ row \in [TokenId -> Row] /\ overlay \in [TokenId -> Until]
  /\ held \in [Worker -> SUBSET Held] /\ txn \in [Worker -> Transaction]
  /\ \A w \in Worker :
       /\ \A i \in 1 .. Len(txn[w].todo) : WellFormed(txn[w].todo[i])
       /\ txn[w].now <= clock
       /\ Resting(w)

EvaluationInv ==
  /\ Types /\ LocksExclude /\ Cardinality(InReview(row)) <= MaxTier3
  /\ \A w \in Worker : Sound(w, txn[w], held[w], row)

-----------------------------------------------------------------------------
(* What is left of a list of steps.                                        *)

LEMMA LeastOf ==
  ASSUME NEW S \in SUBSET Nat, S # {}
  PROVE  Min(S) \in S /\ \A k \in S : Min(S) <= k
<1>1. PICK n \in S : \A k \in S : <<k, n>> \notin OpToRel(<, Nat)
  BY NatLessThanWellFounded, WFMin, Zenon
<1>2. \A k \in S : ~ (k < n)
  BY <1>1, Zenon DEF OpToRel
<1>3. \A k \in S : n <= k
  BY <1>2
<1>. QED
  BY <1>3 DEF Min

\* r is s without its first k steps.
Without(s, k, r) ==
  /\ k \in 0 .. Len(s) /\ Len(r) = Len(s) - k
  /\ \A i \in 1 .. Len(r) : r[i] = s[i + k]

LEMMA FromFirstIs ==
  ASSUME NEW s \in Seq(AnyStep), NEW left \in SUBSET DOMAIN s
  PROVE  /\ FromFirst(s, left) \in Seq(AnyStep)
         /\ \E k \in 0 .. Len(s) :
              /\ Without(s, k, FromFirst(s, left))
              /\ \A i \in 1 .. k : i \notin left
              /\ FromFirst(s, left) # <<>> => k + 1 \in left
<1>0. Len(s) \in Nat /\ DOMAIN s = 1 .. Len(s)
  OBVIOUS
<1>1. CASE left = {}
  <2>1. FromFirst(s, left) = <<>>
    BY <1>1 DEF FromFirst
  <2>2. <<>> \in Seq(AnyStep) /\ Len(<<>>) = 0
    OBVIOUS
  <2>3. Without(s, Len(s), <<>>)
    BY <1>0, <2>2 DEF Without
  <2>4. Len(s) \in 0 .. Len(s) /\ \A i \in 1 .. Len(s) : i \notin left
    BY <1>0, <1>1
  <2>. QED
    BY <2>1, <2>2, <2>3, <2>4, Zenon
<1>2. CASE left # {}
  <2>. DEFINE m == Min(left)
  <2>1. m \in left /\ \A k \in left : m <= k
    BY <1>0, <1>2, LeastOf
  <2>2. FromFirst(s, left) = SubSeq(s, m, Len(s))
    BY <1>2 DEF FromFirst
  <2>3. m \in 1 .. Len(s)
    BY <1>0, <2>1
  <2>. HIDE DEF m
  <2>4. /\ SubSeq(s, m, Len(s)) \in Seq(AnyStep)
        /\ Len(SubSeq(s, m, Len(s))) = Len(s) - (m - 1)
        /\ \A i \in 1 .. (Len(s) - (m - 1)) : SubSeq(s, m, Len(s))[i] = s[i + (m - 1)]
    BY <1>0, <2>3, SubSeqProperties
  <2>5. m - 1 \in 0 .. Len(s) /\ (m - 1) + 1 \in left
    BY <1>0, <2>1, <2>3
  <2>6. Without(s, m - 1, FromFirst(s, left))
    BY <2>2, <2>4, <2>5 DEF Without
  <2>7. \A i \in 1 .. m - 1 : i \notin left
    BY <2>1, <2>3
  <2>. QED
    BY <2>2, <2>4, <2>5, <2>6, <2>7
<1>. QED
  BY <1>1, <1>2

LEMMA RestIs ==
  ASSUME NEW s \in Seq(AnyStep), NEW L
  PROVE  /\ Rest(s, L) \in Seq(AnyStep)
         /\ \E k \in 0 .. Len(s) :
              /\ Without(s, k, Rest(s, L))
              /\ \A i \in 1 .. k : Granted(L, s[i])
<1>. DEFINE left == {i \in DOMAIN s : ~ Granted(L, s[i])}
<1>1. Rest(s, L) = FromFirst(s, left)
  BY DEF Rest
<1>2. left \in SUBSET DOMAIN s
  OBVIOUS
<1>3. PICK k \in 0 .. Len(s) : /\ Without(s, k, FromFirst(s, left))
                               /\ \A i \in 1 .. k : i \notin left
  BY <1>2, FromFirstIs
<1>4. \A i \in 1 .. k : Granted(L, s[i])
  BY <1>3 DEF Without
<1>5. Rest(s, L) \in Seq(AnyStep)
  BY <1>1, <1>2, FromFirstIs
<1>6. Without(s, k, Rest(s, L))
  BY <1>1, <1>3
<1>. QED
  BY <1>4, <1>5, <1>6

\* r is what is left of s: what is gone was done, or its lock is held.
Advanced(s, r, L, k) ==
  /\ Without(s, k, r)
  /\ \A i \in 1 .. k : (i = 1 /\ s[1].do # "take") \/ Granted(L, s[i])

LEMMA TailIs ==
  ASSUME NEW s \in Seq(AnyStep), s # <<>>
  PROVE  /\ Tail(s) \in Seq(AnyStep) /\ Len(s) \in Nat \ {0} /\ Len(Tail(s)) = Len(s) - 1
         /\ \A i \in 1 .. Len(s) - 1 : Tail(s)[i] = s[i + 1]
         /\ Head(s) = s[1] /\ s[1] \in AnyStep /\ Without(s, 1, Tail(s))
<1>1. Len(s) \in Nat \ {0} /\ Head(s) = s[1] /\ s[1] \in AnyStep
  BY EmptySeq, HeadTailProperties
<1>2. /\ Tail(s) \in Seq(AnyStep) /\ Len(Tail(s)) = Len(s) - 1
      /\ \A i \in 1 .. Len(s) - 1 : Tail(s)[i] = s[i + 1]
  BY <1>1, HeadTailProperties
<1>3. Without(s, 1, Tail(s))
  <2>1. 1 \in 0 .. Len(s) /\ Len(Tail(s)) = Len(s) - 1
    BY <1>1, <1>2
  <2>2. \A i \in 1 .. Len(Tail(s)) : Tail(s)[i] = s[i + 1]
    BY <1>2
  <2>. QED
    BY <2>1, <2>2 DEF Without
<1>. QED
  BY <1>1, <1>2, <1>3

\* The first step is done and the locks that follow it are held.
LEMMA HeadDone ==
  ASSUME NEW s \in Seq(AnyStep), s # <<>>, NEW L, s[1].do # "take" \/ Granted(L, s[1])
  PROVE  /\ Rest(Tail(s), L) \in Seq(AnyStep)
         /\ \E k \in 1 .. Len(s) : Advanced(s, Rest(Tail(s), L), L, k)
<1>1. PICK k \in 0 .. Len(Tail(s)) :
        Without(Tail(s), k, Rest(Tail(s), L)) /\ \A i \in 1 .. k : Granted(L, Tail(s)[i])
  BY TailIs, RestIs
<1>2. /\ Len(s) \in Nat \ {0} /\ Len(Tail(s)) = Len(s) - 1
      /\ \A i \in 1 .. Len(s) - 1 : Tail(s)[i] = s[i + 1]
  BY TailIs
<1>. DEFINE r == Rest(Tail(s), L)
<1>3. /\ Len(r) = Len(s) - (k + 1) /\ k + 1 \in 0 .. Len(s)
      /\ \A i \in 1 .. Len(r) : r[i] = s[i + (k + 1)]
  <2>1. /\ k \in 0 .. Len(s) - 1 /\ Len(r) = Len(s) - 1 - k
        /\ \A i \in 1 .. Len(r) : r[i] = Tail(s)[i + k]
    BY <1>1, <1>2 DEF Without
  <2>. HIDE DEF r
  <2>2. ASSUME NEW i \in 1 .. Len(r) PROVE r[i] = s[i + (k + 1)]
    <3>1. i + k \in 1 .. Len(s) - 1 /\ (i + k) + 1 = i + (k + 1)
      BY <1>2, <2>1
    <3>. QED
      BY <1>2, <2>1, <3>1
  <2>. QED
    BY <1>2, <2>1, <2>2
<1>4. \A i \in 1 .. (k + 1) : (i = 1 /\ s[1].do # "take") \/ Granted(L, s[i])
  <2>. TAKE i \in 1 .. (k + 1)
  <2>1. CASE i = 1
    BY <2>1
  <2>2. CASE i # 1
    <3>1. i - 1 \in 1 .. k /\ i - 1 \in 1 .. Len(s) - 1 /\ (i - 1) + 1 = i
      BY <1>1, <1>2, <2>2
    <3>. QED
      BY <1>1, <1>2, <3>1
  <2>. QED
    BY <2>1, <2>2
<1>5. r \in Seq(AnyStep)
  BY TailIs, RestIs
<1>6. Advanced(s, r, L, k + 1) /\ k + 1 \in 1 .. Len(s)
  BY <1>1, <1>3, <1>4 DEF Advanced, Without
<1>. QED
  BY <1>5, <1>6

\* Steps n are put in the place of the first one, and the locks they begin with are held.
LEMMA HeadReplaced ==
  ASSUME NEW s \in Seq(AnyStep), s # <<>>, NEW L, NEW n \in Seq(AnyStep)
  PROVE  LET u == n \o Tail(s)
         IN  /\ u \in Seq(AnyStep) /\ Len(u) = Len(n) + Len(s) - 1
             /\ \A i \in 1 .. Len(n) : u[i] = n[i]
             /\ \A i \in Len(n) + 1 .. Len(u) : u[i] = s[i - Len(n) + 1]
             /\ Rest(u, L) \in Seq(AnyStep) /\ \E k \in 0 .. Len(u) : Advanced(u, Rest(u, L), L, k)
<1>. DEFINE u == n \o Tail(s)
<1>0. /\ Tail(s) \in Seq(AnyStep) /\ Len(s) \in Nat \ {0} /\ Len(Tail(s)) = Len(s) - 1
      /\ \A i \in 1 .. Len(s) - 1 : Tail(s)[i] = s[i + 1]
  BY TailIs
<1>1. u \in Seq(AnyStep) /\ Len(u) = Len(n) + Len(Tail(s)) /\ Len(n) \in Nat
  BY <1>0, ConcatProperties
<1>2. \A i \in 1 .. Len(n) + Len(Tail(s)) :
        u[i] = IF i <= Len(n) THEN n[i] ELSE Tail(s)[i - Len(n)]
  BY <1>0, ConcatProperties
<1>3. \A i \in 1 .. Len(n) : u[i] = n[i]
  BY <1>0, <1>1, <1>2
<1>4. \A i \in Len(n) + 1 .. Len(u) : u[i] = s[i - Len(n) + 1]
  <2>. TAKE i \in Len(n) + 1 .. Len(u)
  <2>1. i - Len(n) \in 1 .. Len(s) - 1 /\ i \in 1 .. Len(n) + Len(Tail(s)) /\ ~ i <= Len(n)
    BY <1>0, <1>1
  <2>. QED
    BY <1>0, <1>2, <2>1
<1>5. Rest(u, L) \in Seq(AnyStep) /\ \E k \in 0 .. Len(u) : Advanced(u, Rest(u, L), L, k)
  BY <1>1, RestIs DEF Advanced
<1>6. Len(u) = Len(n) + Len(s) - 1
  BY <1>0, <1>1
<1>. QED
  BY <1>1, <1>3, <1>4, <1>5, <1>6

-----------------------------------------------------------------------------
(* A plan stays one when it is carried out.                                *)

LEMMA RanksAreNumbers ==
  /\ \A lock \in LockKind, mode \in Mode \cup {"none"} : LockRank(lock, mode) \in Nat
  /\ \A step \in AnyStep : StepRank(step) \in Nat
<1>1. \A lock \in LockKind, mode \in Mode \cup {"none"} : LockRank(lock, mode) \in Nat
  BY DEF LockKind, LockRank, Gate, Wakeups, Tier3Budget, CoverageBudget, OnToken, OnSchedule
<1>2. ASSUME NEW step \in AnyStep PROVE StepRank(step) \in Nat
  BY <1>1 DEF AnyStep, StepRank
<1>. QED
  BY <1>1, <1>2

LEMMA StepTyped ==
  ASSUME NEW s \in Seq(AnyStep), NEW i \in 1 .. Len(s)
  PROVE  /\ s[i] \in AnyStep /\ s[i].do \in {"take", "load", "judge", "promote", "write"}
         /\ s[i].token \in 0 .. TokenCount /\ s[i].target \in 0 .. 3 /\ s[i].level \in 0 .. 2
         /\ s[i].lock \in LockKind /\ s[i].mode \in Mode \cup {"none"}
<1>1. s[i] \in AnyStep
  BY ElementOfSeq
<1>. QED
  BY <1>1 DEF AnyStep

\* A lock that was to be taken before is held when the step comes.
LEMMA TakenWhenReached ==
  ASSUME NEW s \in Seq(AnyStep), NEW r \in Seq(AnyStep), NEW L, NEW k, Advanced(s, r, L, k),
         NEW i \in 1 .. Len(r), NEW lock, TakenBefore(s, i + k, lock, Alone)
  PROVE  Holds(L, lock, Alone) \/ TakenBefore(r, i, lock, Alone)
<1>0. k \in 0 .. Len(s) /\ Len(s) \in Nat /\ Len(r) = Len(s) - k
      /\ \A n \in 1 .. Len(r) : r[n] = s[n + k]
  BY DEF Advanced, Without
<1>1. PICK j \in 1 .. (i + k) - 1 : Takes(s[j], lock, Alone)
  BY Zenon DEF TakenBefore
<1>2. CASE j <= k
  <2>1. j \in 1 .. k
    BY <1>0, <1>2
  <2>2. Granted(L, s[j])
    BY <1>1, <2>1 DEF Advanced, Takes
  <2>3. PICK h \in L : h.lock = s[j].lock /\ h.mode \in {s[j].mode, "update"}
    BY <2>2 DEF Granted
  <2>4. h.lock = lock /\ h.mode \in Alone
    BY <1>1, <2>3 DEF Takes, Alone
  <2>. QED
    BY <2>4 DEF Holds
<1>3. CASE ~ (j <= k)
  <2>1. j - k \in 1 .. i - 1 /\ j - k \in 1 .. Len(r) /\ (j - k) + k = j
    BY <1>0, <1>1, <1>3
  <2>2. Takes(r[j - k], lock, Alone)
    BY <1>0, <1>1, <2>1
  <2>. QED
    BY <2>1, <2>2 DEF TakenBefore
<1>. QED
  BY <1>2, <1>3

LEMMA GuardedAdvances ==
  ASSUME NEW w \in Worker, NEW s \in Seq(AnyStep), NEW r \in Seq(AnyStep), NEW L, NEW k,
         Advanced(s, r, L, k)
  PROVE  /\ StepsGuarded(s, L) => StepsGuarded(r, L)
         /\ LoadsLocked(w, s, L) => LoadsLocked(w, r, L)
<1>0. /\ k \in 0 .. Len(s) /\ Len(s) \in Nat /\ Len(r) = Len(s) - k
      /\ \A n \in 1 .. Len(r) : r[n] = s[n + k] /\ n + k \in 1 .. Len(s)
  BY DEF Advanced, Without
<1>1. ASSUME StepsGuarded(s, L) PROVE StepsGuarded(r, L)
  <2>. SUFFICES ASSUME NEW i \in 1 .. Len(r)
                PROVE  /\ r[i].do \in {"judge", "promote", "write"} =>
                            \/ Holds(L, OnToken(r[i].token), Alone)
                            \/ TakenBefore(r, i, OnToken(r[i].token), Alone)
                       /\ r[i].do = "promote" =>
                            \/ Holds(L, Tier3Budget, Alone)
                            \/ TakenBefore(r, i, Tier3Budget, Alone)
    BY DEF StepsGuarded
  <2>1. r[i] = s[i + k] /\ i + k \in 1 .. Len(s)
    BY <1>0
  <2>2. /\ r[i].do \in {"judge", "promote", "write"} =>
             \/ Holds(L, OnToken(r[i].token), Alone)
             \/ TakenBefore(s, i + k, OnToken(r[i].token), Alone)
        /\ r[i].do = "promote" =>
             \/ Holds(L, Tier3Budget, Alone)
             \/ TakenBefore(s, i + k, Tier3Budget, Alone)
    BY <1>1, <2>1 DEF StepsGuarded
  <2>. QED
    BY <2>2, TakenWhenReached
<1>2. ASSUME LoadsLocked(w, s, L) PROVE LoadsLocked(w, r, L)
  <2>. SUFFICES ASSUME w \notin BoostWorker, NEW i \in 1 .. Len(r), r[i].do = "load"
                PROVE  \/ Holds(L, OnToken(r[i].token), Alone)
                       \/ TakenBefore(r, i, OnToken(r[i].token), Alone)
    BY DEF LoadsLocked
  <2>1. r[i] = s[i + k] /\ i + k \in 1 .. Len(s)
    BY <1>0
  <2>2. \/ Holds(L, OnToken(r[i].token), Alone)
        \/ TakenBefore(s, i + k, OnToken(r[i].token), Alone)
    BY <1>2, <2>1 DEF LoadsLocked
  <2>. QED
    BY <2>2, TakenWhenReached
<1>. QED
  BY <1>1, <1>2

LEMMA OrderAdvances ==
  ASSUME NEW w \in Worker, NEW s \in Seq(AnyStep), NEW r \in Seq(AnyStep), NEW L, NEW k, NEW W,
         Advanced(s, r, L, k)
  PROVE  /\ EvaluatedOnce(s, W) => EvaluatedOnce(r, W)
         /\ OneUnderWay(s) => OneUnderWay(r)
         /\ Savepoints(w, s) => Savepoints(w, r)
         /\ Ranked(s, L) => Ranked(r, L)
<1>0. /\ k \in 0 .. Len(s) /\ Len(s) \in Nat /\ Len(r) = Len(s) - k
      /\ \A n \in 1 .. Len(r) : r[n] = s[n + k] /\ n + k \in 1 .. Len(s)
  BY DEF Advanced, Without
<1>1. \A i, j \in 1 .. Len(r) : i < j => i + k < j + k
  BY <1>0
<1>2. ASSUME EvaluatedOnce(s, W) PROVE EvaluatedOnce(r, W)
  <2>1. \A i \in 1 .. Len(r) : r[i].do # "take" => r[i].token \notin W
    BY <1>0, <1>2 DEF EvaluatedOnce
  <2>2. ASSUME NEW i \in 1 .. Len(r), NEW j \in 1 .. Len(r), i < j, r[i].do # "take",
               r[j].do # "take", r[i].token = r[j].token
        PROVE  r[i].do = "load" /\ r[j].do # "load"
    BY <1>0, <1>1, <1>2, <2>2, SMTT(30) DEF EvaluatedOnce
  <2>. QED
    BY <2>1, <2>2 DEF EvaluatedOnce
<1>3. OneUnderWay(s) => OneUnderWay(r)
  BY <1>0, <1>1 DEF OneUnderWay
<1>4. ASSUME Savepoints(w, s) PROVE Savepoints(w, r)
  <2>1. \A i \in 1 .. Len(r) : i + k = 1 => i = 1
    BY <1>0
  <2>2. CASE w \in PollWorker
    <3>1. \A i \in 1 .. Len(r) : r[i].level = 0 => r[i].do = "take"
      BY <1>0, <1>4, <2>2 DEF Savepoints
    <3>2. ASSUME NEW i \in 1 .. Len(r), NEW j \in 1 .. Len(r), i < j, r[i].level = 0
          PROVE  r[j].level = 0 \/ (i = 1 /\ r[i].lock = Gate)
      BY <1>0, <1>1, <1>4, <2>1, <2>2, <3>2 DEF Savepoints
    <3>3. \A i \in 1 .. Len(r) : Takes(r[i], Gate, Mode) => i = 1
      BY <1>0, <1>4, <2>1, <2>2 DEF Savepoints
    <3>. QED
      BY <2>2, <3>1, <3>2, <3>3 DEF Savepoints
  <2>3. CASE w \notin PollWorker
    BY <1>0, <1>4, <2>3 DEF Savepoints
  <2>. QED
    BY <2>2, <2>3
<1>5. ASSUME Ranked(s, L) PROVE Ranked(r, L)
  <2>1. \A i \in 1 .. Len(r) : i + k = Len(s) => i = Len(r)
    BY <1>0
  <2>. QED
    BY <1>0, <1>1, <1>5, <2>1 DEF Ranked
<1>. QED
  BY <1>2, <1>3, <1>4, <1>5

LEMMA GateAdvances ==
  ASSUME NEW w \in Worker, NEW s \in Seq(AnyStep), NEW r \in Seq(AnyStep), NEW L, NEW k,
         Advanced(s, r, L, k), GateFirst(w, s, L)
  PROVE  GateFirst(w, r, L)
<1>1. CASE HasGate(w, L)
  BY <1>1 DEF GateFirst
<1>2. CASE L = {} /\ (s # <<>> => s[1] = Take(Gate, GateMode(w), 0))
  <2>0. /\ k \in 0 .. Len(s) /\ Len(s) \in Nat /\ Len(r) = Len(s) - k
        /\ \A n \in 1 .. Len(r) : r[n] = s[n + k] /\ n + k \in 1 .. Len(s)
    BY DEF Advanced, Without
  <2>1. ASSUME k > 0 PROVE FALSE
    <3>1. 1 \in 1 .. k /\ Len(s) # 0
      BY <2>0, <2>1
    <3>2. s # <<>>
      BY <3>1
    <3>3. ~ Granted(L, s[1])
      BY <1>2 DEF Granted
    <3>4. s[1].do # "take"
      BY <3>1, <3>3 DEF Advanced
    <3>. QED
      BY <1>2, <3>2, <3>4 DEF Take, Step
  <2>2. k = 0
    BY <2>0, <2>1
  <2>3. r # <<>> => r[1] = s[1] /\ s # <<>>
    <3>. SUFFICES ASSUME r # <<>> PROVE r[1] = s[1] /\ s # <<>>
      OBVIOUS
    <3>1. Len(r) \in Nat /\ Len(r) # 0
      BY EmptySeq
    <3>2. 1 \in 1 .. Len(r) /\ 1 + k = 1
      BY <2>2, <3>1
    <3>3. r[1] = s[1] /\ Len(s) # 0
      BY <2>0, <2>2, <3>1, <3>2
    <3>. QED
      BY <3>3
  <2>. QED
    BY <1>2, <2>3 DEF GateFirst
<1>. QED
  BY <1>1, <1>2 DEF GateFirst

LEMMA PlanAdvances ==
  ASSUME NEW w \in Worker, NEW s \in Seq(AnyStep), NEW r \in Seq(AnyStep), NEW L, NEW k, NEW W,
         Advanced(s, r, L, k), Plan(w, s, L, W)
  PROVE  Plan(w, r, L, W)
BY GuardedAdvances, OrderAdvances, GateAdvances DEF Plan

LEMMA AboutAdvances ==
  ASSUME NEW w \in Worker, NEW t, NEW s \in Seq(AnyStep), NEW r \in Seq(AnyStep), NEW L, NEW k,
         Advanced(s, r, L, k), About(w, t, s, L)
  PROVE  About(w, t, r, L)
<1>0. /\ k \in 0 .. Len(s) /\ Len(s) \in Nat /\ Len(r) = Len(s) - k
      /\ \A n \in 1 .. Len(r) : r[n] = s[n + k] /\ n + k \in 1 .. Len(s)
  BY DEF Advanced, Without
<1>1. ASSUME NEW lock, NEW mode, HasOrTakes(s, L, lock, mode)
      PROVE  HasOrTakes(r, L, lock, mode)
  <2>1. CASE Holds(L, lock, {mode, "update"})
    BY <2>1 DEF HasOrTakes
  <2>2. ASSUME NEW i \in 1 .. Len(s), Takes(s[i], lock, {mode}) PROVE HasOrTakes(r, L, lock, mode)
    <3>1. CASE i <= k
      <4>1. i \in 1 .. k
        BY <1>0, <3>1
      <4>2. Granted(L, s[i])
        BY <2>2, <4>1 DEF Advanced, Takes
      <4>. QED
        BY <2>2, <4>2 DEF Granted, Takes, HasOrTakes, Holds
    <3>2. CASE ~ (i <= k)
      <4>1. i - k \in 1 .. Len(r) /\ (i - k) + k = i
        BY <1>0, <3>2
      <4>2. Takes(r[i - k], lock, {mode})
        BY <1>0, <2>2, <4>1
      <4>. QED
        BY <4>1, <4>2 DEF HasOrTakes
    <3>. QED
      BY <3>1, <3>2
  <2>. QED
    BY <1>1, <2>1, <2>2 DEF HasOrTakes
<1>2. \A i \in 1 .. Len(r) :
        IF r[i].do = "take" THEN r[i].lock \in LocksOf(t) ELSE r[i].token = t
  BY <1>0 DEF About
<1>3. CASE w \in BoostWorker
  <2>1. \A i \in 1 .. Len(r) : ~ Takes(r[i], Gate, Mode)
    BY <1>0, <1>3 DEF About
  <2>. QED
    BY <1>1, <1>2, <1>3, <2>1 DEF About
<1>4. CASE w \notin BoostWorker
  BY <1>1, <1>2, <1>4 DEF About
<1>. QED
  BY <1>3, <1>4

-----------------------------------------------------------------------------
(* Locks taken, tokens written, steps added, savepoints lost.              *)

\* What a step asks for.
Wanted(step) == [lock |-> step.lock, mode |-> step.mode, level |-> step.level]

LEMMA PlanAcquires ==
  ASSUME NEW w \in Worker, NEW s \in Seq(AnyStep), NEW r \in Seq(AnyStep), NEW L \in SUBSET Held,
         NEW W, s # <<>>, s[1].do = "take", s[1].mode \in Mode, Plan(w, s, L, W),
         NEW k \in 1 .. Len(s), Advanced(s, r, L \cup {Wanted(s[1])}, k)
  PROVE  Plan(w, r, L \cup {Wanted(s[1])}, W)
<1>. DEFINE M == L \cup {Wanted(s[1])}
<1>0. /\ Len(s) \in Nat \ {0} /\ Len(r) = Len(s) - k /\ k \in 0 .. Len(s)
      /\ \A n \in 1 .. Len(r) : r[n] = s[n + k] /\ n + k \in 1 .. Len(s) /\ 1 < n + k
      /\ s[1] \in AnyStep /\ 1 \in 1 .. Len(s)
  <2>1. Len(s) \in Nat \ {0} /\ s[1] \in AnyStep
    BY TailIs
  <2>. QED
    BY <2>1 DEF Advanced, Without
<1>1. \A lock, modes : Holds(L, lock, modes) => Holds(M, lock, modes)
  BY DEF Holds
<1>2. StepsGuarded(s, M) /\ LoadsLocked(w, s, M)
  BY <1>1 DEF StepsGuarded, LoadsLocked, Plan
<1>3. StepsGuarded(r, M) /\ LoadsLocked(w, r, M)
  BY <1>2, GuardedAdvances
<1>4. EvaluatedOnce(r, W) /\ OneUnderWay(r) /\ Savepoints(w, r)
  BY OrderAdvances DEF Plan
<1>5. ASSUME w \notin BoostWorker PROVE GateFirst(w, r, M)
  <2>1. CASE HasGate(w, L)
    BY <2>1 DEF HasGate, GateFirst
  <2>2. CASE s[1] = Take(Gate, GateMode(w), 0)
    <3>1. Wanted(s[1]) = [lock |-> Gate, mode |-> GateMode(w), level |-> 0]
      BY <2>2 DEF Wanted, Take, Step
    <3>. QED
      BY <3>1 DEF HasGate, GateFirst
  <2>. QED
    BY <1>5, <2>1, <2>2 DEF Plan, GateFirst
<1>6. ASSUME w \notin PollWorker PROVE Ranked(r, M)
  <2>1. Ranked(s, L)
    BY <1>6 DEF Plan
  <2>2. StepRank(s[1]) = LockRank(s[1].lock, s[1].mode)
    BY DEF StepRank
  <2>3. \A i \in 1 .. Len(r) : StepRank(s[1]) < StepRank(r[i])
    BY <1>0, <2>1 DEF Ranked
  <2>4. \A h \in M : \A i \in 1 .. Len(r) : LockRank(h.lock, h.mode) < StepRank(r[i])
    BY <1>0, <2>1, <2>2, <2>3 DEF Ranked, Wanted
  <2>5. \A i, j \in 1 .. Len(r) : i < j => i + k < j + k
    BY <1>0
  <2>6. ASSUME NEW i \in 1 .. Len(r), i + k = Len(s) PROVE i = Len(r)
    <3>1. Len(s) \in Nat /\ Len(r) = Len(s) - k
      BY <1>0
    <3>. QED
      BY <2>6, <3>1
  <2>. QED
    BY <1>0, <2>1, <2>4, <2>5, <2>6 DEF Ranked
<1>. QED
  BY <1>3, <1>4, <1>5, <1>6 DEF Plan

LEMMA AboutAcquires ==
  ASSUME NEW w \in Worker, NEW t, NEW s \in Seq(AnyStep), NEW r \in Seq(AnyStep),
         NEW L \in SUBSET Held, s # <<>>, s[1].do = "take", s[1].mode \in Mode,
         About(w, t, s, L),
         NEW k \in 1 .. Len(s), Advanced(s, r, L \cup {Wanted(s[1])}, k)
  PROVE  About(w, t, r, L \cup {Wanted(s[1])})
<1>. DEFINE M == L \cup {Wanted(s[1])}
<1>0. 1 \in 1 .. Len(s)
  BY TailIs
<1>1. \A h \in M : h.lock \in LocksOf(t)
  <2>1. s[1].lock \in LocksOf(t) /\ \A h \in L : h.lock \in LocksOf(t)
    BY <1>0, Zenon DEF About
  <2>. QED
    BY <2>1 DEF Wanted
<1>2. \A lock, mode : HasOrTakes(s, L, lock, mode) => HasOrTakes(s, M, lock, mode)
  BY DEF HasOrTakes, Holds
<1>3. ASSUME w \in BoostWorker PROVE ~ Holds(M, Gate, Mode)
  <2>1. ~ Holds(L, Gate, Mode) /\ s[1].lock # Gate
    BY <1>0, <1>3 DEF About, Takes
  <2>. QED
    BY <2>1 DEF Holds, Wanted
<1>4. About(w, t, s, M)
  BY <1>1, <1>2, <1>3 DEF About
<1>. QED
  BY <1>4, AboutAdvances

LEMMA PlanWrites ==
  ASSUME NEW w \in Worker, NEW s \in Seq(AnyStep), NEW r \in Seq(AnyStep), NEW L, NEW W,
         s # <<>>, s[1].do = "write", Plan(w, s, L, W),
         NEW k \in 1 .. Len(s), Advanced(s, r, L, k)
  PROVE  Plan(w, r, L, W \cup {s[1].token})
<1>0. /\ Len(s) \in Nat \ {0} /\ Len(r) = Len(s) - k
      /\ \A n \in 1 .. Len(r) : r[n] = s[n + k] /\ n + k \in 1 .. Len(s) /\ 1 < n + k
      /\ 1 \in 1 .. Len(s)
  <2>1. Len(s) \in Nat \ {0}
    BY TailIs
  <2>. QED
    BY <2>1 DEF Advanced, Without
<1>1. Plan(w, r, L, W)
  BY PlanAdvances
<1>2. EvaluatedOnce(s, W) /\ EvaluatedOnce(r, W)
  BY <1>1 DEF Plan
<1>3. \A i \in 1 .. Len(r) : r[i].do # "take" => r[i].token # s[1].token
  BY <1>0, <1>2, SMTT(30) DEF EvaluatedOnce
<1>4. EvaluatedOnce(r, W \cup {s[1].token})
  BY <1>2, <1>3 DEF EvaluatedOnce
<1>. QED
  BY <1>1, <1>4 DEF Plan

\* Nothing is left to do.
LEMMA PlanEnds ==
  ASSUME NEW w \in Worker, NEW s \in Seq(AnyStep), NEW L, NEW W, s # <<>>, s[1].do # "take",
         Plan(w, s, L, W)
  PROVE  Plan(w, <<>>, L, W)
<1>1. Len(<<>>) = 0
  OBVIOUS
<1>2. w \notin BoostWorker => GateFirst(w, <<>>, L)
  BY DEF Plan, GateFirst
<1>3. StepsGuarded(<<>>, L) /\ EvaluatedOnce(<<>>, W) /\ OneUnderWay(<<>>)
  BY <1>1 DEF StepsGuarded, EvaluatedOnce, OneUnderWay
<1>4. LoadsLocked(w, <<>>, L) /\ Savepoints(w, <<>>) /\ Ranked(<<>>, L)
  BY <1>1 DEF LoadsLocked, Savepoints, Ranked
<1>. QED
  BY <1>2, <1>3, <1>4 DEF Plan

\* Steps that follow a decision on t: locks, in order, then at most one thing to do.
Follows(n, t, level, rank) ==
  /\ \A i \in 1 .. Len(n) :
       /\ n[i].level = level /\ rank < StepRank(n[i])
       /\ IF n[i].do = "take"
          THEN /\ n[i].lock \in {Tier3Budget, CoverageBudget, OnSchedule(t)} /\ n[i].mode \in Mode
          ELSE /\ n[i].do \in {"promote", "write"} /\ n[i].token = t /\ i = Len(n)
       /\ n[i].do = "promote" => TakenBefore(n, i, Tier3Budget, Alone)
  /\ \A i, j \in 1 .. Len(n) : i < j => StepRank(n[i]) < StepRank(n[j])

\* u is s with the steps n in the place of the first one.
Replaced(s, n, u) ==
  /\ Len(u) = Len(n) + Len(s) - 1
  /\ \A i \in 1 .. Len(n) : u[i] = n[i]
  /\ \A i \in Len(n) + 1 .. Len(u) : u[i] = s[i - Len(n) + 1]

LEMMA ReplacedGuarded ==
  ASSUME NEW w \in Worker, NEW s \in Seq(AnyStep), NEW n \in Seq(AnyStep), NEW u \in Seq(AnyStep),
         NEW L, NEW W, s # <<>>, s[1].do \in {"judge", "promote"}, Plan(w, s, L, W),
         NEW rank, Follows(n, s[1].token, s[1].level, rank), Replaced(s, n, u)
  PROVE  StepsGuarded(u, L) /\ LoadsLocked(w, u, L)
<1>0. /\ Len(s) \in Nat \ {0} /\ Len(n) \in Nat /\ Len(u) = Len(n) + Len(s) - 1
      /\ \A i \in 1 .. Len(n) : u[i] = n[i] /\ i \in 1 .. Len(u)
      /\ \A i \in Len(n) + 1 .. Len(u) :
           u[i] = s[i - Len(n) + 1] /\ i - Len(n) + 1 \in 2 .. Len(s)
      /\ 1 \in 1 .. Len(s) /\ 2 .. Len(s) \subseteq 1 .. Len(s)
  <2>1. Len(s) \in Nat \ {0} /\ Len(n) \in Nat
    BY TailIs
  <2>. QED
    BY <2>1 DEF Replaced
<1>. DEFINE t == s[1].token
<1>1. Holds(L, OnToken(t), Alone)
  BY <1>0 DEF Plan, StepsGuarded, TakenBefore
<1>2. ASSUME NEW i \in Len(n) + 1 .. Len(u), NEW lock,
             TakenBefore(s, i - Len(n) + 1, lock, Alone)
      PROVE  TakenBefore(u, i, lock, Alone)
  <2>1. PICK j \in 1 .. (i - Len(n) + 1) - 1 : Takes(s[j], lock, Alone)
    BY <1>2, Zenon DEF TakenBefore
  <2>2. j # 1
    BY <2>1 DEF Takes
  <2>3. j + Len(n) - 1 \in Len(n) + 1 .. Len(u) /\ j + Len(n) - 1 \in 1 .. i - 1
        /\ (j + Len(n) - 1) - Len(n) + 1 = j
    BY <1>0, <2>1, <2>2
  <2>4. u[j + Len(n) - 1] = s[j]
    BY <1>0, <2>3
  <2>. QED
    BY <2>1, <2>3, <2>4 DEF TakenBefore
<1>3. ASSUME NEW i \in 1 .. Len(n), NEW lock, TakenBefore(n, i, lock, Alone)
      PROVE  TakenBefore(u, i, lock, Alone)
  <2>1. PICK j \in 1 .. i - 1 : Takes(n[j], lock, Alone)
    BY <1>3, Zenon DEF TakenBefore
  <2>2. u[j] = n[j]
    BY <1>0, <2>1
  <2>. QED
    BY <2>1, <2>2 DEF TakenBefore
<1>4. ASSUME NEW i \in 1 .. Len(u)
      PROVE  /\ u[i].do \in {"judge", "promote", "write"} =>
                  \/ Holds(L, OnToken(u[i].token), Alone)
                  \/ TakenBefore(u, i, OnToken(u[i].token), Alone)
             /\ u[i].do = "promote" =>
                  \/ Holds(L, Tier3Budget, Alone)
                  \/ TakenBefore(u, i, Tier3Budget, Alone)
             /\ w \notin BoostWorker /\ u[i].do = "load" =>
                  \/ Holds(L, OnToken(u[i].token), Alone)
                  \/ TakenBefore(u, i, OnToken(u[i].token), Alone)
  <2>1. CASE i \in 1 .. Len(n)
    <3>1. u[i] = n[i] /\ u[i].do # "load"
      BY <1>0, <2>1 DEF Follows
    <3>2. u[i].do \in {"judge", "promote", "write"} => u[i].token = t
      BY <2>1, <3>1 DEF Follows
    <3>3. u[i].do = "promote" => TakenBefore(u, i, Tier3Budget, Alone)
      BY <1>3, <2>1, <3>1 DEF Follows
    <3>. QED
      BY <1>1, <3>1, <3>2, <3>3
  <2>2. CASE i \in Len(n) + 1 .. Len(u)
    <3>. DEFINE m == i - Len(n) + 1
    <3>1. u[i] = s[m] /\ m \in 1 .. Len(s)
      BY <1>0, <2>2
    <3>2. /\ s[m].do \in {"judge", "promote", "write"} =>
               \/ Holds(L, OnToken(s[m].token), Alone)
               \/ TakenBefore(s, m, OnToken(s[m].token), Alone)
          /\ s[m].do = "promote" =>
               \/ Holds(L, Tier3Budget, Alone)
               \/ TakenBefore(s, m, Tier3Budget, Alone)
          /\ w \notin BoostWorker /\ s[m].do = "load" =>
               \/ Holds(L, OnToken(s[m].token), Alone)
               \/ TakenBefore(s, m, OnToken(s[m].token), Alone)
      BY <3>1, Zenon DEF Plan, StepsGuarded, LoadsLocked
    <3>. QED
      BY <1>2, <2>2, <3>1, <3>2
  <2>. QED
    BY <1>0, <2>1, <2>2
<1>. QED
  BY <1>4 DEF StepsGuarded, LoadsLocked

LEMMA ReplacedOrdered ==
  ASSUME NEW w \in Worker, NEW s \in Seq(AnyStep), NEW n \in Seq(AnyStep), NEW u \in Seq(AnyStep),
         NEW L, NEW W, s # <<>>, s[1].do \in {"judge", "promote"}, Plan(w, s, L, W),
         NEW rank, Follows(n, s[1].token, s[1].level, rank), Replaced(s, n, u)
  PROVE  EvaluatedOnce(u, W) /\ OneUnderWay(u) /\ Savepoints(w, u)
<1>0. /\ Len(s) \in Nat \ {0} /\ Len(n) \in Nat /\ Len(u) = Len(n) + Len(s) - 1
      /\ \A i \in 1 .. Len(n) : u[i] = n[i] /\ i \in 1 .. Len(u)
      /\ \A i \in Len(n) + 1 .. Len(u) :
           u[i] = s[i - Len(n) + 1] /\ i - Len(n) + 1 \in 2 .. Len(s)
      /\ 1 \in 1 .. Len(s) /\ 2 .. Len(s) \subseteq 1 .. Len(s)
  <2>1. Len(s) \in Nat \ {0} /\ Len(n) \in Nat
    BY TailIs
  <2>. QED
    BY <2>1 DEF Replaced
<1>. DEFINE t == s[1].token
<1>1. \A m \in 2 .. Len(s) : s[m].do # "take" => s[m].token # t
  BY <1>0 DEF Plan, EvaluatedOnce
<1>2. \A m \in 2 .. Len(s) : s[m].do \notin {"promote", "write"}
  BY <1>0 DEF Plan, OneUnderWay
<1>3. \A i \in 1 .. Len(n) : /\ u[i].do \in {"take", "promote", "write"}
                             /\ u[i].do # "take" => u[i].token = t /\ i = Len(n)
                             /\ u[i].level = s[1].level
  <2>. TAKE i \in 1 .. Len(n)
  <2>1. /\ n[i].level = s[1].level
        /\ IF n[i].do = "take" THEN TRUE
           ELSE n[i].do \in {"promote", "write"} /\ n[i].token = t /\ i = Len(n)
    BY Zenon DEF Follows
  <2>2. u[i] = n[i]
    BY <1>0
  <2>. QED
    BY <2>1, <2>2
<1>4. \A i, j \in Len(n) + 1 .. Len(u) : i < j => i - Len(n) + 1 < j - Len(n) + 1
  BY <1>0
<1>5. \A i \in 1 .. Len(u) : i \in 1 .. Len(n) \/ i \in Len(n) + 1 .. Len(u)
  BY <1>0
<1>6. EvaluatedOnce(u, W)
  <2>1. ASSUME NEW i \in 1 .. Len(u), u[i].do # "take" PROVE u[i].token \notin W
    <3>1. CASE i \in 1 .. Len(n)
      <4>1. u[i].token = t
        BY <1>3, <2>1, <3>1
      <4>2. t \notin W
        BY <1>0 DEF Plan, EvaluatedOnce
      <4>. QED
        BY <4>1, <4>2
    <3>2. CASE i \in Len(n) + 1 .. Len(u)
      <4>1. u[i] = s[i - Len(n) + 1] /\ i - Len(n) + 1 \in 1 .. Len(s)
        BY <1>0, <3>2
      <4>. QED
        BY <2>1, <4>1 DEF Plan, EvaluatedOnce
    <3>. QED
      BY <1>5, <3>1, <3>2
  <2>2. ASSUME NEW i \in 1 .. Len(u), NEW j \in 1 .. Len(u), i < j, u[i].do # "take",
               u[j].do # "take", u[i].token = u[j].token
        PROVE  u[i].do = "load" /\ u[j].do # "load"
    <3>1. CASE i \in 1 .. Len(n)
      <4>1. i = Len(n) /\ j \in Len(n) + 1 .. Len(u)
        BY <1>0, <1>3, <1>5, <2>2, <3>1
      <4>. QED
        BY <1>0, <1>1, <1>3, <2>2, <3>1, <4>1
    <3>2. CASE i \in Len(n) + 1 .. Len(u)
      <4>1. j \in Len(n) + 1 .. Len(u)
        BY <1>0, <2>2, <3>2
      <4>2. /\ i - Len(n) + 1 < j - Len(n) + 1 /\ i - Len(n) + 1 \in 1 .. Len(s)
            /\ j - Len(n) + 1 \in 1 .. Len(s)
            /\ u[i] = s[i - Len(n) + 1] /\ u[j] = s[j - Len(n) + 1]
        BY <1>0, <1>4, <2>2, <3>2, <4>1
      <4>. QED
        BY <2>2, <4>2, SMTT(30) DEF Plan, EvaluatedOnce
    <3>. QED
      BY <1>5, <3>1, <3>2
  <2>. QED
    BY <2>1, <2>2 DEF EvaluatedOnce
<1>7. OneUnderWay(u)
  <2>1. \A j \in Len(n) + 1 .. Len(u) : u[j].do \notin {"promote", "write"}
    BY <1>0, <1>2
  <2>2. ASSUME NEW i \in 1 .. Len(u), NEW j \in 1 .. Len(u), i < j
        PROVE  /\ u[j].do \in {"promote", "write"} => u[i].do = "take"
               /\ u[i].do \in {"promote", "write"} => u[j].do \notin {"promote", "write"}
    <3>1. CASE j \in 1 .. Len(n)
      BY <1>0, <1>3, <2>2, <3>1
    <3>2. CASE j \in Len(n) + 1 .. Len(u)
      BY <2>1, <3>2
    <3>. QED
      BY <1>5, <3>1, <3>2
  <2>. QED
    BY <2>2 DEF OneUnderWay
<1>8. Savepoints(w, u)
  <2>0. Gate \notin {Tier3Budget, CoverageBudget, OnSchedule(t)}
    BY DEF Gate, Tier3Budget, CoverageBudget, OnSchedule
  <2>1. CASE w \in PollWorker
    <3>1. s[1].level # 0
      BY <1>0, <2>1 DEF Plan, Savepoints
    <3>2. \A i \in 1 .. Len(u) : u[i].level = 0 => i \in Len(n) + 1 .. Len(u)
      BY <1>3, <1>5, <3>1
    <3>3. ASSUME NEW i \in 1 .. Len(u), u[i].level = 0 PROVE u[i].do = "take"
      <4>1. u[i] = s[i - Len(n) + 1] /\ i - Len(n) + 1 \in 1 .. Len(s)
        BY <1>0, <3>2, <3>3
      <4>. QED
        BY <2>1, <3>3, <4>1 DEF Plan, Savepoints
    <3>4. ASSUME NEW i \in 1 .. Len(u), NEW j \in 1 .. Len(u), i < j, u[i].level = 0
          PROVE  u[j].level = 0
      <4>1. i \in Len(n) + 1 .. Len(u) /\ j \in Len(n) + 1 .. Len(u)
        BY <1>0, <3>2, <3>4
      <4>2. /\ i - Len(n) + 1 < j - Len(n) + 1 /\ i - Len(n) + 1 \in 1 .. Len(s)
            /\ j - Len(n) + 1 \in 1 .. Len(s) /\ i - Len(n) + 1 # 1
            /\ u[i] = s[i - Len(n) + 1] /\ u[j] = s[j - Len(n) + 1]
        BY <1>0, <1>4, <3>4, <4>1, SMTT(30)
      <4>. QED
        BY <2>1, <3>4, <4>2 DEF Plan, Savepoints
    <3>5. ASSUME NEW i \in 1 .. Len(u), Takes(u[i], Gate, Mode) PROVE FALSE
      <4>1. CASE i \in 1 .. Len(n)
        BY <1>0, <2>0, <3>5, <4>1 DEF Follows, Takes
      <4>2. CASE i \in Len(n) + 1 .. Len(u)
        BY <1>0, <2>1, <3>5, <4>2 DEF Plan, Savepoints
      <4>. QED
        BY <1>5, <4>1, <4>2
    <3>. QED
      BY <2>1, <3>3, <3>4, <3>5 DEF Savepoints
  <2>2. CASE w \notin PollWorker
    <3>1. \A i \in 1 .. Len(u) : u[i].level = 0
      BY <1>0, <1>3, <1>5, <2>2, SMTT(30) DEF Plan, Savepoints
    <3>. QED
      BY <2>2, <3>1 DEF Savepoints
  <2>. QED
    BY <2>1, <2>2
<1>. QED
  BY <1>6, <1>7, <1>8

LEMMA PlanReplaced ==
  ASSUME NEW w \in Worker, NEW s \in Seq(AnyStep), NEW n \in Seq(AnyStep), NEW u \in Seq(AnyStep),
         NEW L \in SUBSET Held, NEW W, s # <<>>, s[1].do \in {"judge", "promote"}, Plan(w, s, L, W),
         Follows(n, s[1].token, s[1].level, StepRank(s[1])), Replaced(s, n, u)
  PROVE  Plan(w, u, L, W)
<1>0. Len(s) \in Nat \ {0} /\ Len(n) \in Nat /\ 1 \in 1 .. Len(s) /\ s[1] \in AnyStep
  BY TailIs
<1>1. StepsGuarded(u, L) /\ LoadsLocked(w, u, L)
  BY ReplacedGuarded
<1>2. EvaluatedOnce(u, W) /\ OneUnderWay(u) /\ Savepoints(w, u)
  BY ReplacedOrdered
<1>3. w \notin BoostWorker => GateFirst(w, u, L)
  BY DEF Plan, GateFirst, Take, Step
<1>4. ASSUME w \notin PollWorker PROVE Ranked(u, L)
  <2>1. Ranked(s, L)
    BY <1>4 DEF Plan
  <2>2. Len(s) = 1
    BY <1>0, <2>1 DEF Ranked
  <2>3. Len(u) = Len(n) /\ \A i \in 1 .. Len(n) : u[i] = n[i]
    BY <1>0, <2>2 DEF Replaced
  <2>4. \A h \in L : LockRank(h.lock, h.mode) < StepRank(s[1])
    BY <1>0, <2>1 DEF Ranked
  <2>5. \A h \in L : LockRank(h.lock, h.mode) \in Nat
    BY RanksAreNumbers DEF Held
  <2>6. StepRank(s[1]) \in Nat /\ \A i \in 1 .. Len(n) : StepRank(n[i]) \in Nat
    BY <1>0, RanksAreNumbers, StepTyped
  <2>7. \A h \in L : \A i \in 1 .. Len(n) : LockRank(h.lock, h.mode) < StepRank(n[i])
    BY <2>4, <2>5, <2>6 DEF Follows
  <2>8. \A i \in 1 .. Len(n) : n[i].do \in {"judge", "promote", "write"} => i = Len(n)
    BY DEF Follows
  <2>9. \A i, j \in 1 .. Len(n) : i < j => StepRank(n[i]) < StepRank(n[j])
    BY DEF Follows
  <2>. QED
    BY <2>3, <2>7, <2>8, <2>9 DEF Ranked
<1>. QED
  BY <1>1, <1>2, <1>3, <1>4 DEF Plan

LEMMA AboutReplaced ==
  ASSUME NEW w \in Worker, NEW t, NEW s \in Seq(AnyStep), NEW n \in Seq(AnyStep),
         NEW u \in Seq(AnyStep), NEW L, s # <<>>, s[1].do \in {"judge", "promote"},
         About(w, t, s, L), NEW rank, Follows(n, s[1].token, s[1].level, rank), Replaced(s, n, u)
  PROVE  About(w, t, u, L)
<1>0. /\ Len(s) \in Nat \ {0} /\ Len(n) \in Nat /\ Len(u) = Len(n) + Len(s) - 1
      /\ \A i \in 1 .. Len(n) : u[i] = n[i] /\ i \in 1 .. Len(u)
      /\ \A i \in Len(n) + 1 .. Len(u) :
           u[i] = s[i - Len(n) + 1] /\ i - Len(n) + 1 \in 1 .. Len(s)
      /\ 1 \in 1 .. Len(s)
  <2>1. Len(s) \in Nat \ {0} /\ Len(n) \in Nat
    BY TailIs
  <2>. QED
    BY <2>1 DEF Replaced
<1>1. s[1].token = t
  BY <1>0 DEF About
<1>2. \A i \in 1 .. Len(u) : i \in 1 .. Len(n) \/ i \in Len(n) + 1 .. Len(u)
  BY <1>0
<1>3. {Tier3Budget, CoverageBudget, OnSchedule(t)} \subseteq LocksOf(t) \ {Gate}
  BY DEF LocksOf, Gate, Tier3Budget, CoverageBudget, OnSchedule
<1>4. ASSUME NEW i \in 1 .. Len(u)
      PROVE  /\ IF u[i].do = "take" THEN u[i].lock \in LocksOf(t) ELSE u[i].token = t
             /\ w \in BoostWorker => ~ Takes(u[i], Gate, Mode)
  <2>1. CASE i \in 1 .. Len(n)
    BY <1>0, <1>1, <1>3, <2>1 DEF Follows, Takes
  <2>2. CASE i \in Len(n) + 1 .. Len(u)
    BY <1>0, <2>2, ZenonT(60) DEF About
  <2>. QED
    BY <1>2, <2>1, <2>2
<1>5. ASSUME NEW lock, NEW mode, HasOrTakes(s, L, lock, mode) PROVE HasOrTakes(u, L, lock, mode)
  <2>1. CASE Holds(L, lock, {mode, "update"})
    BY <2>1 DEF HasOrTakes
  <2>2. ASSUME NEW i \in 1 .. Len(s), Takes(s[i], lock, {mode}) PROVE HasOrTakes(u, L, lock, mode)
    <3>1. i # 1
      BY <2>2 DEF Takes
    <3>2. i + Len(n) - 1 \in Len(n) + 1 .. Len(u) /\ i + Len(n) - 1 \in 1 .. Len(u)
          /\ (i + Len(n) - 1) - Len(n) + 1 = i
      BY <1>0, <3>1
    <3>3. u[i + Len(n) - 1] = s[i]
      BY <1>0, <3>2
    <3>. QED
      BY <2>2, <3>2, <3>3 DEF HasOrTakes
  <2>. QED
    BY <1>5, <2>1, <2>2 DEF HasOrTakes
<1>6. CASE w \in BoostWorker
  BY <1>4, <1>5, <1>6 DEF About
<1>7. CASE w \notin BoostWorker
  BY <1>4, <1>5, <1>7 DEF About
<1>. QED
  BY <1>6, <1>7

LEMMA PlanLost ==
  ASSUME NEW w \in Worker, NEW s \in Seq(AnyStep), NEW L \in SUBSET Held, NEW W, s # <<>>,
         s[1].level # 0, Plan(w, s, L, W)
  PROVE  LET M == {h \in L : h.level < s[1].level}
             r == Rest(Outside(s), M)
         IN  /\ r \in Seq(AnyStep) /\ Plan(w, r, M, {}) /\ w \in PollWorker
             /\ \A i \in 1 .. Len(r) : r[i].do = "take" /\ \E j \in 1 .. Len(s) : r[i] = s[j]
<1>. DEFINE M == {h \in L : h.level < s[1].level}
            o == Outside(s)
            r == Rest(o, M)
            left == {i \in DOMAIN s : s[i].level = 0}
<1>0. Len(s) \in Nat \ {0} /\ s[1] \in AnyStep /\ 1 \in 1 .. Len(s) /\ DOMAIN s = 1 .. Len(s)
      /\ s[1].level \in 1 .. 2
  <2>1. Len(s) \in Nat \ {0} /\ s[1] \in AnyStep
    BY TailIs
  <2>2. s[1].level \in 0 .. 2
    BY <2>1 DEF AnyStep
  <2>. QED
    BY <2>1, <2>2
<1>1. w \in PollWorker
  BY <1>0 DEF Plan, Savepoints
<1>2. o = FromFirst(s, left) /\ left \in SUBSET DOMAIN s
  BY DEF Outside
<1>. HIDE DEF o, left
<1>3. PICK k \in 0 .. Len(s) : Without(s, k, o) /\ (o # <<>> => k + 1 \in left)
  BY <1>2, FromFirstIs
<1>4. o \in Seq(AnyStep)
  BY <1>2, FromFirstIs
<1>5. /\ Len(o) = Len(s) - k /\ Len(o) \in Nat
      /\ \A i \in 1 .. Len(o) : o[i] = s[i + k] /\ i + k \in 1 .. Len(s)
  BY <1>0, <1>3 DEF Without
<1>6. ASSUME NEW i \in 1 .. Len(o) PROVE o[i].level = 0 /\ i + k # 1
  <2>1. o # <<>>
    BY <1>5
  <2>2. k + 1 \in 1 .. Len(s) /\ s[k + 1].level = 0 /\ k + 1 # 1
    BY <1>0, <1>2, <1>3, <2>1 DEF left
  <2>3. CASE i = 1
    BY <1>5, <2>2, <2>3
  <2>4. CASE i # 1
    <3>1. k + 1 < i + k /\ o[i] = s[i + k] /\ i + k \in 1 .. Len(s)
      BY <1>3, <1>5, <2>4
    <3>2. s[i + k].level = 0
      BY <1>1, <2>2, <3>1 DEF Plan, Savepoints
    <3>. QED
      BY <1>3, <2>2, <3>1, <3>2
  <2>. QED
    BY <2>3, <2>4
<1>7. r \in Seq(AnyStep) /\ \E n \in 0 .. Len(o) : Without(o, n, r)
  BY <1>4, RestIs
<1>8. PICK n \in 0 .. Len(o) : Without(o, n, r)
  BY <1>7
<1>. HIDE DEF r
<1>9. /\ Len(r) \in Nat
      /\ \A i \in 1 .. Len(r) : r[i] = o[i + n] /\ i + n \in 1 .. Len(o)
  BY <1>5, <1>8 DEF Without
<1>10. ASSUME NEW i \in 1 .. Len(r)
       PROVE  /\ r[i].do = "take" /\ r[i].level = 0 /\ \E j \in 1 .. Len(s) : r[i] = s[j]
              /\ ~ Takes(r[i], Gate, Mode)
  <2>. DEFINE j == (i + n) + k
  <2>1. r[i] = s[j] /\ j \in 1 .. Len(s) /\ s[j].level = 0 /\ j # 1
    BY <1>5, <1>6, <1>9
  <2>. HIDE DEF j
  <2>2. s[j].do = "take" /\ ~ Takes(s[j], Gate, Mode)
    BY <1>1, <2>1 DEF Plan, Savepoints
  <2>. QED
    BY <2>1, <2>2
<1>11. StepsGuarded(r, M) /\ EvaluatedOnce(r, {}) /\ OneUnderWay(r) /\ LoadsLocked(w, r, M)
  BY <1>10 DEF StepsGuarded, EvaluatedOnce, OneUnderWay, LoadsLocked
<1>12. Savepoints(w, r)
  BY <1>1, <1>10 DEF Savepoints
<1>13. GateFirst(w, r, M)
  <2>1. w \notin BoostWorker
    BY <1>1, EvaluationAssumption
  <2>2. HasGate(w, L)
    BY <1>0, <2>1 DEF Plan, GateFirst, Take, Step
  <2>. QED
    BY <1>0, <2>2 DEF GateFirst, HasGate
<1>. QED
  BY <1>1, <1>7, <1>10, <1>11, <1>12, <1>13 DEF Plan, r, o

LEMMA LocksAreTyped ==
  /\ {Gate, Wakeups, Tier3Budget, CoverageBudget} \subseteq LockKind
  /\ \A t \in TokenId : OnToken(t) \in LockKind /\ OnSchedule(t) \in LockKind
  /\ TokenId \subseteq 1 .. TokenCount
BY DEF LockKind, TokenId

LEMMA ModesAre ==
  /\ "share" \in Mode /\ "exclusive" \in Mode /\ "key share" \in Mode
  /\ "no key update" \in Mode /\ "update" \in Mode
BY DEF Mode

LEMMA StepFields ==
  /\ \A do, t, level :
       Step(do, t, level) = [do |-> do, token |-> t, target |-> 0, level |-> level,
                             lock |-> Gate, mode |-> "none"]
  /\ \A lock, mode, level :
       Take(lock, mode, level) = [do |-> "take", token |-> 0, target |-> 0, level |-> level,
                                  lock |-> lock, mode |-> mode]
  /\ \A t, target, level :
       Write(t, target, level) = [do |-> "write", token |-> t, target |-> target,
                                  level |-> level, lock |-> Gate, mode |-> "none"]
BY DEF Step, Take, Write

LEMMA StepsAreTyped ==
  /\ \A lock \in LockKind, mode \in Mode, level \in 0 .. 2 :
       Take(lock, mode, level) \in AnyStep /\ WellFormed(Take(lock, mode, level))
  /\ \A t \in TokenId, level \in 0 .. 2 : \A do \in {"load", "judge", "promote"} :
       Step(do, t, level) \in AnyStep /\ WellFormed(Step(do, t, level))
  /\ \A t \in TokenId, target \in 0 .. 3, level \in 0 .. 2 :
       Write(t, target, level) \in AnyStep /\ WellFormed(Write(t, target, level))
<1>0. Gate \in LockKind /\ \A t \in TokenId : t \in 0 .. TokenCount
  BY EvaluationAssumption DEF LockKind, TokenId
<1>0a. 0 \in 0 .. TokenCount
  BY EvaluationAssumption
<1>1. \A lock \in LockKind, mode \in Mode, level \in 0 .. 2 :
        Take(lock, mode, level) \in AnyStep /\ WellFormed(Take(lock, mode, level))
  BY <1>0a, StepFields DEF AnyStep, WellFormed
<1>2. \A t \in TokenId, level \in 0 .. 2 : \A do \in {"load", "judge", "promote"} :
        Step(do, t, level) \in AnyStep /\ WellFormed(Step(do, t, level))
  BY <1>0, StepFields DEF AnyStep, WellFormed
<1>3. \A t \in TokenId, target \in 0 .. 3, level \in 0 .. 2 :
        Write(t, target, level) \in AnyStep /\ WellFormed(Write(t, target, level))
  BY <1>0, StepFields DEF AnyStep, WellFormed
<1>. QED
  BY <1>1, <1>2, <1>3

LEMMA TwoSteps ==
  ASSUME NEW a \in AnyStep, NEW b \in AnyStep, NEW n, n = <<a>> \o <<b>>
  PROVE  n \in Seq(AnyStep) /\ Len(n) = 2 /\ n[1] = a /\ n[2] = b
OBVIOUS

LEMMA TwoStepsAroundNone ==
  ASSUME NEW a \in AnyStep, NEW c \in AnyStep, NEW n, n = <<a>> \o <<>> \o <<c>>
  PROVE  n \in Seq(AnyStep) /\ Len(n) = 2 /\ n[1] = a /\ n[2] = c
OBVIOUS

\* What follows a promotion that is decided.
LEMMA PromotionFollows ==
  ASSUME NEW t \in TokenId, NEW level \in 0 .. 2
  PROVE  LET n == PromotionLocks(level) \o <<Step("promote", t, level)>>
         IN  /\ n \in Seq(AnyStep) /\ Follows(n, t, level, 6)
             /\ \A i \in 1 .. Len(n) : WellFormed(n[i]) /\ n[i].do # "write"
<1>. DEFINE a == Take(Tier3Budget, "exclusive", level)
            b == Step("promote", t, level)
            n == PromotionLocks(level) \o <<b>>
<1>0. n = <<a>> \o <<b>>
  BY DEF PromotionLocks
<1>0a. Tier3Budget \in LockKind /\ "exclusive" \in Mode
  BY LocksAreTyped, ModesAre
<1>1. a \in AnyStep /\ b \in AnyStep /\ WellFormed(a) /\ WellFormed(b)
  BY <1>0a, StepsAreTyped
<1>2. n \in Seq(AnyStep) /\ Len(n) = 2 /\ n[1] = a /\ n[2] = b
  <2>. HIDE DEF a, b, n
  <2>. QED
    BY <1>0, <1>1, TwoSteps
<1>3. /\ a.do = "take" /\ a.level = level /\ a.lock = Tier3Budget /\ a.mode = "exclusive"
      /\ StepRank(a) = 7 /\ b.do = "promote" /\ b.level = level /\ b.token = t /\ StepRank(b) = 8
  BY StepFields DEF StepRank, LockRank, Tier3Budget
<1>. HIDE DEF n
<1>. HIDE DEF a, b
<1>4. \A i \in 1 .. Len(n) : i = 1 \/ i = 2
  BY <1>2
<1>5. TakenBefore(n, 2, Tier3Budget, Alone)
  <2>1. Takes(n[1], Tier3Budget, Alone)
    BY <1>2, <1>3 DEF Takes, Alone
  <2>2. 1 \in 1 .. 2 - 1
    OBVIOUS
  <2>. QED
    BY <2>1, <2>2, Zenon DEF TakenBefore
<1>6. \A i \in 1 .. Len(n) :
        /\ n[i].level = level /\ 6 < StepRank(n[i])
        /\ IF n[i].do = "take"
           THEN /\ n[i].lock \in {Tier3Budget, CoverageBudget, OnSchedule(t)} /\ n[i].mode \in Mode
           ELSE /\ n[i].do \in {"promote", "write"} /\ n[i].token = t /\ i = Len(n)
        /\ n[i].do = "promote" => TakenBefore(n, i, Tier3Budget, Alone)
  <2>. TAKE i \in 1 .. Len(n)
  <2>1. CASE i = 1
    <3>1. n[i] = a /\ a.do = "take" /\ a.lock = Tier3Budget /\ a.mode \in Mode /\ a.level = level
          /\ 6 < StepRank(a) /\ a.do # "promote"
      BY <1>0a, <1>2, <1>3, <2>1
    <3>. QED
      BY <3>1
  <2>2. CASE i = 2
    <3>1. n[i] = b /\ b.do = "promote" /\ b.do # "take" /\ b.level = level /\ b.token = t
          /\ 6 < StepRank(b) /\ i = Len(n) /\ TakenBefore(n, i, Tier3Budget, Alone)
      BY <1>2, <1>3, <1>5, <2>2
    <3>. QED
      BY <3>1
  <2>. QED
    BY <1>4, <2>1, <2>2
<1>7. \A i, j \in 1 .. Len(n) : i < j => StepRank(n[i]) < StepRank(n[j])
  BY <1>2, <1>3, <1>4
<1>8. Follows(n, t, level, 6)
  BY <1>6, <1>7 DEF Follows
<1>9. \A i \in 1 .. Len(n) : WellFormed(n[i]) /\ n[i].do # "write"
  BY <1>1, <1>2, <1>3, <1>4
<1>. QED
  BY <1>2, <1>8, <1>9 DEF n, b

\* What follows when the target is known.
Level == 0 .. 2
Tier == 0 .. 3
LEMMA ChangeFollows ==
  ASSUME NEW w, NEW t \in TokenId, NEW level \in Level, NEW target \in Tier,
         txn[w].loaded[t] \in Row, NEW n, n = Change(w, t, target, level),
         NEW kept, kept = Kept(txn[w].loaded[t], txn[w].now, target)
  PROVE  /\ n \in Seq(AnyStep) /\ Follows(n, t, level, 6) /\ Follows(n, t, level, 8)
         /\ \A i \in 1 .. Len(n) :
              /\ WellFormed(n[i])
              /\ n[i].do \in {"take", "write"}
              /\ n[i].do = "write" => n[i].target = kept
<1>. DEFINE a == Take(OnSchedule(t), "update", level)
            b == Take(CoverageBudget, "exclusive", level)
            c == Write(t, kept, level)
<1>0. n \in {<<>>, <<a>> \o <<>> \o <<c>>, <<a>> \o <<b>> \o <<c>>}
  <2>1. CASE kept = txn[w].loaded[t].tier /\ ~ Refreshed(txn[w].loaded[t], txn[w].now, target)
    BY <2>1 DEF Change
  <2>2. CASE ~ (kept = txn[w].loaded[t].tier
                  /\ ~ Refreshed(txn[w].loaded[t], txn[w].now, target))
    BY <2>2 DEF Change
  <2>. QED
    BY <2>1, <2>2
<1>1. kept \in 0 .. 3 /\ level \in 0 .. 2
  BY DEF Kept, Row, Level, Tier
<1>2. /\ a \in AnyStep /\ b \in AnyStep /\ c \in AnyStep
      /\ WellFormed(a) /\ WellFormed(b) /\ WellFormed(c)
  <2>1. /\ OnSchedule(t) \in LockKind /\ CoverageBudget \in LockKind
        /\ "exclusive" \in Mode /\ "update" \in Mode
    BY LocksAreTyped, ModesAre
  <2>. QED
    BY <1>1, <2>1, StepsAreTyped
<1>3. /\ a.do = "take" /\ a.level = level /\ a.lock = OnSchedule(t) /\ a.mode = "update"
      /\ StepRank(a) = 9 /\ b.do = "take" /\ b.level = level /\ b.lock = CoverageBudget
      /\ b.mode = "exclusive" /\ StepRank(b) = 10 /\ c.do = "write" /\ c.level = level
      /\ c.token = t /\ c.target = kept /\ StepRank(c) = 11
  BY StepFields DEF StepRank, LockRank, OnSchedule, CoverageBudget
<1>. HIDE DEF a, b, c
<1>4. /\ n \in Seq(AnyStep)
      /\ \/ n = <<>> /\ Len(n) = 0
         \/ Len(n) = 2 /\ n[1] = a /\ n[2] = c
         \/ Len(n) = 3 /\ n[1] = a /\ n[2] = b /\ n[3] = c
  <2>1. CASE n = <<>>
    BY <2>1
  <2>2. CASE n = <<a>> \o <<>> \o <<c>>
    <3>1. n \in Seq(AnyStep) /\ Len(n) = 2 /\ n[1] = a /\ n[2] = c
      BY <1>2, <2>2, TwoStepsAroundNone
    <3>. QED
      BY <3>1
  <2>3. CASE n = <<a>> \o <<b>> \o <<c>>
    <3>. DEFINE m == <<a>> \o <<b>> \o <<c>>
    <3>1. a \in AnyStep /\ b \in AnyStep /\ c \in AnyStep
      BY <1>2
    <3>2. m \in Seq(AnyStep) /\ Len(m) = 3 /\ m[1] = a /\ m[2] = b /\ m[3] = c
      BY <3>1
    <3>3. n = m
      BY <2>3
    <3>. HIDE DEF m
    <3>. QED
      BY <3>2, <3>3
  <2>. QED
    BY <1>0, <2>1, <2>2, <2>3
<1>5. ASSUME NEW i \in 1 .. Len(n)
      PROVE  n[i] \in {a, b, c} /\ (n[i] = c => i = Len(n))
  <2>1. CASE Len(n) = 2 /\ n[1] = a /\ n[2] = c
    <3>1. i = 1 \/ i = 2
      BY <2>1
    <3>. QED
      BY <1>3, <2>1, <3>1
  <2>2. CASE Len(n) = 3 /\ n[1] = a /\ n[2] = b /\ n[3] = c
    <3>1. i = 1 \/ i = 2 \/ i = 3
      BY <2>2
    <3>. QED
      BY <1>3, <2>2, <3>1
  <2>. QED
    BY <1>4, <2>1, <2>2
<1>6. ASSUME NEW i \in 1 .. Len(n), NEW j \in 1 .. Len(n), i < j
      PROVE  StepRank(n[i]) < StepRank(n[j])
  <2>1. CASE Len(n) = 2 /\ n[1] = a /\ n[2] = c
    <3>1. i = 1 /\ j = 2
      BY <1>6, <2>1
    <3>. QED
      BY <1>3, <2>1, <3>1
  <2>2. CASE Len(n) = 3 /\ n[1] = a /\ n[2] = b /\ n[3] = c
    <3>1. (i = 1 /\ j = 2) \/ (i = 1 /\ j = 3) \/ (i = 2 /\ j = 3)
      BY <1>6, <2>2
    <3>. QED
      BY <1>3, <2>2, <3>1
  <2>. QED
    BY <1>4, <2>1, <2>2
<1>7. \A i \in 1 .. Len(n) :
        /\ n[i].level = level /\ 6 < StepRank(n[i]) /\ 8 < StepRank(n[i])
        /\ IF n[i].do = "take"
           THEN /\ n[i].lock \in {Tier3Budget, CoverageBudget, OnSchedule(t)} /\ n[i].mode \in Mode
           ELSE /\ n[i].do \in {"promote", "write"} /\ n[i].token = t /\ i = Len(n)
        /\ n[i].do = "promote" => TakenBefore(n, i, Tier3Budget, Alone)
  <2>. TAKE i \in 1 .. Len(n)
  <2>1. CASE n[i] = a
    <3>1. a.do = "take" /\ a.lock = OnSchedule(t) /\ a.level = level /\ a.do # "promote"
      BY <1>3
    <3>2. 6 < StepRank(a) /\ 8 < StepRank(a)
      BY <1>3
    <3>3. a.mode \in Mode
      BY <1>3, ModesAre
    <3>. QED
      BY <2>1, <3>1, <3>2, <3>3
  <2>2. CASE n[i] = b
    <3>1. b.do = "take" /\ b.lock = CoverageBudget /\ b.level = level /\ b.do # "promote"
      BY <1>3
    <3>2. 6 < StepRank(b) /\ 8 < StepRank(b)
      BY <1>3
    <3>3. b.mode \in Mode
      BY <1>3, ModesAre
    <3>. QED
      BY <2>2, <3>1, <3>2, <3>3
  <2>3. CASE n[i] = c
    BY <1>3, <1>5, <2>3
  <2>. QED
    BY <1>5, <2>1, <2>2, <2>3
<1>8. Follows(n, t, level, 6) /\ Follows(n, t, level, 8)
  BY <1>6, <1>7 DEF Follows
<1>9. \A i \in 1 .. Len(n) : /\ WellFormed(n[i]) /\ n[i].do \in {"take", "write"}
                             /\ n[i].do = "write" => n[i].target = kept
  BY <1>2, <1>3, <1>5
<1>. QED
  BY <1>4, <1>8, <1>9

LEMMA TodoChanges ==
  ASSUME txn \in [Worker -> Transaction], NEW w \in Worker, NEW R \in Seq(AnyStep), NEW U,
         U = [txn EXCEPT ![w].todo = R]
  PROVE  /\ U \in [Worker -> Transaction] /\ \A v \in Worker \ {w} : U[v] = txn[v]
         /\ U[w].todo = R /\ U[w].now = txn[w].now /\ U[w].loaded = txn[w].loaded
         /\ U[w].saw = txn[w].saw /\ U[w].rows = txn[w].rows /\ U[w].overlays = txn[w].overlays
         /\ U[w].batch = txn[w].batch
BY DEF Transaction

LEMMA LoadChanges ==
  ASSUME txn \in [Worker -> Transaction], NEW w \in Worker, NEW R \in Seq(AnyStep),
         NEW F \in PartialRows, NEW G \in PartialTimes, NEW U,
         U = [txn EXCEPT ![w].todo = R, ![w].loaded = F, ![w].saw = G]
  PROVE  /\ U \in [Worker -> Transaction] /\ \A v \in Worker \ {w} : U[v] = txn[v]
         /\ U[w].todo = R /\ U[w].now = txn[w].now /\ U[w].loaded = F
         /\ U[w].saw = G /\ U[w].rows = txn[w].rows /\ U[w].overlays = txn[w].overlays
         /\ U[w].batch = txn[w].batch
BY DEF Transaction

LEMMA WriteChanges ==
  ASSUME txn \in [Worker -> Transaction], NEW w \in Worker, NEW R \in Seq(AnyStep),
         NEW F \in PartialRows, NEW G \in PartialTimes, NEW U,
         U = [txn EXCEPT ![w].todo = R, ![w].rows = F, ![w].overlays = G]
  PROVE  /\ U \in [Worker -> Transaction] /\ \A v \in Worker \ {w} : U[v] = txn[v]
         /\ U[w].todo = R /\ U[w].now = txn[w].now /\ U[w].loaded = txn[w].loaded
         /\ U[w].saw = txn[w].saw /\ U[w].rows = F /\ U[w].overlays = G
         /\ U[w].batch = txn[w].batch
BY DEF Transaction
LEMMA WithRow ==
  ASSUME NEW f \in PartialRows, NEW t \in TokenId, NEW x \in Row
  PROVE  /\ With(f, t, x) \in PartialRows
         /\ DOMAIN With(f, t, x) = DOMAIN f \cup {t} /\ With(f, t, x)[t] = x
         /\ \A u \in DOMAIN f : u # t => With(f, t, x)[u] = f[u]
<1>1. PICK S \in SUBSET TokenId : f \in [S -> Row]
  BY DEF PartialRows
<1>2. With(f, t, x) = [u \in S \cup {t} |-> IF u = t THEN x ELSE f[u]]
  BY <1>1 DEF With
<1>3. With(f, t, x) \in [S \cup {t} -> Row] /\ S \cup {t} \in SUBSET TokenId
  BY <1>1, <1>2
<1>4. With(f, t, x) \in PartialRows
  BY <1>3 DEF PartialRows
<1>. QED
  BY <1>1, <1>2, <1>4

LEMMA WithTime ==
  ASSUME NEW f \in PartialTimes, NEW t \in TokenId, NEW x \in Until
  PROVE  /\ With(f, t, x) \in PartialTimes
         /\ DOMAIN With(f, t, x) = DOMAIN f \cup {t} /\ With(f, t, x)[t] = x
         /\ \A u \in DOMAIN f : u # t => With(f, t, x)[u] = f[u]
<1>1. PICK S \in SUBSET TokenId : f \in [S -> Until]
  BY DEF PartialTimes
<1>2. With(f, t, x) = [u \in S \cup {t} |-> IF u = t THEN x ELSE f[u]]
  BY <1>1 DEF With
<1>3. With(f, t, x) \in [S \cup {t} -> Until] /\ S \cup {t} \in SUBSET TokenId
  BY <1>1, <1>2
<1>4. With(f, t, x) \in PartialTimes
  BY <1>3 DEF PartialTimes
<1>. QED
  BY <1>1, <1>2, <1>4

-----------------------------------------------------------------------------
(* What the actions do.                                                    *)

Others(w) == \A v \in Worker \ {w} : txn'[v] = txn[v] /\ held'[v] = held[v]
SameData(w) ==
  /\ txn'[w].now = txn[w].now /\ txn'[w].loaded = txn[w].loaded /\ txn'[w].saw = txn[w].saw
  /\ txn'[w].rows = txn[w].rows /\ txn'[w].overlays = txn[w].overlays
Typed == txn' \in [Worker -> Transaction] /\ held' \in [Worker -> SUBSET Held]
SameBase == UNCHANGED <<clock, row, overlay, begun>>

LEMMA HeadTyped ==
  ASSUME Types, NEW w \in Worker, txn[w].todo # <<>>
  PROVE  /\ txn[w].todo \in Seq(AnyStep) /\ Head(txn[w].todo) = txn[w].todo[1]
         /\ txn[w].todo[1] \in AnyStep /\ 1 \in 1 .. Len(txn[w].todo)
         /\ Len(txn[w].todo) \in Nat \ {0} /\ WellFormed(txn[w].todo[1])
         /\ Tail(txn[w].todo) \in Seq(AnyStep)
<1>. DEFINE s == txn[w].todo
<1>1. s \in Seq(AnyStep)
  BY DEF Types, Transaction
<1>2. \A i \in 1 .. Len(s) : WellFormed(s[i])
  BY DEF Types
<1>. HIDE DEF s
<1>3. s # <<>>
  BY DEF s
<1>4. Head(s) = s[1] /\ s[1] \in AnyStep /\ Len(s) \in Nat \ {0} /\ Tail(s) \in Seq(AnyStep)
  BY <1>1, <1>3, TailIs
<1>5. 1 \in 1 .. Len(s)
  BY <1>4
<1>. QED
  BY <1>1, <1>2, <1>4, <1>5 DEF s

LEMMA ProceedEffect ==
  ASSUME Types, NEW w \in Worker, txn[w].todo # <<>>, NEW n \in Seq(AnyStep), Proceed(w, n),
         \A v \in Worker \ {w} : held'[v] = held[v]
  PROVE  /\ txn' \in [Worker -> Transaction] /\ Others(w) /\ SameData(w)
         /\ txn'[w].todo = Rest(n \o Tail(txn[w].todo), held'[w])
<1>. DEFINE R == Rest(n \o Tail(txn[w].todo), held'[w])
<1>1. Tail(txn[w].todo) \in Seq(AnyStep)
  BY HeadTyped
<1>2. n \o Tail(txn[w].todo) \in Seq(AnyStep)
  BY <1>1, ConcatProperties
<1>3. R \in Seq(AnyStep)
  BY <1>2, RestIs
<1>4. txn' = [txn EXCEPT ![w].todo = R] /\ txn \in [Worker -> Transaction]
  BY DEF Proceed, Types
<1>. HIDE DEF R
<1>5. /\ txn' \in [Worker -> Transaction] /\ \A v \in Worker \ {w} : txn'[v] = txn[v]
      /\ txn'[w].todo = R /\ txn'[w].now = txn[w].now /\ txn'[w].loaded = txn[w].loaded
      /\ txn'[w].saw = txn[w].saw /\ txn'[w].rows = txn[w].rows
      /\ txn'[w].overlays = txn[w].overlays
  BY <1>3, <1>4, TodoChanges, SMTT(30)
<1>. QED
  BY <1>5 DEF R, Others, SameData

LEMMA AcquireEffect ==
  ASSUME Types, NEW w \in Worker, Acquire(w)
  PROVE  LET s == txn[w].todo
             M == held[w] \cup {Wanted(s[1])}
         IN  /\ s # <<>> /\ s[1].do = "take" /\ s[1].mode \in Mode
             /\ Blockers(w, s[1].lock, s[1].mode) = {}
             /\ Typed /\ Others(w) /\ SameData(w) /\ SameBase
             /\ held'[w] = M /\ txn'[w].todo = Rest(Tail(s), M)
<1>. DEFINE s == txn[w].todo
            M == held[w] \cup {Wanted(s[1])}
<1>1. s # <<>> /\ Head(s).do = "take" /\ Proceed(w, <<>>) /\ SameBase
      /\ Blockers(w, Head(s).lock, Head(s).mode) = {}
      /\ held' = [held EXCEPT ![w] = held[w] \cup
                   {[lock |-> Head(s).lock, mode |-> Head(s).mode, level |-> Head(s).level]}]
  BY DEF Acquire, Do, SameBase
<1>2. /\ Head(s) = s[1] /\ s[1] \in AnyStep /\ WellFormed(s[1]) /\ Tail(s) \in Seq(AnyStep)
  BY <1>1, HeadTyped
<1>3. s[1].mode \in Mode
  BY <1>1, <1>2 DEF WellFormed
<1>4. Wanted(s[1]) \in Held
  BY <1>2, <1>3 DEF Wanted, AnyStep, Held
<1>5. held' = [held EXCEPT ![w] = M] /\ held \in [Worker -> SUBSET Held]
  BY <1>1, <1>2 DEF Wanted, Types
<1>6. M \in SUBSET Held
  BY <1>4 DEF Types
<1>. HIDE DEF M
<1>7. held' \in [Worker -> SUBSET Held] /\ held'[w] = M
      /\ \A v \in Worker \ {w} : held'[v] = held[v]
  BY <1>5, <1>6
<1>8. <<>> \in Seq(AnyStep) /\ <<>> \o Tail(s) = Tail(s)
  BY <1>2, ConcatEmptySeq
<1>9. /\ txn' \in [Worker -> Transaction] /\ Others(w) /\ SameData(w)
      /\ txn'[w].todo = Rest(Tail(s), M)
  BY <1>1, <1>7, <1>8, ProceedEffect
<1>. QED
  BY <1>1, <1>2, <1>3, <1>7, <1>9 DEF M, Typed

LEMMA SeenTyped ==
  ASSUME Types, NEW w \in Worker, NEW t \in TokenId
  PROVE  RowSeen(w, t) \in Row /\ OverlaySeen(w, t) \in Until
<1>1. txn[w].rows \in PartialRows /\ txn[w].overlays \in PartialTimes
  BY DEF Types, Transaction
<1>2. row[t] \in Row /\ overlay[t] \in Until
  BY DEF Types
<1>3. t \in DOMAIN txn[w].rows => txn[w].rows[t] \in Row
  BY <1>1 DEF PartialRows
<1>4. t \in DOMAIN txn[w].overlays => txn[w].overlays[t] \in Until
  BY <1>1 DEF PartialTimes
<1>. QED
  BY <1>2, <1>3, <1>4 DEF RowSeen, OverlaySeen

\* A boost or a security transaction that has nothing to evaluate.
Ends(w) ==
  /\ w \notin PollWorker /\ Typed /\ Others(w) /\ SameData(w) /\ SameBase
  /\ txn'[w].todo = <<>> /\ held'[w] = held[w]
Loads(w) ==
  LET s == txn[w].todo
      t == s[1].token
  IN  /\ Typed /\ Others(w) /\ SameBase
      /\ txn'[w].todo = Rest(Tail(s), held[w]) /\ held'[w] = held[w]
      /\ txn'[w].now = txn[w].now /\ txn'[w].rows = txn[w].rows
      /\ DOMAIN txn'[w].loaded = DOMAIN txn[w].loaded \cup {t}
      /\ DOMAIN txn'[w].saw = DOMAIN txn[w].saw \cup {t}
      /\ txn'[w].loaded[t] = RowSeen(w, t)
      /\ \A u \in DOMAIN txn[w].loaded : u # t => txn'[w].loaded[u] = txn[w].loaded[u]
LEMMA LoadEffect ==
  ASSUME Types, NEW w \in Worker, Load(w)
  PROVE  /\ txn[w].todo # <<>> /\ txn[w].todo[1].do = "load" /\ txn[w].todo[1].token \in TokenId
         /\ Ends(w) \/ Loads(w)
<1>. DEFINE s == txn[w].todo
            t == s[1].token
            R == Rest(Tail(s), held[w])
            old == txn[w].loaded
            oldSaw == txn[w].saw
            F == With(old, t, RowSeen(w, t))
            G == With(oldSaw, t, OverlaySeen(w, t))
<1>1. s # <<>> /\ Head(s).do = "load" /\ SameBase /\ held' = held
  BY DEF Load, Do, SameBase
<1>2. Head(s) = s[1] /\ s[1] \in AnyStep /\ WellFormed(s[1]) /\ Tail(s) \in Seq(AnyStep)
  BY <1>1, HeadTyped
<1>3. t \in TokenId /\ s[1].do = "load"
  BY <1>1, <1>2 DEF WellFormed
<1>4. /\ txn \in [Worker -> Transaction] /\ held \in [Worker -> SUBSET Held]
      /\ txn[w].loaded \in PartialRows /\ txn[w].saw \in PartialTimes
  BY DEF Types, Transaction
<1>5. held' \in [Worker -> SUBSET Held] /\ \A v \in Worker : held'[v] = held[v]
  BY <1>1, <1>4
<1>6. \/ w \notin PollWorker /\ txn' = [txn EXCEPT ![w].todo = <<>>]
      \/ txn' = [txn EXCEPT ![w].todo = R, ![w].loaded = F, ![w].saw = G]
  BY <1>2, EvaluationAssumption DEF Load
<1>7. R \in Seq(AnyStep)
  BY <1>2, RestIs
<1>8. RowSeen(w, t) \in Row /\ OverlaySeen(w, t) \in Until
  BY <1>3, SeenTyped
<1>8a. old \in PartialRows /\ oldSaw \in PartialTimes
  BY <1>4
<1>. HIDE DEF t, old, oldSaw
<1>9. F \in PartialRows /\ DOMAIN F = DOMAIN old \cup {t} /\ F[t] = RowSeen(w, t)
      /\ \A u \in DOMAIN old : u # t => F[u] = old[u]
  BY <1>3, <1>8, <1>8a, WithRow
<1>10. G \in PartialTimes /\ DOMAIN G = DOMAIN oldSaw \cup {t}
  BY <1>3, <1>8, <1>8a, WithTime
<1>. HIDE DEF R, F, G
<1>11. CASE w \notin PollWorker /\ txn' = [txn EXCEPT ![w].todo = <<>>]
  <2>1. <<>> \in Seq(AnyStep)
    OBVIOUS
  <2>2. /\ txn' \in [Worker -> Transaction] /\ \A v \in Worker \ {w} : txn'[v] = txn[v]
        /\ txn'[w].todo = <<>> /\ txn'[w].now = txn[w].now /\ txn'[w].loaded = txn[w].loaded
        /\ txn'[w].saw = txn[w].saw /\ txn'[w].rows = txn[w].rows
        /\ txn'[w].overlays = txn[w].overlays
    BY <1>4, <1>11, <2>1 DEF Transaction
  <2>3. Ends(w)
    BY <1>1, <1>5, <1>11, <2>2 DEF Ends, Typed, Others, SameData
  <2>. QED
    BY <1>1, <1>3, <2>3 DEF t
<1>12. CASE txn' = [txn EXCEPT ![w].todo = R, ![w].loaded = F, ![w].saw = G]
  <2>1. /\ txn' \in [Worker -> Transaction] /\ \A v \in Worker \ {w} : txn'[v] = txn[v]
        /\ txn'[w].todo = R /\ txn'[w].now = txn[w].now /\ txn'[w].loaded = F
        /\ txn'[w].saw = G /\ txn'[w].rows = txn[w].rows
    <3>1. /\ txn \in [Worker -> Transaction] /\ R \in Seq(AnyStep) /\ F \in PartialRows
          /\ G \in PartialTimes
      BY <1>4, <1>7, <1>9, <1>10
    <3>. QED
      BY <1>12, <3>1 DEF Transaction
  <2>2. Typed /\ Others(w)
    BY <1>5, <2>1 DEF Typed, Others
  <2>3. Loads(w)
    BY <1>1, <1>5, <1>9, <1>10, <2>1, <2>2 DEF Loads, R, t, old, oldSaw
  <2>. QED
    BY <1>1, <1>3, <2>3 DEF t
<1>. QED
  BY <1>6, <1>11, <1>12

LEMMA TokensAreFinite ==
  /\ IsFiniteSet(TokenId)
  /\ \A S \in SUBSET TokenId : IsFiniteSet(S) /\ Cardinality(S) \in Nat
<1>1. IsFiniteSet(TokenId)
  BY FS_Interval, EvaluationAssumption DEF TokenId
<1>. QED
  BY <1>1, FS_Subset, FS_CardinalityType

\* A step of an evaluation that is followed by others: the rest of the evaluation goes forward
\* from the row that was loaded, and only a promotion that saw room raises a token to deep review.
Decided(n, old, now) ==
  \A i \in 1 .. Len(n) :
    /\ n[i].do = "promote" => Forward(old, now, 3)
    /\ n[i].do = "write" => Forward(old, now, n[i].target)
RaisesWithRoom(w, n) ==
  \A i \in 1 .. Len(n) : Raises(n[i], txn[w].loaded) =>
    txn[w].todo[1].do = "promote" /\ Cardinality(ReviewSeen(txn[w].rows, row)) < MaxTier3
GoesOn(w, n) ==
  LET s == txn[w].todo
      t == s[1].token
  IN  /\ Typed /\ Others(w) /\ SameData(w) /\ SameBase /\ held'[w] = held[w]
      /\ txn'[w].todo = Rest(n \o Tail(s), held[w])
      /\ Follows(n, t, s[1].level, StepRank(s[1]))
      /\ \A i \in 1 .. Len(n) : WellFormed(n[i])
      /\ Decided(n, txn[w].loaded[t], txn[w].now) /\ RaisesWithRoom(w, n)

LEMMA GoesOnEffect ==
  ASSUME Types, NEW w \in Worker, txn[w].todo # <<>>, NEW n \in Seq(AnyStep), Proceed(w, n),
         held' = held, UNCHANGED <<clock, row, overlay, begun>>,
         Follows(n, txn[w].todo[1].token, txn[w].todo[1].level, StepRank(txn[w].todo[1])),
         \A i \in 1 .. Len(n) : WellFormed(n[i]),
         Decided(n, txn[w].loaded[txn[w].todo[1].token], txn[w].now), RaisesWithRoom(w, n)
  PROVE  GoesOn(w, n)
<1>1. held' \in [Worker -> SUBSET Held] /\ held'[w] = held[w]
      /\ \A v \in Worker \ {w} : held'[v] = held[v]
  BY DEF Types
<1>2. /\ txn' \in [Worker -> Transaction] /\ Others(w) /\ SameData(w)
      /\ txn'[w].todo = Rest(n \o Tail(txn[w].todo), held'[w])
  BY <1>1, ProceedEffect
<1>. QED
  BY <1>1, <1>2 DEF GoesOn, Typed, SameBase

\* The first step of a plan knows its row.
LEMMA HeadKnown ==
  ASSUME Types, NEW w \in Worker, txn[w].todo # <<>>, Sound(w, txn[w], held[w], row),
         txn[w].todo[1].do \in {"judge", "promote", "write"}
  PROVE  LET t == txn[w].todo[1].token
         IN  /\ t \in TokenId /\ t \in DOMAIN txn[w].loaded /\ txn[w].loaded[t] \in Row
             /\ t \in DOMAIN txn[w].saw /\ txn[w].saw[t] \in Until
             /\ w \notin BoostWorker => txn[w].loaded[t] = row[t]
             /\ Holds(held[w], OnToken(t), Alone) /\ t \notin DOMAIN txn[w].rows
             /\ txn[w].todo[1].do = "promote" => Holds(held[w], Tier3Budget, Alone)
             /\ StepForward(txn[w].todo[1], txn[w].loaded, txn[w].now)
<1>. DEFINE s == txn[w].todo
            t == s[1].token
<1>1. s \in Seq(AnyStep) /\ s[1] \in AnyStep /\ 1 \in 1 .. Len(s) /\ WellFormed(s[1])
  BY HeadTyped
<1>2. t \in TokenId
  BY <1>1 DEF WellFormed
<1>3. /\ StepKnown(w, s, 1, held[w], txn[w].loaded, txn[w].saw, row)
      /\ StepForward(s[1], txn[w].loaded, txn[w].now)
  BY <1>1 DEF Sound
<1>4. ~ LoadedBefore(s, 1) /\ \A lock : ~ TakenBefore(s, 1, lock, Alone)
  BY DEF LoadedBefore, TakenBefore
<1>5. /\ t \in DOMAIN txn[w].loaded /\ t \in DOMAIN txn[w].saw
      /\ w \notin BoostWorker => txn[w].loaded[t] = row[t]
  BY <1>3, <1>4 DEF StepKnown
<1>6. /\ Holds(held[w], OnToken(t), Alone)
      /\ s[1].do = "promote" => Holds(held[w], Tier3Budget, Alone)
  <2>1. StepsGuarded(s, held[w])
    BY DEF Sound, Plan
  <2>. QED
    BY <1>1, <1>4, <2>1 DEF StepsGuarded
<1>7. t \notin DOMAIN txn[w].rows
  <2>1. EvaluatedOnce(s, DOMAIN txn[w].rows)
    BY DEF Sound, Plan
  <2>. QED
    BY <1>1, <2>1 DEF EvaluatedOnce
<1>8. txn[w].loaded \in PartialRows /\ txn[w].saw \in PartialTimes
  BY DEF Types, Transaction
<1>9. txn[w].loaded[t] \in Row
  BY <1>5, <1>8 DEF PartialRows
<1>10. txn[w].saw[t] \in Until
  BY <1>5, <1>8 DEF PartialTimes
<1>. QED
  BY <1>2, <1>3, <1>5, <1>6, <1>7, <1>9, <1>10

LEMMA TargetsAreTiers ==
  ASSUME NEW w, NEW tier, NEW target \in Targets(w, tier)
  PROVE  target \in 0 .. 3
BY DEF Targets

LEMMA NothingFollows ==
  ASSUME NEW w \in Worker, NEW t, NEW level, NEW rank, NEW old, NEW now
  PROVE  /\ <<>> \in Seq(AnyStep) /\ Follows(<<>>, t, level, rank)
         /\ \A i \in 1 .. Len(<<>>) : WellFormed(<<>>[i])
         /\ Decided(<<>>, old, now) /\ RaisesWithRoom(w, <<>>)
<1>1. <<>> \in Seq(AnyStep) /\ Len(<<>>) = 0 /\ 1 .. 0 = {}
  OBVIOUS
<1>. QED
  BY <1>1 DEF Follows, Decided, RaisesWithRoom

LEMMA JudgeEffect ==
  ASSUME Types, NEW w \in Worker, Sound(w, txn[w], held[w], row), Judge(w)
  PROVE  /\ txn[w].todo # <<>> /\ txn[w].todo[1].do = "judge"
         /\ \E n \in Seq(AnyStep) : GoesOn(w, n)
<1>. DEFINE s == txn[w].todo
            t == s[1].token
            level == s[1].level
            current == txn[w].loaded[t]
            now == txn[w].now
<1>1. s # <<>> /\ Head(s).do = "judge" /\ held' = held /\ UNCHANGED <<clock, row, overlay, begun>>
  BY DEF Judge, Do
<1>2. Head(s) = s[1] /\ s[1] \in AnyStep
  BY <1>1, HeadTyped
<1>3. s[1].do = "judge" /\ level \in 0 .. 2 /\ StepRank(s[1]) = 6
  BY <1>1, <1>2 DEF AnyStep, StepRank
<1>4. t \in TokenId /\ current \in Row
  BY <1>1, <1>3, HeadKnown
<1>5. PICK target \in Targets(w, current.tier) :
        \/ Proceed(w, <<>>)
        \/ /\ ~ Outdated(current, now, target) /\ target = 3 /\ current.tier # 3
           /\ Proceed(w, PromotionLocks(level) \o <<Step("promote", t, level)>>)
        \/ /\ ~ Outdated(current, now, target) /\ (target = 3 => current.tier = 3)
           /\ Proceed(w, Change(w, t, target, level))
  BY <1>2 DEF Judge
<1>6. target \in 0 .. 3
  BY <1>5, TargetsAreTiers
<1>7. now \in Nat /\ current.watermark \in Nat /\ current.tier \in 0 .. 3
  BY <1>4 DEF Types, Transaction, Row
<1>8. CASE Proceed(w, <<>>)
  BY <1>1, <1>3, <1>8, NothingFollows, GoesOnEffect
<1>9. CASE /\ ~ Outdated(current, now, target) /\ target = 3 /\ current.tier # 3
           /\ Proceed(w, PromotionLocks(level) \o <<Step("promote", t, level)>>)
  <2>. DEFINE n == PromotionLocks(level) \o <<Step("promote", t, level)>>
  <2>1. /\ n \in Seq(AnyStep) /\ Follows(n, t, level, 6)
        /\ \A i \in 1 .. Len(n) : WellFormed(n[i]) /\ n[i].do # "write"
    BY <1>3, <1>4, PromotionFollows
  <2>2. Proceed(w, n)
    BY <1>9
  <2>. HIDE DEF n
  <2>3. Forward(current, now, 3)
    <3>1. ~ Outdated(current, now, 3)
      BY <1>9
    <3>. HIDE DEF current, now
    <3>. QED
      BY <1>7, <3>1 DEF Forward, Outdated
  <2>4. Decided(n, current, now) /\ RaisesWithRoom(w, n)
    BY <2>1, <2>3 DEF Decided, RaisesWithRoom, Raises
  <2>. QED
    BY <1>1, <1>3, <2>1, <2>2, <2>4, GoesOnEffect
<1>10. CASE /\ ~ Outdated(current, now, target) /\ (target = 3 => current.tier = 3)
            /\ Proceed(w, Change(w, t, target, level))
  <2>. DEFINE n == Change(w, t, target, level)
              kept == Kept(current, now, target)
  <2>1. /\ n \in Seq(AnyStep) /\ Follows(n, t, level, 6)
        /\ \A i \in 1 .. Len(n) : /\ WellFormed(n[i]) /\ n[i].do \in {"take", "write"}
                                  /\ n[i].do = "write" => n[i].target = kept
    <3>1. PICK m : m = n
      OBVIOUS
    <3>2. PICK k : k = kept
      OBVIOUS
    <3>3. /\ m \in Seq(AnyStep) /\ Follows(m, t, level, 6)
          /\ \A i \in 1 .. Len(m) : /\ WellFormed(m[i]) /\ m[i].do \in {"take", "write"}
                                    /\ m[i].do = "write" => m[i].target = k
      <4>1. t \in TokenId /\ level \in Level /\ target \in Tier /\ txn[w].loaded[t] \in Row
            /\ m = Change(w, t, target, level) /\ k = Kept(txn[w].loaded[t], txn[w].now, target)
        BY <1>3, <1>4, <1>6, <3>1, <3>2 DEF Level, Tier
      <4>. HIDE DEF t, level
      <4>. QED
        BY <4>1, ChangeFollows
    <3>. HIDE DEF n, kept
    <3>. QED
      BY <3>1, <3>2, <3>3
  <2>2. Proceed(w, n)
    BY <1>10
  <2>. HIDE DEF n
  <2>3. Forward(current, now, kept) /\ (kept = 3 => current.tier = 3)
    <3>1. /\ kept = target \/ kept = current.tier
          /\ ~ Outdated(current, now, target) /\ (target = 3 => current.tier = 3)
      BY <1>10 DEF Kept
    <3>. HIDE DEF kept, now, current
    <3>2. current.watermark <= now /\ (now = current.watermark => current.tier <= target)
      BY <1>6, <1>7, <3>1 DEF Outdated
    <3>4. CASE kept = target
      BY <1>6, <1>7, <3>1, <3>2, <3>4 DEF Forward
    <3>5. CASE kept = current.tier
      BY <1>7, <3>2, <3>5 DEF Forward
    <3>. QED
      BY <3>1, <3>4, <3>5
  <2>. HIDE DEF kept
  <2>4. \A i \in 1 .. Len(n) : n[i].do = "write" => n[i].token = t
    BY <2>1 DEF Follows
  <2>5. Decided(n, current, now)
    BY <2>1, <2>3 DEF Decided
  <2>6. RaisesWithRoom(w, n)
    BY <2>1, <2>3, <2>4 DEF RaisesWithRoom, Raises
  <2>. QED
    BY <1>1, <1>3, <2>1, <2>2, <2>5, <2>6, GoesOnEffect
<1>. QED
  BY <1>1, <1>3, <1>5, <1>8, <1>9, <1>10

LEMMA PromoteEffect ==
  ASSUME Types, NEW w \in Worker, Sound(w, txn[w], held[w], row), Promote(w)
  PROVE  /\ txn[w].todo # <<>> /\ txn[w].todo[1].do = "promote"
         /\ \E n \in Seq(AnyStep) : GoesOn(w, n)
<1>. DEFINE s == txn[w].todo
            t == s[1].token
            level == s[1].level
            current == txn[w].loaded[t]
            now == txn[w].now
            target == IF Tier3Full(w) THEN current.tier ELSE 3
            n == Change(w, t, target, level)
            kept == Kept(current, now, target)
<1>1. s # <<>> /\ Head(s).do = "promote" /\ held' = held
      /\ UNCHANGED <<clock, row, overlay, begun>>
  BY DEF Promote, Do
<1>2. Head(s) = s[1] /\ s[1] \in AnyStep
  BY <1>1, HeadTyped
<1>3. s[1].do = "promote" /\ level \in 0 .. 2 /\ StepRank(s[1]) = 8
  BY <1>1, <1>2 DEF AnyStep, StepRank
<1>4. t \in TokenId /\ current \in Row /\ StepForward(s[1], txn[w].loaded, now)
  BY <1>1, <1>3, HeadKnown
<1>5. Proceed(w, n)
  BY <1>2 DEF Promote
<1>6. now \in Nat /\ current.watermark \in Nat /\ current.tier \in 0 .. 3
  BY <1>4 DEF Types, Transaction, Row
<1>7. target \in 0 .. 3
  BY <1>6
<1>8. /\ n \in Seq(AnyStep) /\ Follows(n, t, level, 8)
      /\ \A i \in 1 .. Len(n) : /\ WellFormed(n[i]) /\ n[i].do \in {"take", "write"}
                                /\ n[i].do = "write" => n[i].target = kept
  <2>1. PICK m : m = n
    OBVIOUS
  <2>2. PICK k : k = kept
    OBVIOUS
  <2>. HIDE DEF target
  <2>3. /\ m \in Seq(AnyStep) /\ Follows(m, t, level, 8)
        /\ \A i \in 1 .. Len(m) : /\ WellFormed(m[i]) /\ m[i].do \in {"take", "write"}
                                  /\ m[i].do = "write" => m[i].target = k
    <3>1. t \in TokenId /\ level \in Level /\ target \in Tier /\ txn[w].loaded[t] \in Row
          /\ m = Change(w, t, target, level) /\ k = Kept(txn[w].loaded[t], txn[w].now, target)
      BY <1>3, <1>4, <1>7, <2>1, <2>2 DEF Level, Tier
    <3>. HIDE DEF t, level, target
    <3>. QED
      BY <3>1, ChangeFollows
  <2>. HIDE DEF n, kept
  <2>. QED
    BY <2>1, <2>2, <2>3
<1>. HIDE DEF n
<1>9. Forward(current, now, 3)
  BY <1>3, <1>4 DEF StepForward
<1>10. Forward(current, now, kept)
  <2>1. kept \in {target, current.tier} /\ target \in {current.tier, 3}
    BY DEF Kept
  <2>. HIDE DEF kept, target, now, current
  <2>. QED
    BY <1>6, <1>9, <2>1 DEF Forward
<1>11. kept = 3 /\ current.tier # 3 => ~ Tier3Full(w)
  BY DEF Kept
<1>12. ReviewSeen(txn[w].rows, row) = {u \in TokenId : RowSeen(w, u).tier = 3}
  BY DEF ReviewSeen, RowSeen
<1>13. Cardinality(ReviewSeen(txn[w].rows, row)) \in Nat
  BY TokensAreFinite DEF ReviewSeen
<1>14. ~ Tier3Full(w) => Cardinality(ReviewSeen(txn[w].rows, row)) < MaxTier3
  BY <1>12, <1>13, EvaluationAssumption DEF Tier3Full
<1>. HIDE DEF kept
<1>15. \A i \in 1 .. Len(n) : n[i].do = "write" => n[i].token = t
  BY <1>8 DEF Follows
<1>16. Decided(n, current, now)
  BY <1>8, <1>10 DEF Decided
<1>17. RaisesWithRoom(w, n)
  BY <1>3, <1>8, <1>11, <1>14, <1>15 DEF RaisesWithRoom, Raises
<1>. QED
  BY <1>1, <1>3, <1>5, <1>8, <1>16, <1>17, GoesOnEffect

LEMMA MergedRow ==
  ASSUME NEW old \in Row, NEW loaded \in Row, NEW new \in Row
  PROVE  /\ Merged(old, loaded, new) \in Row
         /\ loaded = old => Merged(old, loaded, new).tier = new.tier
                             /\ Merged(old, loaded, new).watermark = new.watermark
         /\ Merged(old, loaded, new).tier =
              IF new.tier = loaded.tier THEN old.tier ELSE new.tier
<1>1. DOMAIN new = {"tier", "watermark", "expires"}
  BY DEF Row
<1>. DEFINE m == Merged(old, loaded, new)
<1>2. m = [c \in {"tier", "watermark", "expires"} |->
             IF new[c] = loaded[c] THEN old[c] ELSE new[c]]
  BY <1>1 DEF Merged
<1>3. /\ m.tier = IF new.tier = loaded.tier THEN old.tier ELSE new.tier
      /\ m.watermark = IF new.watermark = loaded.watermark THEN old.watermark ELSE new.watermark
      /\ m.expires = IF new.expires = loaded.expires THEN old.expires ELSE new.expires
  BY <1>2
<1>4. m = [tier |-> m.tier, watermark |-> m.watermark, expires |-> m.expires]
  BY <1>2
<1>. HIDE DEF m
<1>5. m.tier \in 0 .. 3 /\ m.watermark \in 0 .. MaxClock /\ m.expires \in Until
  BY <1>3 DEF Row
<1>6. m \in Row
  BY <1>4, <1>5 DEF Row
<1>. QED
  BY <1>3, <1>6 DEF m

\* The row of the first step is written.
Writes(w) ==
  LET s == txn[w].todo
      t == s[1].token
      new == txn'[w].rows[t]
  IN  /\ Typed /\ Others(w) /\ SameBase /\ held'[w] = held[w]
      /\ txn'[w].todo = Rest(Tail(s), held[w])
      /\ txn'[w].now = txn[w].now /\ txn'[w].loaded = txn[w].loaded /\ txn'[w].saw = txn[w].saw
      /\ DOMAIN txn'[w].rows = DOMAIN txn[w].rows \cup {t}
      /\ \A u \in DOMAIN txn[w].rows : u # t => txn'[w].rows[u] = txn[w].rows[u]
      /\ txn[w].loaded[t] = row[t] => new.tier = s[1].target /\ new.watermark = txn[w].now
      /\ new.tier = 3 => row[t].tier = 3 \/ Raises(s[1], txn[w].loaded)

LEMMA ProjectEffect ==
  ASSUME Types, NEW w \in Worker, Sound(w, txn[w], held[w], row), Project(w)
  PROVE  txn[w].todo # <<>> /\ txn[w].todo[1].do = "write" /\ Writes(w)
<1>. DEFINE s == txn[w].todo
            t == s[1].token
            target == s[1].target
            now == txn[w].now
            saw == txn[w].saw[t]
            loaded == txn[w].loaded[t]
            admitted == target # 0 /\ (saw > now \/ ~ CoverageFull(w))
            expires == IF admitted THEN CoverageUntil(loaded, now) ELSE Never
            new == [tier |-> target, watermark |-> now, expires |-> expires]
            covered == IF admitted THEN expires
                       ELSE IF target = 0 \/ saw <= now THEN Never ELSE saw
            oldRows == txn[w].rows
            oldOverlays == txn[w].overlays
            merged == Merged(row[t], loaded, new)
            value == IF covered = saw THEN overlay[t] ELSE covered
            R == Rest(Tail(s), held[w])
            F == With(oldRows, t, merged)
            G == With(oldOverlays, t, value)
<1>1. s # <<>> /\ Head(s).do = "write" /\ held' = held /\ SameBase
  BY DEF Project, Do, SameBase
<1>2. Head(s) = s[1] /\ s[1] \in AnyStep /\ Tail(s) \in Seq(AnyStep)
  BY <1>1, HeadTyped
<1>3. s[1].do = "write" /\ target \in 0 .. 3
  BY <1>1, <1>2 DEF AnyStep
<1>4. t \in TokenId /\ loaded \in Row /\ saw \in Until
  BY <1>1, <1>3, HeadKnown
<1>5. now \in 0 .. MaxClock /\ row[t] \in Row /\ overlay[t] \in Until
      /\ oldRows \in PartialRows /\ oldOverlays \in PartialTimes
  BY <1>4 DEF Types, Transaction
<1>6. expires \in Until
  BY <1>5, EvaluationAssumption DEF Until, CoverageUntil, Never
<1>7. new \in Row
  BY <1>3, <1>5, <1>6 DEF Row
<1>8. covered \in Until
  BY <1>4, <1>6, EvaluationAssumption DEF Until, Never
<1>9. txn' = [txn EXCEPT ![w].todo = R, ![w].rows = F, ![w].overlays = G]
  BY <1>2 DEF Project
<1>10. value \in Until
  BY <1>5, <1>8
<1>11. /\ merged \in Row
       /\ loaded = row[t] => merged.tier = target /\ merged.watermark = now
       /\ merged.tier = IF target = loaded.tier THEN row[t].tier ELSE target
  <2>1. new.tier = target /\ new.watermark = now
    OBVIOUS
  <2>. HIDE DEF new
  <2>. QED
    BY <1>4, <1>5, <1>7, <2>1, MergedRow, SMTT(30)
<1>. HIDE DEF merged, value, oldRows, oldOverlays
<1>12. F \in PartialRows /\ DOMAIN F = DOMAIN oldRows \cup {t} /\ F[t] = merged
       /\ \A u \in DOMAIN oldRows : u # t => F[u] = oldRows[u]
  <2>1. oldRows \in PartialRows /\ t \in TokenId /\ merged \in Row
    BY <1>4, <1>5, <1>11
  <2>. HIDE DEF t
  <2>. QED
    BY <2>1, WithRow
<1>13. G \in PartialTimes
  <2>. HIDE DEF t
  <2>. QED
    BY <1>4, <1>5, <1>10, WithTime
<1>14. R \in Seq(AnyStep) /\ txn \in [Worker -> Transaction] /\ held \in [Worker -> SUBSET Held]
  BY <1>2, RestIs DEF Types
<1>. HIDE DEF R, F, G
<1>15. /\ txn' \in [Worker -> Transaction] /\ \A v \in Worker \ {w} : txn'[v] = txn[v]
       /\ txn'[w].todo = R /\ txn'[w].now = txn[w].now /\ txn'[w].loaded = txn[w].loaded
       /\ txn'[w].saw = txn[w].saw /\ txn'[w].rows = F
  <2>1. /\ R \in Seq(AnyStep) /\ txn \in [Worker -> Transaction] /\ F \in PartialRows
        /\ G \in PartialTimes
    BY <1>12, <1>13, <1>14
  <2>. QED
    BY <1>9, <2>1 DEF Transaction
<1>16. Typed /\ Others(w) /\ held'[w] = held[w]
  BY <1>1, <1>14, <1>15 DEF Typed, Others
<1>17. merged.tier = 3 => row[t].tier = 3 \/ Raises(s[1], txn[w].loaded)
  BY <1>3, <1>11 DEF Raises
<1>18. Writes(w)
  BY <1>1, <1>11, <1>12, <1>15, <1>16, <1>17 DEF Writes, R, oldRows
<1>. QED
  BY <1>1, <1>3, <1>18

Finishes(w) ==
  /\ Typed /\ Others(w) /\ txn'[w] = NoTransaction /\ held'[w] = {}
  /\ UNCHANGED <<clock, begun>>

LEMMA NothingIsTyped ==
  /\ NoTransaction \in Transaction /\ NoRows \in PartialRows /\ NoOverlays \in PartialTimes
  /\ DOMAIN NoRows = {} /\ NoTransaction.todo = <<>> /\ NoTransaction.rows = NoRows
  /\ NoTransaction.now = 0
<1>1. NoRows \in [{} -> Row] /\ DOMAIN NoRows = {}
  BY DEF NoRows
<1>2. NoOverlays \in [{} -> Until]
  BY DEF NoOverlays
<1>3. NoRows \in PartialRows /\ NoOverlays \in PartialTimes
  BY <1>1, <1>2 DEF PartialRows, PartialTimes
<1>4. <<>> \in Seq(AnyStep) /\ 0 \in 0 .. MaxClock
  BY EvaluationAssumption
<1>. QED
  BY <1>1, <1>3, <1>4 DEF NoTransaction, Transaction

LEMMA CommitEffect ==
  ASSUME Types, NEW w \in Worker, Commit(w)
  PROVE  /\ txn[w].todo = <<>> /\ Finishes(w)
         /\ row' \in [TokenId -> Row] /\ overlay' \in [TokenId -> Until]
         /\ \A t \in TokenId : row'[t] = RowSeen(w, t)
<1>1. /\ txn' = [txn EXCEPT ![w] = NoTransaction] /\ held' = [held EXCEPT ![w] = {}]
      /\ txn[w].todo = <<>> /\ UNCHANGED <<clock, begun>>
      /\ row' = [t \in TokenId |-> RowSeen(w, t)]
      /\ overlay' = [t \in TokenId |-> IF t \in Lapsed(w) THEN Never ELSE OverlaySeen(w, t)]
  BY DEF Commit
<1>2. Never \in Until
  BY EvaluationAssumption DEF Never, Until
<1>3. \A t \in TokenId : RowSeen(w, t) \in Row /\ OverlaySeen(w, t) \in Until
  BY SeenTyped
<1>4. row' \in [TokenId -> Row] /\ \A t \in TokenId : row'[t] = RowSeen(w, t)
  BY <1>1, <1>3
<1>5. overlay' \in [TokenId -> Until]
  BY <1>1, <1>2, <1>3
<1>6. txn \in [Worker -> Transaction] /\ held \in [Worker -> SUBSET Held]
  BY DEF Types
<1>7. Finishes(w)
  BY <1>1, <1>6, NothingIsTyped DEF Finishes, Typed, Others
<1>. QED
  BY <1>1, <1>4, <1>5, <1>7

LEMMA DeadlockedWait ==
  ASSUME NEW w \in Deadlocked
  PROVE  Waits(w) # {} /\ Do(w, "take")
<1>1. Waits(w) # {}
  <2>1. CASE Waits(w) = {}
    <3>1. {} \in SUBSET Worker /\ Waits(w) \subseteq {} /\ UNION {Waits(v) : v \in {}} \subseteq {}
      BY <2>1
    <3>2. w \in {}
      BY <3>1 DEF Deadlocked
    <3>. QED
      BY <3>2
  <2>. QED
    BY <2>1
<1>. QED
  BY <1>1 DEF Waits

Retreats(w) ==
  LET level == txn[w].todo[1].level
  IN  /\ level # 0 /\ Typed /\ Others(w) /\ SameBase
      /\ held'[w] = {h \in held[w] : h.level < level}
      /\ txn'[w].todo = Rest(Outside(txn[w].todo), held'[w])
      /\ txn'[w].now = txn[w].now /\ txn'[w].rows = NoRows

LEMMA AbortEffect ==
  ASSUME Types, NEW w \in Worker, Abort(w)
  PROVE  txn[w].todo # <<>> /\ ((Finishes(w) /\ SameBase) \/ Retreats(w))
<1>. DEFINE s == txn[w].todo
            level == s[1].level
            M == {h \in held[w] : h.level < level}
            R == Rest(Outside(s), M)
<1>1. w \in Deadlocked /\ SameBase
  BY DEF Abort, SameBase
<1>2. s # <<>>
  BY <1>1, DeadlockedWait DEF Do
<1>3. Head(s) = s[1] /\ s \in Seq(AnyStep)
  BY <1>2, HeadTyped
<1>4. txn \in [Worker -> Transaction] /\ held \in [Worker -> SUBSET Held]
  BY DEF Types
<1>5. CASE level = 0
  <2>1. /\ txn' = [txn EXCEPT ![w] = NoTransaction] /\ held' = [held EXCEPT ![w] = {}]
    BY <1>3, <1>5 DEF Abort
  <2>2. Finishes(w)
    BY <1>1, <1>4, <2>1, NothingIsTyped DEF Finishes, Typed, Others, SameBase
  <2>. QED
    BY <1>1, <1>2, <2>2
<1>6. CASE level # 0
  <2>1. /\ held' = [held EXCEPT ![w] = M]
        /\ txn' = [txn EXCEPT ![w].todo = Rest(Outside(s), held'[w]),
                              ![w].rows = NoRows, ![w].overlays = NoOverlays]
    BY <1>3, <1>6 DEF Abort
  <2>2. M \in SUBSET Held
    BY <1>4
  <2>. HIDE DEF M
  <2>3. /\ held' \in [Worker -> SUBSET Held] /\ held'[w] = M
        /\ \A v \in Worker \ {w} : held'[v] = held[v]
    BY <1>4, <2>1, <2>2
  <2>4. R \in Seq(AnyStep)
    <3>1. {i \in DOMAIN s : s[i].level = 0} \in SUBSET DOMAIN s
      OBVIOUS
    <3>2. Outside(s) \in Seq(AnyStep)
      BY <1>3, <3>1, FromFirstIs DEF Outside
    <3>. QED
      BY <3>2, RestIs
  <2>5. txn' = [txn EXCEPT ![w].todo = R, ![w].rows = NoRows, ![w].overlays = NoOverlays]
    BY <2>1, <2>3
  <2>. HIDE DEF R
  <2>6. NoRows \in PartialRows /\ NoOverlays \in PartialTimes
    BY NothingIsTyped
  <2>7. /\ txn' \in [Worker -> Transaction] /\ \A v \in Worker \ {w} : txn'[v] = txn[v]
        /\ txn'[w].todo = R /\ txn'[w].now = txn[w].now /\ txn'[w].rows = NoRows
    BY <1>4, <2>4, <2>5, <2>6 DEF Transaction
  <2>8. Retreats(w)
    BY <1>1, <1>6, <2>3, <2>7 DEF Retreats, Typed, Others, R, M
  <2>. QED
    BY <1>2, <2>8
<1>. QED
  BY <1>5, <1>6

Starts(w, steps) ==
  /\ Typed /\ Others(w) /\ held'[w] = held[w] /\ txn[w] = NoTransaction
  /\ txn'[w].todo = steps /\ txn'[w].now = clock /\ txn'[w].rows = NoRows
  /\ UNCHANGED <<clock, row, overlay>> /\ begun' \in 0 .. MaxTransactions

LEMMA BeginEffect ==
  ASSUME Types, NEW w \in Worker, NEW steps \in Seq(AnyStep), NEW batch \in SUBSET TokenId,
         Begin(w, steps, batch)
  PROVE  Starts(w, steps)
<1>. DEFINE T == [NoTransaction EXCEPT !.todo = steps, !.now = clock, !.batch = batch]
<1>1. /\ txn[w] = NoTransaction /\ txn' = [txn EXCEPT ![w] = T] /\ held' = held
      /\ UNCHANGED <<clock, row, overlay>> /\ begun < MaxTransactions /\ begun' = begun + 1
  BY DEF Begin
<1>2. clock \in 0 .. MaxClock /\ begun' \in 0 .. MaxTransactions
  BY <1>1, EvaluationAssumption DEF Types
<1>3. T \in Transaction /\ T.todo = steps /\ T.now = clock /\ T.rows = NoTransaction.rows
  <2>1. NoTransaction \in Transaction
    BY NothingIsTyped
  <2>. QED
    BY <1>2, <2>1 DEF Transaction
<1>4. T.rows = NoRows
  BY <1>3, NothingIsTyped
<1>. HIDE DEF T
<1>6. txn \in [Worker -> Transaction] /\ held \in [Worker -> SUBSET Held]
  BY DEF Types
<1>7. Typed /\ Others(w) /\ txn'[w] = T
  BY <1>1, <1>3, <1>6 DEF Typed, Others
<1>. QED
  BY <1>1, <1>2, <1>3, <1>4, <1>7 DEF Starts

-----------------------------------------------------------------------------
(* Every action leaves its transaction sound.                              *)

NoneLoads(s, k) == \A i \in 1 .. k : s[i].do # "load"
Informed(w, s, L, T, current) ==
  \A i \in 1 .. Len(s) :
    StepKnown(w, s, i, L, T.loaded, T.saw, current) /\ StepForward(s[i], T.loaded, T.now)

LEMMA DataAdvances ==
  ASSUME NEW w \in Worker, NEW s \in Seq(AnyStep), NEW r \in Seq(AnyStep), NEW L, NEW M,
         L \subseteq M, NEW k, Without(s, k, r), NoneLoads(s, k), NEW T, NEW current,
         Informed(w, s, L, T, current)
  PROVE  Informed(w, r, M, T, current)
<1>. DEFINE loaded == T.loaded
            saw == T.saw
            now == T.now
<1>00. \A i \in 1 .. Len(s) : /\ StepKnown(w, s, i, L, loaded, saw, current)
                              /\ StepForward(s[i], loaded, now)
  BY DEF Informed
<1>. SUFFICES \A i \in 1 .. Len(r) : /\ StepKnown(w, r, i, M, loaded, saw, current)
                                      /\ StepForward(r[i], loaded, now)
  BY DEF Informed
<1>. HIDE DEF loaded, saw, now
<1>0. /\ k \in 0 .. Len(s) /\ Len(s) \in Nat /\ Len(r) = Len(s) - k
      /\ \A n \in 1 .. Len(r) : r[n] = s[n + k] /\ n + k \in 1 .. Len(s)
  BY DEF Without
<1>. SUFFICES ASSUME NEW i \in 1 .. Len(r)
              PROVE  /\ StepKnown(w, r, i, M, loaded, saw, current)
                     /\ StepForward(r[i], loaded, now)
  OBVIOUS
<1>1. r[i] = s[i + k] /\ i + k \in 1 .. Len(s)
  BY <1>0
<1>2. StepForward(r[i], loaded, now)
  BY <1>00, <1>1
<1>3. StepKnown(w, r, i, M, loaded, saw, current)
  <2>. SUFFICES ASSUME r[i].do \in {"judge", "promote", "write"}
                PROVE  \/ LoadedBefore(r, i)
                       \/ /\ r[i].token \in DOMAIN loaded /\ r[i].token \in DOMAIN saw
                          /\ w \notin BoostWorker => /\ loaded[r[i].token] = current[r[i].token]
                                                    /\ Holds(M, OnToken(r[i].token), Alone)
    BY DEF StepKnown
  <2>1. \/ LoadedBefore(s, i + k)
        \/ /\ r[i].token \in DOMAIN loaded /\ r[i].token \in DOMAIN saw
           /\ w \notin BoostWorker => /\ loaded[r[i].token] = current[r[i].token]
                                     /\ Holds(L, OnToken(r[i].token), Alone)
    BY <1>00, <1>1 DEF StepKnown
  <2>2. Holds(L, OnToken(r[i].token), Alone) => Holds(M, OnToken(r[i].token), Alone)
    BY DEF Holds
  <2>3. ASSUME LoadedBefore(s, i + k) PROVE LoadedBefore(r, i)
    <3>1. PICK j \in 1 .. (i + k) - 1 : s[j].do = "load" /\ s[j].token = s[i + k].token
      BY <2>3, Zenon DEF LoadedBefore
    <3>2. ~ (j <= k)
      BY <1>0, <3>1 DEF NoneLoads
    <3>3. j - k \in 1 .. i - 1 /\ j - k \in 1 .. Len(r) /\ (j - k) + k = j
      BY <1>0, <3>1, <3>2
    <3>4. r[j - k] = s[j]
      BY <1>0, <3>3
    <3>. QED
      BY <1>1, <3>1, <3>3, <3>4 DEF LoadedBefore
  <2>. QED
    BY <2>1, <2>2, <2>3
<1>. QED
  BY <1>2, <1>3

LEMMA ReviewAdvances ==
  ASSUME NEW s \in Seq(AnyStep), NEW r \in Seq(AnyStep), NEW L, NEW loaded, NEW rows, NEW current,
         NEW k, Without(s, k, r), ReviewCounted(s, L, loaded, rows, current)
  PROVE  ReviewCounted(r, L, loaded, rows, current)
<1>0. \A n \in 1 .. Len(r) : r[n] = s[n + k] /\ n + k \in 1 .. Len(s)
  BY DEF Without
<1>. QED
  BY <1>0 DEF ReviewCounted

LEMMA WritesHold ==
  ASSUME NEW w, NEW rows, NEW L, NEW M, L \subseteq M, NEW current,
         WritesForward(w, rows, L, current)
  PROVE  WritesForward(w, rows, M, current)
BY DEF WritesForward, Holds

LEMMA AcquireSound ==
  ASSUME Types, Cardinality(InReview(row)) <= MaxTier3, NEW w \in Worker,
         Sound(w, txn[w], held[w], row), Acquire(w)
  PROVE  Sound(w, txn'[w], held'[w], row)
<1>. DEFINE s == txn[w].todo
            L == held[w]
            M == L \cup {Wanted(s[1])}
            r == Rest(Tail(s), M)
            T == txn[w]
<1>1. /\ s # <<>> /\ s[1].do = "take" /\ s[1].mode \in Mode
      /\ SameData(w) /\ held'[w] = M /\ txn'[w].todo = r
  BY AcquireEffect
<1>2. s \in Seq(AnyStep) /\ L \in SUBSET Held
  BY <1>1, HeadTyped DEF Types
<1>3. Wanted(s[1]) \in M /\ Wanted(s[1]).lock = s[1].lock /\ Wanted(s[1]).mode = s[1].mode
  BY DEF Wanted
<1>4. Granted(M, s[1])
  BY <1>1, <1>3 DEF Granted
<1>. HIDE DEF s, M, L
<1>5. r \in Seq(AnyStep) /\ \E k \in 1 .. Len(s) : Advanced(s, r, M, k)
  BY <1>1, <1>2, <1>4, HeadDone
<1>6. PICK k \in 1 .. Len(s) : Advanced(s, r, M, k)
  BY <1>5
<1>. HIDE DEF r
<1>7. /\ Plan(w, s, L, DOMAIN T.rows) /\ (w \notin PollWorker /\ T.now # 0 => AboutOne(w, s, L))
      /\ WritesForward(w, T.rows, L, row) /\ ReviewCounted(s, L, T.loaded, T.rows, row)
      /\ \A i \in 1 .. Len(s) : /\ StepKnown(w, s, i, L, T.loaded, T.saw, row)
                                /\ StepForward(s[i], T.loaded, T.now)
  BY DEF Sound, s, L
<1>8. Plan(w, r, M, DOMAIN T.rows)
  BY <1>1, <1>2, <1>5, <1>6, <1>7, PlanAcquires DEF M
<1>9. ASSUME w \notin PollWorker, T.now # 0 PROVE AboutOne(w, r, M)
  <2>1. PICK t \in TokenId : About(w, t, s, L)
    BY <1>7, <1>9 DEF AboutOne
  <2>2. About(w, t, r, M)
    BY <1>1, <1>2, <1>5, <1>6, <2>1, AboutAcquires DEF M
  <2>. QED
    BY <2>2 DEF AboutOne
<1>10. L \subseteq M
  BY DEF M
<1>11. WritesForward(w, T.rows, M, row)
  BY <1>7, <1>10, WritesHold
<1>12. Without(s, k, r) /\ \A i \in 1 .. k : s[i].do # "load"
  BY <1>1, <1>6 DEF Advanced, Granted
<1>13. Informed(w, r, M, T, row)
  <2>1. NoneLoads(s, k) /\ Informed(w, s, L, T, row)
    BY <1>7, <1>12 DEF NoneLoads, Informed
  <2>. HIDE DEF T
  <2>. QED
    BY <1>2, <1>5, <1>10, <1>12, <2>1, DataAdvances
<1>14. ReviewCounted(r, L, T.loaded, T.rows, row)
  <2>. HIDE DEF T
  <2>. QED
    BY <1>2, <1>5, <1>7, <1>12, ReviewAdvances
<1>15. ReviewCounted(r, M, T.loaded, T.rows, row)
  <2>. HIDE DEF T
  <2>1. Holds(L, Tier3Budget, Alone) => Holds(M, Tier3Budget, Alone)
    BY <1>10 DEF Holds
  <2>2. ReviewSeen(T.rows, row) \subseteq InReview(row) =>
          Cardinality(ReviewSeen(T.rows, row)) <= MaxTier3
    <3>1. InReview(row) \subseteq TokenId
      BY DEF InReview
    <3>2. IsFiniteSet(InReview(row)) /\ Cardinality(InReview(row)) \in Nat
      BY <3>1, TokensAreFinite
    <3>3. ReviewSeen(T.rows, row) \subseteq InReview(row) =>
            Cardinality(ReviewSeen(T.rows, row)) <= Cardinality(InReview(row))
            /\ Cardinality(ReviewSeen(T.rows, row)) \in Nat
      BY <3>2, FS_Subset, FS_CardinalityType
    <3>. QED
      BY <3>2, <3>3, EvaluationAssumption
  <2>3. \A i \in 1 .. Len(r) : Raises(r[i], T.loaded) =>
          Holds(M, Tier3Budget, Alone) /\ Cardinality(ReviewSeen(T.rows, row)) < MaxTier3
    BY <1>14, <2>1 DEF ReviewCounted
  <2>4. IF Holds(M, Tier3Budget, Alone)
        THEN Cardinality(ReviewSeen(T.rows, row)) <= MaxTier3
        ELSE ReviewSeen(T.rows, row) \subseteq InReview(row)
    BY <1>14, <2>1, <2>2 DEF ReviewCounted
  <2>. QED
    BY <2>3, <2>4 DEF ReviewCounted
<1>. QED
  BY <1>1, <1>8, <1>9, <1>11, <1>13, <1>15 DEF Sound, SameData, Informed

LEMMA GoesOnSound ==
  ASSUME Types, NEW w \in Worker, Sound(w, txn[w], held[w], row), txn[w].todo # <<>>,
         txn[w].todo[1].do \in {"judge", "promote"}, NEW n \in Seq(AnyStep), GoesOn(w, n)
  PROVE  Sound(w, txn'[w], held'[w], row)
<1>. DEFINE s == txn[w].todo
            L == held[w]
            T == txn[w]
            u == n \o Tail(s)
            r == Rest(u, L)
            t == s[1].token
<1>1. /\ SameData(w) /\ held'[w] = L /\ txn'[w].todo = r
      /\ Follows(n, t, s[1].level, StepRank(s[1]))
      /\ Decided(n, T.loaded[t], T.now) /\ RaisesWithRoom(w, n)
  BY DEF GoesOn
<1>2. s \in Seq(AnyStep) /\ L \in SUBSET Held /\ s # <<>>
  BY HeadTyped DEF Types
<1>3. /\ Plan(w, s, L, DOMAIN T.rows) /\ (w \notin PollWorker /\ T.now # 0 => AboutOne(w, s, L))
      /\ WritesForward(w, T.rows, L, row) /\ ReviewCounted(s, L, T.loaded, T.rows, row)
      /\ \A i \in 1 .. Len(s) : /\ StepKnown(w, s, i, L, T.loaded, T.saw, row)
                                /\ StepForward(s[i], T.loaded, T.now)
  BY DEF Sound
<1>4. /\ t \in DOMAIN T.loaded /\ t \in DOMAIN T.saw
      /\ w \notin BoostWorker => T.loaded[t] = row[t]
      /\ Holds(L, OnToken(t), Alone)
      /\ s[1].do = "promote" => Holds(L, Tier3Budget, Alone)
  BY HeadKnown
<1>5. s[1].do \in {"judge", "promote"}
  OBVIOUS
<1>6. \A i \in 1 .. Len(n) : Raises(n[i], T.loaded) =>
        s[1].do = "promote" /\ Cardinality(ReviewSeen(T.rows, row)) < MaxTier3
  BY <1>1 DEF RaisesWithRoom
<1>. HIDE DEF s, L, T
<1>7. /\ u \in Seq(AnyStep) /\ Replaced(s, n, u)
      /\ Len(s) \in Nat \ {0} /\ Len(n) \in Nat /\ Len(u) = Len(n) + Len(s) - 1
      /\ \A i \in 1 .. Len(n) : u[i] = n[i]
      /\ \A i \in Len(n) + 1 .. Len(u) : u[i] = s[i - Len(n) + 1]
  <2>1. Len(s) \in Nat \ {0} /\ Len(n) \in Nat
    BY <1>2, TailIs
  <2>. QED
    BY <1>2, <2>1, HeadReplaced DEF Replaced
<1>. HIDE DEF u
<1>8. r \in Seq(AnyStep) /\ \E k \in 0 .. Len(u) :
        Without(u, k, r) /\ \A i \in 1 .. k : Granted(L, u[i])
  BY <1>7, RestIs
<1>9. PICK k \in 0 .. Len(u) : Without(u, k, r) /\ \A i \in 1 .. k : Granted(L, u[i])
  BY <1>8
<1>. HIDE DEF r
<1>10. Advanced(u, r, L, k) /\ \A i \in 1 .. k : u[i].do # "load"
  BY <1>9 DEF Advanced, Granted
<1>11. Plan(w, r, L, DOMAIN T.rows)
  <2>1. Plan(w, u, L, DOMAIN T.rows)
    BY <1>1, <1>2, <1>3, <1>5, <1>7, PlanReplaced DEF t
  <2>. QED
    BY <1>7, <1>8, <1>10, <2>1, PlanAdvances
<1>12. ASSUME w \notin PollWorker, T.now # 0 PROVE AboutOne(w, r, L)
  <2>1. PICK a \in TokenId : About(w, a, s, L)
    BY <1>3, <1>12 DEF AboutOne
  <2>2. About(w, a, u, L)
    BY <1>1, <1>2, <1>5, <1>7, <2>1, AboutReplaced DEF t
  <2>3. About(w, a, r, L)
    BY <1>7, <1>8, <1>10, <2>2, AboutAdvances
  <2>. QED
    BY <2>3 DEF AboutOne
<1>13. \A i \in 1 .. Len(n) : n[i].do # "take" => n[i].token = t
  BY <1>1 DEF Follows
<1>. HIDE DEF t
<1>14. ASSUME NEW i \in 1 .. Len(u)
       PROVE  /\ StepKnown(w, u, i, L, T.loaded, T.saw, row)
              /\ StepForward(u[i], T.loaded, T.now)
  <2>1. CASE i \in 1 .. Len(n)
    <3>1. u[i] = n[i] /\ (n[i].do # "take" => n[i].token = t)
      BY <1>7, <1>13, <2>1
    <3>2. StepKnown(w, u, i, L, T.loaded, T.saw, row)
      BY <1>4, <3>1 DEF StepKnown
    <3>3. StepForward(n[i], T.loaded, T.now)
      BY <1>1, <2>1, <3>1 DEF StepForward, Decided
    <3>. QED
      BY <3>1, <3>2, <3>3
  <2>2. CASE i \in Len(n) + 1 .. Len(u)
    <3>. DEFINE j == i - Len(n) + 1
    <3>1. u[i] = s[j] /\ j \in 2 .. Len(s)
      <4>1. j \in 2 .. Len(s)
        BY <1>7, <2>2
      <4>. QED
        BY <1>7, <2>2, <4>1
    <3>2. StepKnown(w, s, j, L, T.loaded, T.saw, row) /\ StepForward(s[j], T.loaded, T.now)
      BY <1>3, <3>1
    <3>3. ASSUME LoadedBefore(s, j) PROVE LoadedBefore(u, i)
      <4>1. PICK m \in 1 .. j - 1 : s[m].do = "load" /\ s[m].token = s[j].token
        BY <3>3, Zenon DEF LoadedBefore
      <4>2. m # 1
        BY <1>5, <4>1
      <4>3. m + Len(n) - 1 \in 1 .. i - 1 /\ m + Len(n) - 1 \in Len(n) + 1 .. Len(u)
            /\ (m + Len(n) - 1) - Len(n) + 1 = m
        BY <1>7, <2>2, <3>1, <4>1, <4>2
      <4>4. u[m + Len(n) - 1] = s[m]
        BY <1>7, <4>3
      <4>. QED
        BY <3>1, <4>1, <4>3, <4>4 DEF LoadedBefore
    <3>. HIDE DEF j
    <3>. QED
      BY <3>1, <3>2, <3>3 DEF StepKnown
  <2>3. i \in 1 .. Len(n) \/ i \in Len(n) + 1 .. Len(u)
    BY <1>7
  <2>. QED
    BY <2>1, <2>2, <2>3
<1>15. Informed(w, r, L, T, row)
  <2>1. NoneLoads(u, k) /\ Informed(w, u, L, T, row)
    BY <1>10, <1>14 DEF NoneLoads, Informed
  <2>2. PICK M : M = L /\ L \subseteq M
    OBVIOUS
  <2>3. Informed(w, r, M, T, row)
    BY <1>7, <1>8, <1>9, <2>1, <2>2, DataAdvances
  <2>. QED
    BY <2>2, <2>3
<1>16. ReviewCounted(u, L, T.loaded, T.rows, row)
  <2>1. ASSUME NEW i \in 1 .. Len(u), Raises(u[i], T.loaded)
        PROVE  Holds(L, Tier3Budget, Alone) /\ Cardinality(ReviewSeen(T.rows, row)) < MaxTier3
    <3>1. CASE i \in 1 .. Len(n)
      BY <1>4, <1>6, <1>7, <2>1, <3>1
    <3>2. CASE i \in Len(n) + 1 .. Len(u)
      <4>1. u[i] = s[i - Len(n) + 1] /\ i - Len(n) + 1 \in 1 .. Len(s)
        BY <1>7, <3>2
      <4>. QED
        BY <1>3, <2>1, <4>1 DEF ReviewCounted
    <3>3. i \in 1 .. Len(n) \/ i \in Len(n) + 1 .. Len(u)
      BY <1>7
    <3>. QED
      BY <3>1, <3>2, <3>3
  <2>. QED
    BY <1>3, <2>1 DEF ReviewCounted
<1>17. ReviewCounted(r, L, T.loaded, T.rows, row)
  BY <1>7, <1>8, <1>9, <1>16, ReviewAdvances
<1>. QED
  BY <1>1, <1>3, <1>11, <1>12, <1>15, <1>17 DEF Sound, SameData, Informed, T

LEMMA LoadsSound ==
  ASSUME Types, NEW w \in Worker, Sound(w, txn[w], held[w], row), txn[w].todo # <<>>,
         txn[w].todo[1].do = "load", txn[w].todo[1].token \in TokenId, Loads(w)
  PROVE  Sound(w, txn'[w], held'[w], row)
<1>. DEFINE s == txn[w].todo
            L == held[w]
            T == txn[w]
            U == txn'[w]
            r == Rest(Tail(s), L)
            t == s[1].token
<1>1. /\ held'[w] = L /\ U.todo = r /\ U.now = T.now /\ U.rows = T.rows
      /\ DOMAIN U.loaded = DOMAIN T.loaded \cup {t} /\ DOMAIN U.saw = DOMAIN T.saw \cup {t}
      /\ U.loaded[t] = RowSeen(w, t)
      /\ \A u \in DOMAIN T.loaded : u # t => U.loaded[u] = T.loaded[u]
  BY DEF Loads
<1>2. s \in Seq(AnyStep) /\ L \in SUBSET Held /\ s # <<>> /\ 1 \in 1 .. Len(s) /\ s[1].do = "load"
      /\ t \in TokenId /\ Len(s) \in Nat
  BY HeadTyped DEF Types
<1>3. /\ Plan(w, s, L, DOMAIN T.rows) /\ (w \notin PollWorker /\ T.now # 0 => AboutOne(w, s, L))
      /\ WritesForward(w, T.rows, L, row) /\ ReviewCounted(s, L, T.loaded, T.rows, row)
      /\ \A i \in 1 .. Len(s) : /\ StepKnown(w, s, i, L, T.loaded, T.saw, row)
                                /\ StepForward(s[i], T.loaded, T.now)
  BY DEF Sound
<1>4. RowSeen(w, t) = IF t \in DOMAIN T.rows THEN T.rows[t] ELSE row[t]
  BY DEF RowSeen
<1>. HIDE DEF s, L, T, U
<1>5. r \in Seq(AnyStep) /\ \E k \in 1 .. Len(s) : Advanced(s, r, L, k)
  BY <1>2, HeadDone
<1>6. PICK k \in 1 .. Len(s) : Advanced(s, r, L, k)
  BY <1>5
<1>. HIDE DEF r
<1>7. Plan(w, r, L, DOMAIN T.rows)
  BY <1>2, <1>3, <1>5, <1>6, PlanAdvances
<1>8. ASSUME w \notin PollWorker, T.now # 0 PROVE AboutOne(w, r, L)
  <2>1. PICK a \in TokenId : About(w, a, s, L)
    BY <1>3, <1>8 DEF AboutOne
  <2>2. About(w, a, r, L)
    BY <1>2, <1>5, <1>6, <2>1, AboutAdvances
  <2>. QED
    BY <2>2 DEF AboutOne
<1>9. /\ t \notin DOMAIN T.rows
      /\ w \notin BoostWorker => Holds(L, OnToken(t), Alone)
  <2>1. EvaluatedOnce(s, DOMAIN T.rows) /\ LoadsLocked(w, s, L)
    BY <1>3 DEF Plan
  <2>2. t \notin DOMAIN T.rows
    BY <1>2, <2>1 DEF EvaluatedOnce
  <2>3. ~ TakenBefore(s, 1, OnToken(t), Alone)
    BY DEF TakenBefore
  <2>4. w \notin BoostWorker => Holds(L, OnToken(t), Alone)
    BY <1>2, <2>1, <2>3 DEF LoadsLocked
  <2>. QED
    BY <2>2, <2>4
<1>10. U.loaded[t] = row[t]
  BY <1>1, <1>4, <1>9
<1>11. /\ Len(r) = Len(s) - k /\ k \in 0 .. Len(s)
       /\ \A i \in 1 .. Len(r) : r[i] = s[i + k] /\ i + k \in 2 .. Len(s)
  BY <1>2, <1>6 DEF Advanced, Without
<1>12. \A i \in 1 .. Len(r) : r[i].do \notin {"promote", "write"}
  <2>. TAKE i \in 1 .. Len(r)
  <2>1. OneUnderWay(s)
    BY <1>3 DEF Plan
  <2>2. i + k \in 1 .. Len(s) /\ 1 < i + k /\ r[i] = s[i + k]
    BY <1>11
  <2>. QED
    BY <1>2, <2>1, <2>2 DEF OneUnderWay
<1>. HIDE DEF t
<1>13. ASSUME NEW i \in 1 .. Len(r)
       PROVE  StepKnown(w, r, i, L, U.loaded, U.saw, row)
  <2>. SUFFICES ASSUME r[i].do \in {"judge", "promote", "write"}
                PROVE  \/ LoadedBefore(r, i)
                       \/ /\ r[i].token \in DOMAIN U.loaded /\ r[i].token \in DOMAIN U.saw
                          /\ w \notin BoostWorker => /\ U.loaded[r[i].token] = row[r[i].token]
                                                    /\ Holds(L, OnToken(r[i].token), Alone)
    BY DEF StepKnown
  <2>1. i + k \in 1 .. Len(s) /\ r[i] = s[i + k]
    BY <1>11
  <2>2. CASE r[i].token = t
    BY <1>1, <1>9, <1>10, <2>2
  <2>3. CASE r[i].token # t
    <3>1. CASE LoadedBefore(s, i + k)
      <4>1. PICK j \in 1 .. (i + k) - 1 : s[j].do = "load" /\ s[j].token = s[i + k].token
        BY <3>1, Zenon DEF LoadedBefore
      <4>2. j # 1
        BY <2>1, <2>3, <4>1 DEF t
      <4>3. ~ (j <= k)
        <5>1. ASSUME j <= k PROVE FALSE
          <6>1. j \in 1 .. k
            BY <1>11, <4>1, <5>1
          <6>. QED
            BY <1>6, <4>1, <4>2, <6>1 DEF Advanced, Granted
        <5>. QED
          BY <5>1
      <4>4. j - k \in 1 .. i - 1 /\ j - k \in 1 .. Len(r) /\ (j - k) + k = j
        BY <1>11, <4>1, <4>3
      <4>5. r[j - k] = s[j]
        BY <1>11, <4>4
      <4>. QED
        BY <2>1, <4>1, <4>4, <4>5 DEF LoadedBefore
    <3>2. CASE ~ LoadedBefore(s, i + k)
      <4>1. StepKnown(w, s, i + k, L, T.loaded, T.saw, row)
        BY <1>3, <2>1
      <4>2. /\ r[i].token \in DOMAIN T.loaded /\ r[i].token \in DOMAIN T.saw
            /\ w \notin BoostWorker => /\ T.loaded[r[i].token] = row[r[i].token]
                                      /\ Holds(L, OnToken(r[i].token), Alone)
        BY <2>1, <3>2, <4>1 DEF StepKnown
      <4>. QED
        BY <1>1, <2>3, <4>2 DEF t
    <3>. QED
      BY <3>1, <3>2
  <2>. QED
    BY <2>2, <2>3
<1>14. \A i \in 1 .. Len(r) : StepForward(r[i], U.loaded, U.now)
  BY <1>12 DEF StepForward
<1>15. ReviewCounted(r, L, U.loaded, U.rows, row)
  <2>1. \A i \in 1 .. Len(r) : ~ Raises(r[i], U.loaded)
    BY <1>12 DEF Raises
  <2>. QED
    BY <1>1, <1>3, <2>1 DEF ReviewCounted
<1>16. Sound(w, U, L, row)
  BY <1>1, <1>3, <1>7, <1>8, <1>13, <1>14, <1>15 DEF Sound
<1>. QED
  BY <1>1, <1>16 DEF U

LEMMA EndsSound ==
  ASSUME Types, NEW w \in Worker, Sound(w, txn[w], held[w], row), txn[w].todo # <<>>,
         txn[w].todo[1].do = "load", Ends(w)
  PROVE  Sound(w, txn'[w], held'[w], row)
<1>. DEFINE s == txn[w].todo
            L == held[w]
            T == txn[w]
            U == txn'[w]
            none == <<>>
<1>1. /\ held'[w] = L /\ U.todo = none /\ U.now = T.now /\ U.loaded = T.loaded /\ U.saw = T.saw
      /\ U.rows = T.rows /\ w \notin PollWorker
  BY DEF Ends, SameData
<1>2. s \in Seq(AnyStep) /\ s # <<>> /\ 1 \in 1 .. Len(s) /\ s[1].do = "load" /\ Len(s) \in Nat
  BY HeadTyped
<1>3. /\ Plan(w, s, L, DOMAIN T.rows) /\ (T.now # 0 => AboutOne(w, s, L))
      /\ WritesForward(w, T.rows, L, row) /\ ReviewCounted(s, L, T.loaded, T.rows, row)
  BY <1>1 DEF Sound
<1>. HIDE DEF s, L, T, U
<1>4. Plan(w, none, L, DOMAIN T.rows)
  BY <1>2, <1>3, PlanEnds
<1>5. Len(none) = 0 /\ 1 .. 0 = {}
  OBVIOUS
<1>. HIDE DEF none
<1>6. ASSUME T.now # 0 PROVE AboutOne(w, none, L)
  <2>1. PICK t \in TokenId : About(w, t, s, L)
    BY <1>3, <1>6 DEF AboutOne
  <2>2. Ranked(s, L)
    BY <1>1, <1>3 DEF Plan
  <2>3. \A i \in 1 .. Len(s) : i = 1 \/ 4 < StepRank(s[i])
    <3>1. StepRank(s[1]) = 4
      BY <1>2 DEF StepRank
    <3>2. \A i \in 1 .. Len(s) : 1 < i => StepRank(s[1]) < StepRank(s[i])
      BY <1>2, <2>2 DEF Ranked
    <3>. QED
      BY <3>1, <3>2
  <2>4. ASSUME NEW i \in 1 .. Len(s)
        PROVE  /\ ~ Takes(s[i], OnToken(t), {"key share"}) /\ ~ Takes(s[i], OnToken(t), {"update"})
               /\ ~ Takes(s[i], Wakeups, {"exclusive"})
    <3>1. CASE i = 1
      BY <1>2, <3>1 DEF Takes
    <3>2. CASE 4 < StepRank(s[i])
      <4>1. LockRank(OnToken(t), "key share") = 2 /\ LockRank(OnToken(t), "update") = 2
            /\ LockRank(Wakeups, "exclusive") = 3
        BY DEF LockRank, OnToken, Wakeups
      <4>2. ASSUME NEW lock, NEW mode, Takes(s[i], lock, {mode}), LockRank(lock, mode) \in {2, 3}
            PROVE  FALSE
        <5>1. s[i].do = "take" /\ s[i].lock = lock /\ s[i].mode = mode
          BY <4>2 DEF Takes
        <5>2. StepRank(s[i]) = LockRank(lock, mode)
          BY <5>1 DEF StepRank
        <5>. QED
          BY <3>2, <4>2, <5>2
      <4>. QED
        BY <4>1, <4>2
    <3>. QED
      BY <2>3, <3>1, <3>2
  <2>5. About(w, t, none, L)
    <3>1. \A h \in L : h.lock \in LocksOf(t)
      BY <2>1 DEF About
    <3>2. CASE w \in BoostWorker
      <4>1. /\ HasOrTakes(none, L, OnToken(t), "key share")
            /\ HasOrTakes(none, L, Wakeups, "exclusive")
            /\ ~ Holds(L, Gate, Mode)
        BY <2>1, <2>4, <3>2 DEF About, HasOrTakes
      <4>. QED
        BY <1>5, <3>1, <3>2, <4>1 DEF About
    <3>3. CASE w \notin BoostWorker
      <4>1. HasOrTakes(none, L, OnToken(t), "update")
        BY <2>1, <2>4, <3>3 DEF About, HasOrTakes
      <4>. QED
        BY <1>5, <3>1, <3>3, <4>1 DEF About
    <3>. QED
      BY <3>2, <3>3
  <2>. QED
    BY <2>5 DEF AboutOne
<1>7. ReviewCounted(none, L, T.loaded, T.rows, row)
  BY <1>3, <1>5 DEF ReviewCounted
<1>8. Sound(w, U, L, row)
  BY <1>1, <1>3, <1>4, <1>5, <1>6, <1>7 DEF Sound
<1>. QED
  BY <1>1, <1>8 DEF U

LEMMA RetreatsSound ==
  ASSUME Types, NEW w \in Worker, Sound(w, txn[w], held[w], row), txn[w].todo # <<>>,
         Cardinality(InReview(row)) <= MaxTier3, Retreats(w)
  PROVE  Sound(w, txn'[w], held'[w], row)
<1>. DEFINE s == txn[w].todo
            L == held[w]
            M == {h \in L : h.level < s[1].level}
            r == Rest(Outside(s), M)
            U == txn'[w]
<1>1. /\ held'[w] = M /\ U.todo = r /\ U.rows = NoRows /\ s[1].level # 0
  BY DEF Retreats
<1>2. s \in Seq(AnyStep) /\ L \in SUBSET Held /\ s # <<>>
  BY HeadTyped DEF Types
<1>3. Plan(w, s, L, DOMAIN txn[w].rows)
  BY DEF Sound
<1>. HIDE DEF s, L, U
<1>4. /\ r \in Seq(AnyStep) /\ Plan(w, r, M, {}) /\ w \in PollWorker
      /\ \A i \in 1 .. Len(r) : r[i].do = "take"
  BY <1>1, <1>2, <1>3, PlanLost
<1>. HIDE DEF r, M
<1>5. DOMAIN NoRows = {}
  BY NothingIsTyped
<1>6. WritesForward(w, NoRows, M, row)
  BY <1>5 DEF WritesForward
<1>7. ReviewSeen(NoRows, row) = InReview(row)
  BY <1>5 DEF ReviewSeen, InReview
<1>8. ReviewCounted(r, M, U.loaded, NoRows, row)
  BY <1>4, <1>7 DEF ReviewCounted, Raises
<1>9. \A i \in 1 .. Len(r) : /\ StepKnown(w, r, i, M, U.loaded, U.saw, row)
                             /\ StepForward(r[i], U.loaded, U.now)
  BY <1>4 DEF StepKnown, StepForward
<1>10. Sound(w, U, M, row)
  BY <1>1, <1>4, <1>5, <1>6, <1>8, <1>9 DEF Sound
<1>. QED
  BY <1>1, <1>10 DEF U

LEMMA RestingSound ==
  ASSUME NEW w \in Worker, NEW current
  PROVE  Sound(w, NoTransaction, {}, current)
<1>. DEFINE none == <<>>
<1>1. /\ NoTransaction.todo = none /\ NoTransaction.rows = NoRows /\ DOMAIN NoRows = {}
      /\ NoTransaction.now = 0
  BY NothingIsTyped
<1>2. Len(none) = 0 /\ 1 .. 0 = {}
  OBVIOUS
<1>3. Plan(w, none, {}, {})
  <2>1. GateFirst(w, none, {})
    BY DEF GateFirst
  <2>. HIDE DEF none
  <2>. QED
    BY <1>2, <2>1
       DEF Plan, StepsGuarded, EvaluatedOnce, OneUnderWay, LoadsLocked, Savepoints, Ranked
<1>. HIDE DEF none
<1>4. WritesForward(w, NoRows, {}, current)
  BY <1>1 DEF WritesForward
<1>5. ReviewCounted(none, {}, NoTransaction.loaded, NoRows, current)
  BY <1>1, <1>2 DEF ReviewCounted, Holds, ReviewSeen, InReview
<1>. QED
  BY <1>1, <1>2, <1>3, <1>4, <1>5 DEF Sound

\* Deep review after the write of the first step: it was counted, or adds no token.
LEMMA ReviewWritten ==
  ASSUME NEW t \in TokenId, NEW rows, NEW new, NEW current, DOMAIN new = DOMAIN rows \cup {t},
         \A u \in DOMAIN rows : u # t => new[u] = rows[u], t \notin DOMAIN rows
  PROVE  /\ ReviewSeen(new, current) \subseteq ReviewSeen(rows, current) \cup {t}
         /\ (new[t].tier = 3 => current[t].tier = 3) =>
              ReviewSeen(new, current) \subseteq ReviewSeen(rows, current)
BY DEF ReviewSeen

LEMMA ReviewIsFinite ==
  ASSUME NEW rows, NEW current
  PROVE  /\ IsFiniteSet(ReviewSeen(rows, current)) /\ Cardinality(ReviewSeen(rows, current)) \in Nat
         /\ IsFiniteSet(InReview(current)) /\ Cardinality(InReview(current)) \in Nat
BY TokensAreFinite DEF ReviewSeen, InReview

LEMMA WritesSound ==
  ASSUME Types, NEW w \in Worker, Sound(w, txn[w], held[w], row), txn[w].todo # <<>>,
         txn[w].todo[1].do = "write", Writes(w)
  PROVE  Sound(w, txn'[w], held'[w], row)
<1>. DEFINE s == txn[w].todo
            L == held[w]
            T == txn[w]
            U == txn'[w]
            r == Rest(Tail(s), L)
            t == s[1].token
<1>1. /\ held'[w] = L /\ U.todo = r /\ U.now = T.now /\ U.loaded = T.loaded /\ U.saw = T.saw
      /\ DOMAIN U.rows = DOMAIN T.rows \cup {t}
      /\ \A u \in DOMAIN T.rows : u # t => U.rows[u] = T.rows[u]
      /\ T.loaded[t] = row[t] => U.rows[t].tier = s[1].target /\ U.rows[t].watermark = T.now
      /\ U.rows[t].tier = 3 => row[t].tier = 3 \/ Raises(s[1], T.loaded)
  BY DEF Writes
<1>2. s \in Seq(AnyStep) /\ L \in SUBSET Held /\ s # <<>> /\ 1 \in 1 .. Len(s) /\ s[1].do = "write"
      /\ Len(s) \in Nat
  BY HeadTyped DEF Types
<1>3. /\ Plan(w, s, L, DOMAIN T.rows) /\ (w \notin PollWorker /\ T.now # 0 => AboutOne(w, s, L))
      /\ WritesForward(w, T.rows, L, row) /\ ReviewCounted(s, L, T.loaded, T.rows, row)
      /\ \A i \in 1 .. Len(s) : /\ StepKnown(w, s, i, L, T.loaded, T.saw, row)
                                /\ StepForward(s[i], T.loaded, T.now)
  BY DEF Sound
<1>4. /\ t \in TokenId /\ t \notin DOMAIN T.rows /\ Holds(L, OnToken(t), Alone)
      /\ w \notin BoostWorker => T.loaded[t] = row[t]
      /\ StepForward(s[1], T.loaded, T.now)
  BY HeadKnown
<1>5. T.now \in Nat /\ row[t] \in Row /\ s[1].target \in 0 .. 3
  <2>1. s[1] \in AnyStep /\ T \in Transaction /\ row \in [TokenId -> Row]
    BY HeadTyped DEF Types
  <2>. HIDE DEF s, T
  <2>. QED
    BY <1>4, <2>1 DEF Transaction, AnyStep
<1>. HIDE DEF s, L, T, U
<1>6. r \in Seq(AnyStep) /\ \E k \in 1 .. Len(s) : Advanced(s, r, L, k)
  BY <1>2, HeadDone
<1>7. PICK k \in 1 .. Len(s) : Advanced(s, r, L, k)
  BY <1>6
<1>. HIDE DEF r
<1>8. Plan(w, r, L, DOMAIN U.rows)
  BY <1>1, <1>2, <1>3, <1>6, <1>7, PlanWrites
<1>9. ASSUME w \notin PollWorker, T.now # 0 PROVE AboutOne(w, r, L)
  <2>1. PICK a \in TokenId : About(w, a, s, L)
    BY <1>3, <1>9 DEF AboutOne
  <2>2. About(w, a, r, L)
    BY <1>2, <1>6, <1>7, <2>1, AboutAdvances
  <2>. QED
    BY <2>2 DEF AboutOne
<1>10. ASSUME w \notin BoostWorker PROVE ~ Regresses(row[t], U.rows[t])
  <2>1. U.rows[t].tier = s[1].target /\ U.rows[t].watermark = T.now /\ T.loaded[t] = row[t]
    BY <1>1, <1>4, <1>10
  <2>2. Forward(row[t], T.now, s[1].target)
    BY <1>2, <1>4, <2>1 DEF StepForward
  <2>3. row[t].watermark \in Nat /\ row[t].tier \in Nat
    BY <1>5 DEF Row
  <2>. QED
    BY <1>5, <2>1, <2>2, <2>3 DEF Forward, Regresses
<1>11. WritesForward(w, U.rows, L, row)
  BY <1>1, <1>3, <1>4, <1>10 DEF WritesForward
<1>12. Informed(w, r, L, U, row)
  <2>1. NoneLoads(s, k) /\ Without(s, k, r)
    BY <1>2, <1>7 DEF NoneLoads, Advanced, Granted
  <2>2. Informed(w, s, L, U, row)
    BY <1>1, <1>3 DEF Informed
  <2>3. PICK M : M = L /\ L \subseteq M
    OBVIOUS
  <2>4. Informed(w, r, M, U, row)
    BY <1>2, <1>6, <2>1, <2>2, <2>3, DataAdvances
  <2>. QED
    BY <2>3, <2>4
<1>13. \A i \in 1 .. Len(r) : r[i].do # "write"
  <2>. TAKE i \in 1 .. Len(r)
  <2>1. OneUnderWay(s)
    BY <1>3 DEF Plan
  <2>2. i + k \in 1 .. Len(s) /\ 1 < i + k /\ r[i] = s[i + k]
    BY <1>2, <1>7 DEF Advanced, Without
  <2>. QED
    BY <1>2, <2>1, <2>2 DEF OneUnderWay
<1>14. ReviewCounted(r, L, U.loaded, U.rows, row)
  <2>. DEFINE A == ReviewSeen(T.rows, row)
              B == ReviewSeen(U.rows, row)
  <2>1. \A i \in 1 .. Len(r) : ~ Raises(r[i], U.loaded)
    BY <1>13 DEF Raises
  <2>2. /\ B \subseteq A \cup {t}
        /\ (U.rows[t].tier = 3 => row[t].tier = 3) => B \subseteq A
    BY <1>1, <1>4, ReviewWritten
  <2>3. IsFiniteSet(A) /\ Cardinality(A) \in Nat /\ Cardinality(B) \in Nat
    BY ReviewIsFinite
  <2>4. /\ IF Holds(L, Tier3Budget, Alone)
           THEN Cardinality(A) <= MaxTier3
           ELSE A \subseteq InReview(row)
        /\ Raises(s[1], T.loaded) => Holds(L, Tier3Budget, Alone) /\ Cardinality(A) < MaxTier3
    BY <1>2, <1>3 DEF ReviewCounted
  <2>. HIDE DEF A, B
  <2>5. CASE Raises(s[1], T.loaded)
    <3>1. IsFiniteSet(A \cup {t}) /\ Cardinality(A \cup {t}) <= Cardinality(A) + 1
          /\ Cardinality(A \cup {t}) \in Nat
      <4>1. IsFiniteSet(A \cup {t}) /\
            Cardinality(A \cup {t}) = IF t \in A THEN Cardinality(A) ELSE Cardinality(A) + 1
        BY <2>3, FS_AddElement
      <4>. QED
        BY <2>3, <4>1
    <3>2. Cardinality(B) <= Cardinality(A \cup {t})
      BY <2>2, <3>1, FS_Subset
    <3>3. Cardinality(B) <= MaxTier3
      BY <2>3, <2>4, <2>5, <3>1, <3>2, EvaluationAssumption
    <3>. QED
      BY <2>1, <2>4, <2>5, <3>3 DEF ReviewCounted, B
  <2>6. CASE ~ Raises(s[1], T.loaded)
    <3>1. B \subseteq A
      BY <1>1, <2>2, <2>6
    <3>2. Cardinality(B) <= Cardinality(A)
      BY <2>3, <3>1, FS_Subset
    <3>3. Cardinality(A) <= MaxTier3 => Cardinality(B) <= MaxTier3
      BY <2>3, <3>2, EvaluationAssumption
    <3>. QED
      BY <2>1, <2>4, <3>1, <3>3 DEF ReviewCounted, B
  <2>. QED
    BY <2>5, <2>6
<1>15. Sound(w, U, L, row)
  BY <1>1, <1>3, <1>8, <1>9, <1>11, <1>12, <1>14 DEF Sound, Informed
<1>. QED
  BY <1>1, <1>15 DEF U

-----------------------------------------------------------------------------
(* A commit leaves the transactions of the others sound.                   *)

LEMMA AloneExcludes ==
  ASSUME LocksExclude, NEW v \in Worker, NEW w \in Worker, v # w, NEW lock,
         Holds(held[v], lock, Alone), Holds(held[w], lock, Alone)
  PROVE  FALSE
<1>1. PICK g \in held[v] : g.lock = lock /\ g.mode \in Alone
  BY DEF Holds
<1>2. PICK h \in held[w] : h.lock = lock /\ h.mode \in Alone
  BY DEF Holds
<1>3. Compatible(g.mode, h.mode)
  BY <1>1, <1>2 DEF LocksExclude
<1>. QED
  BY <1>1, <1>2, <1>3 DEF Compatible, Alone

\* What a commit of w puts into deep review was counted, if w holds the budget.
LEMMA CommittedReview ==
  ASSUME Types, NEW w \in Worker, Sound(w, txn[w], held[w], row),
         \A t \in TokenId : row'[t] = RowSeen(w, t)
  PROVE  /\ InReview(row') = ReviewSeen(txn[w].rows, row)
         /\ Holds(held[w], Tier3Budget, Alone) => Cardinality(InReview(row')) <= MaxTier3
         /\ ~ Holds(held[w], Tier3Budget, Alone) => InReview(row') \subseteq InReview(row)
<1>1. InReview(row') = ReviewSeen(txn[w].rows, row)
  BY DEF InReview, ReviewSeen, RowSeen
<1>. QED
  BY <1>1 DEF Sound, ReviewCounted

LEMMA OthersSound ==
  ASSUME Types, LocksExclude, NEW w \in Worker, NEW v \in Worker \ {w},
         Sound(w, txn[w], held[w], row), Sound(v, txn[v], held[v], row),
         \A t \in TokenId : row'[t] = RowSeen(w, t)
  PROVE  Sound(v, txn[v], held[v], row')
<1>. DEFINE L == held[v]
            T == txn[v]
            A == ReviewSeen(T.rows, row)
            B == ReviewSeen(T.rows, row')
<1>1. ASSUME NEW t \in TokenId, Holds(L, OnToken(t), Alone) PROVE row'[t] = row[t]
  <2>1. t \in DOMAIN txn[w].rows => Holds(held[w], OnToken(t), Alone)
    BY DEF Sound, WritesForward
  <2>2. t \notin DOMAIN txn[w].rows
    BY <1>1, <2>1, AloneExcludes
  <2>. QED
    BY <2>2 DEF RowSeen
<1>2. T.rows \in PartialRows /\ T.todo \in Seq(AnyStep)
      /\ \A i \in 1 .. Len(T.todo) : WellFormed(T.todo[i])
  BY DEF Types, Transaction
<1>3. DOMAIN T.rows \subseteq TokenId
  BY <1>2 DEF PartialRows
<1>4. WritesForward(v, T.rows, L, row')
  BY <1>1, <1>3 DEF Sound, WritesForward
<1>5. ASSUME NEW i \in 1 .. Len(T.todo)
      PROVE  StepKnown(v, T.todo, i, L, T.loaded, T.saw, row')
  <2>1. StepKnown(v, T.todo, i, L, T.loaded, T.saw, row)
    BY DEF Sound
  <2>2. T.todo[i].do \in {"judge", "promote", "write"} => T.todo[i].token \in TokenId
    BY <1>2 DEF WellFormed
  <2>. QED
    BY <1>1, <2>1, <2>2 DEF StepKnown
<1>6. ReviewCounted(T.todo, L, T.loaded, T.rows, row)
  BY DEF Sound
<1>7. ReviewCounted(T.todo, L, T.loaded, T.rows, row')
  <2>1. CASE Holds(L, Tier3Budget, Alone)
    <3>1. ~ Holds(held[w], Tier3Budget, Alone)
      BY <2>1, AloneExcludes
    <3>2. InReview(row') \subseteq InReview(row)
      BY <3>1, CommittedReview
    <3>3. B \subseteq A
      BY <3>2 DEF ReviewSeen, InReview
    <3>4. IsFiniteSet(A) /\ Cardinality(A) \in Nat /\ Cardinality(B) \in Nat
      BY ReviewIsFinite
    <3>5. Cardinality(B) <= Cardinality(A)
      BY <3>3, <3>4, FS_Subset
    <3>6. /\ Cardinality(A) <= MaxTier3 => Cardinality(B) <= MaxTier3
          /\ Cardinality(A) < MaxTier3 => Cardinality(B) < MaxTier3
      BY <3>4, <3>5, EvaluationAssumption
    <3>. QED
      BY <1>6, <2>1, <3>6 DEF ReviewCounted
  <2>2. CASE ~ Holds(L, Tier3Budget, Alone)
    <3>1. A \subseteq InReview(row)
      BY <1>6, <2>2 DEF ReviewCounted
    <3>2. ASSUME NEW t \in B PROVE t \in InReview(row')
      <4>1. t \in TokenId
        BY DEF ReviewSeen
      <4>2. CASE t \in DOMAIN T.rows
        <5>1. row'[t] = row[t]
          BY <1>1, <4>1, <4>2 DEF Sound, WritesForward
        <5>2. t \in A
          BY <3>2, <4>1, <4>2 DEF ReviewSeen
        <5>. QED
          BY <3>1, <5>1, <5>2 DEF InReview
      <4>3. CASE t \notin DOMAIN T.rows
        BY <3>2, <4>1, <4>3 DEF ReviewSeen, InReview
      <4>. QED
        BY <4>2, <4>3
    <3>3. \A i \in 1 .. Len(T.todo) : ~ Raises(T.todo[i], T.loaded)
      BY <1>6, <2>2 DEF ReviewCounted
    <3>. QED
      BY <2>2, <3>2, <3>3 DEF ReviewCounted
  <2>. QED
    BY <2>1, <2>2
<1>. QED
  BY <1>4, <1>5, <1>7 DEF Sound

-----------------------------------------------------------------------------
(* The plans transactions begin with.                                      *)

\* The tokens in their order: every one, once.
LEMMA OrderedTokens ==
  ASSUME NEW tokens \in SUBSET TokenId
  PROVE  /\ Cardinality(tokens) \in Nat
         /\ \A i \in 1 .. Cardinality(tokens) : Ordered(tokens)[i] \in tokens
         /\ \A i, j \in 1 .. Cardinality(tokens) :
              Ordered(tokens)[i] = Ordered(tokens)[j] => i = j
<1>. DEFINE n == Cardinality(tokens)
            Below(t) == {u \in tokens : u < t}
            f == [t \in tokens |-> Cardinality(Below(t))]
            S == 0 .. n - 1
<1>1. IsFiniteSet(tokens) /\ n \in Nat /\ tokens \subseteq Nat
  BY TokensAreFinite, EvaluationAssumption DEF TokenId
<1>2. \A t \in tokens : IsFiniteSet(Below(t)) /\ Cardinality(Below(t)) \in Nat
  BY TokensAreFinite DEF TokenId
<1>2a. \A t, u : u \in Below(t) <=> u \in tokens /\ u < t
  OBVIOUS
<1>2b. \A t \in tokens : t \in Nat
  BY <1>1
<1>. HIDE DEF Below
<1>3. ASSUME NEW t \in tokens, NEW u \in tokens, t < u
      PROVE  Cardinality(Below(t)) < Cardinality(Below(u))
  <2>1. Below(t) \cup {t} \subseteq Below(u) /\ t \notin Below(t)
    BY <1>2a, <1>2b, <1>3
  <2>2. /\ IsFiniteSet(Below(t) \cup {t})
        /\ Cardinality(Below(t) \cup {t}) = Cardinality(Below(t)) + 1
    BY <1>2, <2>1, FS_AddElement
  <2>3. Cardinality(Below(t) \cup {t}) <= Cardinality(Below(u))
    BY <1>2, <2>1, FS_Subset
  <2>4. Cardinality(Below(t)) \in Nat /\ Cardinality(Below(u)) \in Nat
    BY <1>2
  <2>. QED
    BY <2>2, <2>3, <2>4
<1>4. ASSUME NEW t \in tokens PROVE Cardinality(Below(t)) \in S
  <2>1. Below(t) \subseteq tokens \ {t}
    BY <1>2a, <1>2b
  <2>2. IsFiniteSet(tokens \ {t}) /\ Cardinality(tokens \ {t}) = n - 1
    BY <1>1, FS_RemoveElement
  <2>3. Cardinality(Below(t)) <= n - 1
    BY <2>1, <2>2, FS_Subset
  <2>. QED
    BY <1>1, <1>2, <2>3
<1>5. f \in [tokens -> S]
  BY <1>4
<1>6. \A t, u \in tokens : f[t] = f[u] => t = u
  <2>. SUFFICES ASSUME NEW t \in tokens, NEW u \in tokens, f[t] = f[u], t # u PROVE FALSE
    OBVIOUS
  <2>1. t < u \/ u < t
    BY <1>1
  <2>. QED
    BY <1>2, <1>3, <2>1
<1>. HIDE DEF f
<1>7. f \in Injection(tokens, S)
  BY <1>5, <1>6 DEF Injection, IsInjective
<1>8. IsFiniteSet(S) /\ Cardinality(S) = n
  <2>1. 0 \in Int /\ n - 1 \in Int
    BY <1>1
  <2>2. IsFiniteSet(S) /\ Cardinality(S) = IF 0 > n - 1 THEN 0 ELSE (n - 1) - 0 + 1
    BY <2>1, FS_Interval
  <2>. QED
    BY <1>1, <2>2
<1>. HIDE DEF S
<1>9. f \in Surjection(tokens, S)
  BY <1>7, <1>8, FS_Injection
<1>10. ASSUME NEW i \in 1 .. n
       PROVE  /\ Ordered(tokens)[i] \in tokens
              /\ Cardinality(Below(Ordered(tokens)[i])) = i - 1
  <2>1. i - 1 \in S
    BY <1>1 DEF S
  <2>2. PICK t \in tokens : f[t] = i - 1
    BY <1>9, <2>1 DEF Surjection
  <2>3. Cardinality(Below(t)) = i - 1
    BY <2>2 DEF f
  <2>4. Ordered(tokens)[i] = CHOOSE u \in tokens : Cardinality(Below(u)) = i - 1
    BY DEF Ordered, Below
  <2>. QED
    BY <2>3, <2>4
<1>. QED
  BY <1>1, <1>10

LEMMA ByTwo ==
  ASSUME NEW k \in Nat, NEW i \in 1 .. 2 * k
  PROVE  \E q \in 1 .. k :
           \/ i = 2 * q - 1 /\ 1 + (i - 1) \div 2 = q /\ 1 + ((i - 1) % 2) = 1
           \/ i = 2 * q /\ 1 + (i - 1) \div 2 = q /\ 1 + ((i - 1) % 2) = 2
<1>. DEFINE q == 1 + (i - 1) \div 2
<1>1. q \in 1 .. k
  OBVIOUS
<1>2. (i = 2 * q - 1 /\ (i - 1) % 2 = 0) \/ (i = 2 * q /\ (i - 1) % 2 = 1)
  OBVIOUS
<1>. QED
  BY <1>1, <1>2

LEMMA ByThree ==
  ASSUME NEW k \in Nat, NEW i \in 1 .. 3 * k
  PROVE  \E q \in 1 .. k :
           \/ i = 3 * q - 2 /\ 1 + (i - 1) \div 3 = q /\ 1 + ((i - 1) % 3) = 1
           \/ i = 3 * q - 1 /\ 1 + (i - 1) \div 3 = q /\ 1 + ((i - 1) % 3) = 2
           \/ i = 3 * q /\ 1 + (i - 1) \div 3 = q /\ 1 + ((i - 1) % 3) = 3
<1>. DEFINE q == 1 + (i - 1) \div 3
<1>1. q \in 1 .. k
  OBVIOUS
<1>2. \/ i = 3 * q - 2 /\ (i - 1) % 3 = 0
      \/ i = 3 * q - 1 /\ (i - 1) % 3 = 1
      \/ i = 3 * q /\ (i - 1) % 3 = 2
  OBVIOUS
<1>. QED
  BY <1>1, <1>2

LEMMA TakesOfTokens ==
  \A t \in TokenId, level \in Level :
    /\ Take(OnToken(t), "no key update", level) \in AnyStep
    /\ Take(OnSchedule(t), "update", level) \in AnyStep
    /\ Step("load", t, level) \in AnyStep /\ Step("judge", t, level) \in AnyStep
<1>. TAKE t \in TokenId, level \in Level
<1>1. OnToken(t) \in LockKind /\ OnSchedule(t) \in LockKind
  BY LocksAreTyped
<1>2. "no key update" \in Mode /\ "update" \in Mode
  BY ModesAre
<1>3. level \in 0 .. 2
  BY DEF Level
<1>. QED
  BY <1>1, <1>2, <1>3, StepsAreTyped

LifecycleList(selected) == InOrder(selected, 2, Lifecycle)
CandidateList(selected) == InOrder(selected, 3, Candidate)
CompletionList(batch) == InOrder(batch, 1, Completion)

\* The steps of a list, for the tokens o[1], .., o[k].
LifecycleAt(s, k, o) ==
  \A q \in 1 .. k : /\ s[2 * q - 1] = Take(OnToken(o[q]), "no key update", 1)
                    /\ s[2 * q] = Take(OnSchedule(o[q]), "update", 1)
CandidateAt(s, k, o) ==
  \A q \in 1 .. k : /\ s[3 * q - 2] = Step("load", o[q], 2)
                    /\ s[3 * q - 1] = Take(OnToken(o[q]), "no key update", 2)
                    /\ s[3 * q] = Step("judge", o[q], 2)

LEMMA LifecycleSteps ==
  ASSUME NEW selected \in SUBSET TokenId, NEW k, k = Cardinality(selected), NEW s,
         s = LifecycleList(selected)
  PROVE  /\ s \in Seq(AnyStep) /\ Len(s) = 2 * k
         /\ LifecycleAt(s, k, Ordered(selected))
<1>1. k \in Nat /\ \A q \in 1 .. k : Ordered(selected)[q] \in TokenId
  BY OrderedTokens
<1>. DEFINE E(i) == Lifecycle(Ordered(selected)[1 + (i - 1) \div 2])[1 + ((i - 1) % 2)]
<1>2. s = [i \in 1 .. 2 * k |-> E(i)]
  BY DEF InOrder, LifecycleList, CandidateList, CompletionList
<1>3. \A t : Lifecycle(t)[1] = Take(OnToken(t), "no key update", 1)
             /\ Lifecycle(t)[2] = Take(OnSchedule(t), "update", 1)
  BY DEF Lifecycle
<1>4. ASSUME NEW t \in TokenId
      PROVE  /\ Take(OnToken(t), "no key update", 1) \in AnyStep
             /\ Take(OnSchedule(t), "update", 1) \in AnyStep
  <2>1. PICK level \in Level : level = 1
    BY DEF Level
  <2>2. /\ Take(OnToken(t), "no key update", level) \in AnyStep
        /\ Take(OnSchedule(t), "update", level) \in AnyStep
    BY TakesOfTokens
  <2>. QED
    BY <2>1, <2>2
<1>5. ASSUME NEW q \in 1 .. k
      PROVE  LET o == Ordered(selected)[q]
             IN  /\ E(2 * q - 1) = Take(OnToken(o), "no key update", 1)
                 /\ E(2 * q) = Take(OnSchedule(o), "update", 1)
  <2>1. /\ 1 + ((2 * q - 1) - 1) \div 2 = q /\ 1 + (((2 * q - 1) - 1) % 2) = 1
        /\ 1 + ((2 * q) - 1) \div 2 = q /\ 1 + (((2 * q) - 1) % 2) = 2
    BY <1>1
  <2>. QED
    BY <1>3, <2>1
<1>6. ASSUME NEW i \in 1 .. 2 * k PROVE E(i) \in AnyStep
  <2>1. PICK q \in 1 .. k : i = 2 * q - 1 \/ i = 2 * q
    BY <1>1, ByTwo
  <2>2. Ordered(selected)[q] \in TokenId
    BY <1>1
  <2>. HIDE DEF E
  <2>. QED
    BY <1>4, <1>5, <2>1, <2>2
<1>7. ASSUME NEW q \in 1 .. k PROVE 2 * q - 1 \in 1 .. 2 * k /\ 2 * q \in 1 .. 2 * k
  BY <1>1
<1>. HIDE DEF E
<1>8. s \in [1 .. 2 * k -> AnyStep] /\ 2 * k \in Nat
  BY <1>1, <1>2, <1>6
<1>9. s \in Seq(AnyStep) /\ Len(s) = 2 * k
  BY <1>8
<1>. QED
  BY <1>2, <1>5, <1>7, <1>9 DEF LifecycleAt

LEMMA CandidateSteps ==
  ASSUME NEW selected \in SUBSET TokenId, NEW k, k = Cardinality(selected), NEW s,
         s = CandidateList(selected)
  PROVE  /\ s \in Seq(AnyStep) /\ Len(s) = 3 * k
         /\ CandidateAt(s, k, Ordered(selected))
<1>1. k \in Nat /\ \A q \in 1 .. k : Ordered(selected)[q] \in TokenId
  BY OrderedTokens
<1>. DEFINE E(i) == Candidate(Ordered(selected)[1 + (i - 1) \div 3])[1 + ((i - 1) % 3)]
<1>2. s = [i \in 1 .. 3 * k |-> E(i)]
  BY DEF InOrder, LifecycleList, CandidateList, CompletionList
<1>3. \A t : /\ Candidate(t)[1] = Step("load", t, 2)
             /\ Candidate(t)[2] = Take(OnToken(t), "no key update", 2)
             /\ Candidate(t)[3] = Step("judge", t, 2)
  BY DEF Candidate, Evaluation
<1>4. ASSUME NEW t \in TokenId
      PROVE  /\ Step("load", t, 2) \in AnyStep /\ Step("judge", t, 2) \in AnyStep
             /\ Take(OnToken(t), "no key update", 2) \in AnyStep
  <2>1. PICK level \in Level : level = 2
    BY DEF Level
  <2>2. /\ Step("load", t, level) \in AnyStep /\ Step("judge", t, level) \in AnyStep
        /\ Take(OnToken(t), "no key update", level) \in AnyStep
    BY TakesOfTokens
  <2>. QED
    BY <2>1, <2>2
<1>5. ASSUME NEW q \in 1 .. k
      PROVE  LET o == Ordered(selected)[q]
             IN  /\ E(3 * q - 2) = Step("load", o, 2)
                 /\ E(3 * q - 1) = Take(OnToken(o), "no key update", 2)
                 /\ E(3 * q) = Step("judge", o, 2)
  <2>1. /\ 1 + ((3 * q - 2) - 1) \div 3 = q /\ 1 + (((3 * q - 2) - 1) % 3) = 1
        /\ 1 + ((3 * q - 1) - 1) \div 3 = q /\ 1 + (((3 * q - 1) - 1) % 3) = 2
        /\ 1 + ((3 * q) - 1) \div 3 = q /\ 1 + (((3 * q) - 1) % 3) = 3
    BY <1>1
  <2>. QED
    BY <1>3, <2>1
<1>6. ASSUME NEW i \in 1 .. 3 * k PROVE E(i) \in AnyStep
  <2>1. PICK q \in 1 .. k : i = 3 * q - 2 \/ i = 3 * q - 1 \/ i = 3 * q
    BY <1>1, ByThree
  <2>2. Ordered(selected)[q] \in TokenId
    BY <1>1
  <2>. HIDE DEF E
  <2>. QED
    BY <1>4, <1>5, <2>1, <2>2
<1>7. ASSUME NEW q \in 1 .. k
      PROVE  3 * q - 2 \in 1 .. 3 * k /\ 3 * q - 1 \in 1 .. 3 * k /\ 3 * q \in 1 .. 3 * k
  BY <1>1
<1>. HIDE DEF E
<1>8. s \in [1 .. 3 * k -> AnyStep] /\ 3 * k \in Nat
  BY <1>1, <1>2, <1>6
<1>9. s \in Seq(AnyStep) /\ Len(s) = 3 * k
  BY <1>8
<1>. QED
  BY <1>2, <1>5, <1>7, <1>9 DEF CandidateAt

LEMMA CompletionSteps ==
  ASSUME NEW batch \in SUBSET TokenId, NEW m, m = Cardinality(batch), NEW s,
         s = CompletionList(batch)
  PROVE  /\ s \in Seq(AnyStep) /\ Len(s) = m
         /\ \A q \in 1 .. m : s[q] = Take(OnSchedule(Ordered(batch)[q]), "update", 0)
<1>1. m \in Nat /\ \A q \in 1 .. m : Ordered(batch)[q] \in TokenId
  BY OrderedTokens
<1>. DEFINE E(i) == Completion(Ordered(batch)[1 + (i - 1) \div 1])[1 + ((i - 1) % 1)]
<1>2. s = [i \in 1 .. 1 * m |-> E(i)]
  BY DEF InOrder, LifecycleList, CandidateList, CompletionList
<1>3. \A t : Completion(t)[1] = Take(OnSchedule(t), "update", 0)
  BY DEF Completion
<1>4. ASSUME NEW t \in TokenId PROVE Take(OnSchedule(t), "update", 0) \in AnyStep
  <2>1. PICK level \in Level : level = 0
    BY DEF Level
  <2>2. Take(OnSchedule(t), "update", level) \in AnyStep
    BY TakesOfTokens
  <2>. QED
    BY <2>1, <2>2
<1>5. ASSUME NEW q \in 1 .. m PROVE E(q) = Take(OnSchedule(Ordered(batch)[q]), "update", 0)
  <2>1. 1 + (q - 1) \div 1 = q /\ 1 + ((q - 1) % 1) = 1
    BY <1>1
  <2>. QED
    BY <1>3, <2>1
<1>6. 1 * m = m
  BY <1>1
<1>. HIDE DEF E
<1>7. s \in [1 .. m -> AnyStep]
  BY <1>1, <1>2, <1>4, <1>5, <1>6
<1>8. s \in Seq(AnyStep) /\ Len(s) = m
  BY <1>1, <1>7
<1>. QED
  BY <1>2, <1>5, <1>6, <1>8

\* The steps of a scheduled evaluation, where they are.
Placed(s, k, o) ==
  /\ 5 * k + 1 <= Len(s) /\ s[1] = Take(Gate, "share", 0)
  /\ \A i \in 2 .. 2 * k + 1 :
       s[i].do = "take" /\ s[i].mode \in Mode /\ s[i].level = 1 /\ s[i].lock # Gate
  /\ \A q \in 1 .. k : s[2 * q] = Take(OnToken(o[q]), "no key update", 1)
  /\ \A q \in 1 .. k : /\ s[2 * k + 3 * q - 1] = Step("load", o[q], 2)
                       /\ s[2 * k + 3 * q] = Take(OnToken(o[q]), "no key update", 2)
                       /\ s[2 * k + 3 * q + 1] = Step("judge", o[q], 2)
  /\ \A i \in 5 * k + 2 .. Len(s) :
       s[i].do = "take" /\ s[i].mode \in Mode /\ s[i].level = 0 /\ s[i].lock # Gate

JoinOf(u, a, b) ==
  /\ Len(u) = Len(a) + Len(b) /\ Len(a) \in Nat /\ Len(b) \in Nat
  /\ \A i \in 1 .. Len(a) : u[i] = a[i]
  /\ \A i \in Len(a) + 1 .. Len(a) + Len(b) : u[i] = b[i - Len(a)]

LEMMA Joined ==
  ASSUME NEW a \in Seq(AnyStep), NEW b \in Seq(AnyStep), NEW u, u = a \o b
  PROVE  u \in Seq(AnyStep) /\ JoinOf(u, a, b)
<1>1. Len(a) \in Nat /\ Len(b) \in Nat
  OBVIOUS
<1>. QED
  BY <1>1, ConcatProperties DEF JoinOf

LEMMA TakesAreTyped ==
  \A lock \in LockKind, mode \in Mode, level \in Level :
    /\ Take(lock, mode, level) \in AnyStep /\ WellFormed(Take(lock, mode, level))
    /\ Take(lock, mode, level).do = "take" /\ Take(lock, mode, level).mode = mode
    /\ Take(lock, mode, level).level = level /\ Take(lock, mode, level).lock = lock
<1>. TAKE lock \in LockKind, mode \in Mode, level \in Level
<1>1. level \in 0 .. 2
  BY DEF Level
<1>2. Take(lock, mode, level) \in AnyStep /\ WellFormed(Take(lock, mode, level))
  BY <1>1, StepsAreTyped
<1>. QED
  BY <1>2 DEF Take

LEMMA PollStepsArePlaced ==
  ASSUME NEW batch \in SUBSET TokenId, NEW selected \in SUBSET batch, NEW s,
         s = PollSteps(batch, selected)
  PROVE  /\ s \in Seq(AnyStep)
         /\ \E k \in Nat : \E o :
              /\ Placed(s, k, o)
              /\ \A q \in 1 .. k : o[q] \in TokenId
              /\ \A p, q \in 1 .. k : o[p] = o[q] => p = q
<1>. DEFINE k == Cardinality(selected)
            m == Cardinality(batch)
            o == Ordered(selected)
            first == <<Take(Gate, "share", 0)>>
            A == LifecycleList(selected)
            B == CandidateList(selected)
            C == CompletionList(batch)
            X == first \o A
            Y == X \o B
<1>0. selected \in SUBSET TokenId
  OBVIOUS
<1>1. /\ k \in Nat /\ \A q \in 1 .. k : o[q] \in TokenId
      /\ \A p, q \in 1 .. k : o[p] = o[q] => p = q
  BY <1>0, OrderedTokens
<1>1a. m \in Nat /\ \A q \in 1 .. m : Ordered(batch)[q] \in TokenId
  BY OrderedTokens
<1>2. Take(Gate, "share", 0) \in AnyStep
  <2>1. PICK level \in Level : level = 0
    BY DEF Level
  <2>2. Take(Gate, "share", level) \in AnyStep
    BY TakesAreTyped, LocksAreTyped, ModesAre
  <2>. QED
    BY <2>1, <2>2
<1>3. first \in Seq(AnyStep) /\ Len(first) = 1 /\ first[1] = Take(Gate, "share", 0)
  BY <1>2
<1>3a. /\ A = LifecycleList(selected) /\ B = CandidateList(selected) /\ C = CompletionList(batch)
       /\ k = Cardinality(selected) /\ m = Cardinality(batch) /\ o = Ordered(selected)
  OBVIOUS
<1>7. s = Y \o C
  BY DEF PollSteps, LifecycleList, CandidateList, CompletionList
<1>. HIDE DEF A, B, C, first, o, k, m
<1>4. A \in Seq(AnyStep) /\ Len(A) = 2 * k /\ LifecycleAt(A, k, o)
  BY <1>0, <1>3a, LifecycleSteps
<1>5. B \in Seq(AnyStep) /\ Len(B) = 3 * k /\ CandidateAt(B, k, o)
  BY <1>0, <1>3a, CandidateSteps
<1>6. /\ C \in Seq(AnyStep) /\ Len(C) = m
      /\ \A q \in 1 .. m : C[q] = Take(OnSchedule(Ordered(batch)[q]), "update", 0)
  BY <1>3a, CompletionSteps
<1>8. ASSUME NEW i \in 1 .. 2 * k
      PROVE  A[i].do = "take" /\ A[i].mode \in Mode /\ A[i].level = 1 /\ A[i].lock # Gate
  <2>1. PICK q \in 1 .. k : i = 2 * q - 1 \/ i = 2 * q
    BY <1>1, ByTwo
  <2>2. A[i] = Take(OnToken(o[q]), "no key update", 1) \/ A[i] = Take(OnSchedule(o[q]), "update", 1)
    BY <1>4, <2>1 DEF LifecycleAt
  <2>3. OnToken(o[q]) # Gate /\ OnSchedule(o[q]) # Gate
    BY DEF OnToken, OnSchedule, Gate
  <2>. QED
    <3>1. /\ Take(OnToken(o[q]), "no key update", 1).do = "take"
          /\ Take(OnToken(o[q]), "no key update", 1).mode = "no key update"
          /\ Take(OnToken(o[q]), "no key update", 1).level = 1
          /\ Take(OnToken(o[q]), "no key update", 1).lock = OnToken(o[q])
      BY DEF Take
    <3>2. /\ Take(OnSchedule(o[q]), "update", 1).do = "take"
          /\ Take(OnSchedule(o[q]), "update", 1).mode = "update"
          /\ Take(OnSchedule(o[q]), "update", 1).level = 1
          /\ Take(OnSchedule(o[q]), "update", 1).lock = OnSchedule(o[q])
      BY DEF Take
    <3>. QED
      BY <2>2, <2>3, <3>1, <3>2, ModesAre
<1>9. ASSUME NEW i \in 1 .. m
      PROVE  C[i].do = "take" /\ C[i].mode \in Mode /\ C[i].level = 0 /\ C[i].lock # Gate
  <2>1. C[i] = Take(OnSchedule(Ordered(batch)[i]), "update", 0)
    BY <1>6, <1>3a
  <2>2. OnSchedule(Ordered(batch)[i]) # Gate
    BY DEF OnSchedule, Gate
  <2>. QED
    <3>1. /\ C[i].do = "take" /\ C[i].mode = "update" /\ C[i].level = 0
          /\ C[i].lock = OnSchedule(Ordered(batch)[i])
      BY <2>1 DEF Take
    <3>. QED
      BY <2>2, <3>1, ModesAre
<1>1b. k \in Nat /\ m \in Nat
  BY <1>1, <1>1a
<1>10. X = first \o A
  OBVIOUS
<1>11. Y = X \o B
  OBVIOUS
<1>. HIDE DEF X, Y
<1>12. /\ X \in Seq(AnyStep) /\ JoinOf(X, first, A) /\ Y \in Seq(AnyStep) /\ JoinOf(Y, X, B)
       /\ s \in Seq(AnyStep) /\ JoinOf(s, Y, C)
  <2>1. X \in Seq(AnyStep) /\ JoinOf(X, first, A)
    BY <1>3, <1>4, <1>10, Joined
  <2>2. Y \in Seq(AnyStep) /\ JoinOf(Y, X, B)
    BY <2>1, <1>5, <1>11, Joined
  <2>3. s \in Seq(AnyStep) /\ JoinOf(s, Y, C)
    BY <2>2, <1>6, <1>7, Joined
  <2>. QED
    BY <2>1, <2>2, <2>3
<1>13. /\ Len(first) = 1 /\ Len(A) = 2 * k /\ Len(B) = 3 * k /\ Len(C) = m
       /\ Len(X) = 2 * k + 1 /\ Len(Y) = 5 * k + 1 /\ Len(s) = 5 * k + 1 + m
  <2>1. Len(first) = 1 /\ Len(A) = 2 * k /\ Len(B) = 3 * k /\ Len(C) = m
    BY <1>3, <1>4, <1>5, <1>6
  <2>2. /\ Len(X) = Len(first) + Len(A) /\ Len(Y) = Len(X) + Len(B)
        /\ Len(s) = Len(Y) + Len(C)
    BY <1>12 DEF JoinOf
  <2>. QED
    BY <1>1b, <2>1, <2>2
<1>13a. /\ X[1] = first[1] /\ \A i \in 2 .. 2 * k + 1 : X[i] = A[i - 1]
  <2>1. /\ \A i \in 1 .. 1 : X[i] = first[i]
        /\ \A i \in 1 + 1 .. 1 + 2 * k : X[i] = A[i - 1]
    BY <1>12, <1>13 DEF JoinOf
  <2>. QED
    BY <1>1b, <2>1
<1>13b. /\ \A i \in 1 .. 2 * k + 1 : Y[i] = X[i]
        /\ \A i \in 2 * k + 2 .. 5 * k + 1 : Y[i] = B[i - (2 * k + 1)]
  <2>1. /\ \A i \in 1 .. 2 * k + 1 : Y[i] = X[i]
        /\ \A i \in (2 * k + 1) + 1 .. (2 * k + 1) + 3 * k : Y[i] = B[i - (2 * k + 1)]
    BY <1>12, <1>13 DEF JoinOf
  <2>. QED
    BY <1>1b, <2>1
<1>13c. /\ \A i \in 1 .. 5 * k + 1 : s[i] = Y[i]
        /\ \A i \in 5 * k + 2 .. 5 * k + 1 + m : s[i] = C[i - (5 * k + 1)]
  <2>1. /\ \A i \in 1 .. 5 * k + 1 : s[i] = Y[i]
        /\ \A i \in (5 * k + 1) + 1 .. (5 * k + 1) + m : s[i] = C[i - (5 * k + 1)]
    BY <1>12, <1>13 DEF JoinOf
  <2>. QED
    BY <1>1b, <2>1
<1>14. s[1] = Take(Gate, "share", 0) /\ 5 * k + 1 <= Len(s)
  <2>1. 1 \in 1 .. 5 * k + 1 /\ 1 \in 1 .. 2 * k + 1 /\ 5 * k + 1 <= Len(s)
    BY <1>1b, <1>13
  <2>. QED
    BY <1>3, <1>13a, <1>13b, <1>13c, <2>1
<1>15. ASSUME NEW i \in 2 .. 2 * k + 1
       PROVE  s[i].do = "take" /\ s[i].mode \in Mode /\ s[i].level = 1 /\ s[i].lock # Gate
  <2>1. /\ i \in 1 .. 2 * k + 1 /\ i \in 1 .. 5 * k + 1 /\ i - 1 \in 1 .. 2 * k
    BY <1>1b
  <2>2. s[i] = A[i - 1]
    BY <1>13a, <1>13b, <1>13c, <2>1
  <2>. QED
    BY <1>8, <2>1, <2>2
<1>16. ASSUME NEW q \in 1 .. k
       PROVE  /\ s[2 * k + 3 * q - 1] = Step("load", o[q], 2)
              /\ s[2 * k + 3 * q] = Take(OnToken(o[q]), "no key update", 2)
              /\ s[2 * k + 3 * q + 1] = Step("judge", o[q], 2)
  <2>1. ASSUME NEW j \in 3 * q - 2 .. 3 * q PROVE s[2 * k + 1 + j] = B[j]
    <3>1. /\ 2 * k + 1 + j \in 1 .. 5 * k + 1 /\ 2 * k + 1 + j \in 2 * k + 2 .. 5 * k + 1
          /\ (2 * k + 1 + j) - (2 * k + 1) = j
      BY <1>1b
    <3>2. s[2 * k + 1 + j] = B[(2 * k + 1 + j) - (2 * k + 1)]
      BY <3>1, <1>13b, <1>13c
    <3>. QED
      BY <3>1, <3>2
  <2>2. /\ s[2 * k + 1 + (3 * q - 2)] = B[3 * q - 2] /\ s[2 * k + 1 + (3 * q - 1)] = B[3 * q - 1]
        /\ s[2 * k + 1 + 3 * q] = B[3 * q]
    BY <1>1b, <2>1
  <2>3. /\ 2 * k + 1 + (3 * q - 2) = 2 * k + 3 * q - 1 /\ 2 * k + 1 + (3 * q - 1) = 2 * k + 3 * q
        /\ 2 * k + 1 + 3 * q = 2 * k + 3 * q + 1
    BY <1>1b
  <2>4. /\ s[2 * k + 3 * q - 1] = B[3 * q - 2] /\ s[2 * k + 3 * q] = B[3 * q - 1]
        /\ s[2 * k + 3 * q + 1] = B[3 * q]
    BY <2>2, <2>3
  <2>5. /\ B[3 * q - 2] = Step("load", o[q], 2)
        /\ B[3 * q - 1] = Take(OnToken(o[q]), "no key update", 2)
        /\ B[3 * q] = Step("judge", o[q], 2)
    BY <1>5 DEF CandidateAt
  <2>. QED
    BY <2>4, <2>5
<1>17. ASSUME NEW i \in 5 * k + 2 .. Len(s)
       PROVE  s[i].do = "take" /\ s[i].mode \in Mode /\ s[i].level = 0 /\ s[i].lock # Gate
  <2>1. s[i] = C[i - (5 * k + 1)] /\ i - (5 * k + 1) \in 1 .. m
    BY <1>1b, <1>13, <1>13c
  <2>. QED
    BY <1>9, <2>1
<1>17a. ASSUME NEW q \in 1 .. k PROVE s[2 * q] = Take(OnToken(o[q]), "no key update", 1)
  <2>1. /\ 2 * q \in 2 .. 2 * k + 1 /\ 2 * q \in 1 .. 2 * k + 1 /\ 2 * q \in 1 .. 5 * k + 1
    BY <1>1b
  <2>2. s[2 * q] = A[2 * q - 1]
    BY <1>13a, <1>13b, <1>13c, <2>1
  <2>. QED
    BY <1>4, <2>2 DEF LifecycleAt
<1>18. Placed(s, k, o)
  BY <1>14, <1>15, <1>16, <1>17, <1>17a DEF Placed
<1>. QED
  BY <1>1, <1>12, <1>18

Counts == Nat

\* What a step of a scheduled evaluation is, by its place.
LEMMA PlacesAre ==
  ASSUME NEW s \in Seq(AnyStep), NEW k \in Counts, NEW o, Placed(s, k, o), NEW i \in 1 .. Len(s)
  PROVE  \/ i = 1
         \/ i \in 2 .. 2 * k + 1
         \/ \E q \in 1 .. k : i \in {2 * k + 3 * q - 1, 2 * k + 3 * q, 2 * k + 3 * q + 1}
         \/ i \in 5 * k + 2 .. Len(s)
<1>1. Len(s) \in Nat /\ k \in Nat
  BY DEF Counts
<1>2. CASE i \in 2 * k + 2 .. 5 * k + 1
  <2>. DEFINE j == i - (2 * k + 1)
  <2>1. j \in 1 .. 3 * k /\ i = j + (2 * k + 1)
    BY <1>1, <1>2
  <2>. HIDE DEF j
  <2>2. PICK q \in 1 .. k : j = 3 * q - 2 \/ j = 3 * q - 1 \/ j = 3 * q
    BY <1>1, <2>1, ByThree
  <2>3. i = 2 * k + 3 * q - 1 \/ i = 2 * k + 3 * q \/ i = 2 * k + 3 * q + 1
    BY <1>1, <2>1, <2>2
  <2>. QED
    BY <2>3
<1>. QED
  BY <1>1, <1>2

Evaluates(s, k, o, i) ==
  /\ s[i].do \in {"take", "load", "judge"} /\ WellFormed(s[i])
  /\ s[i].do = "load" => \E q \in 1 .. k : i = 2 * k + 3 * q - 1 /\ s[i].token = o[q]
  /\ s[i].do = "judge" => \E q \in 1 .. k : i = 2 * k + 3 * q + 1 /\ s[i].token = o[q]
  /\ s[i].level = 0 => s[i].do = "take" /\ (i = 1 \/ i \in 5 * k + 2 .. Len(s))
  /\ i \in 5 * k + 2 .. Len(s) => s[i].level = 0
  /\ s[i].do = "take" /\ s[i].lock = Gate => i = 1

LEMMA PollPlanned ==
  ASSUME NEW w \in PollWorker, NEW s \in Seq(AnyStep), NEW k \in Counts, NEW o, Placed(s, k, o),
         \A q \in 1 .. k : o[q] \in TokenId,
         \A p, q \in 1 .. k : o[p] = o[q] => p = q
  PROVE  /\ Plan(w, s, {}, {})
         /\ \A i \in 1 .. Len(s) :
              /\ WellFormed(s[i]) /\ s[i].do \in {"take", "load", "judge"}
              /\ s[i].do = "judge" => LoadedBefore(s, i)
<1>1. ASSUME NEW i \in 1 .. Len(s) PROVE Evaluates(s, k, o, i)
  <2>1. Len(s) \in Nat /\ k \in Nat
    BY DEF Counts
  <2>2. CASE i = 1
    <3>1. s[i].do = "take" /\ s[i].mode = "share" /\ i \notin 5 * k + 2 .. Len(s)
      <4>1. s[i] = Take(Gate, "share", 0)
        BY <2>2 DEF Placed
      <4>2. s[i].do = "take" /\ s[i].mode = "share"
        BY <4>1 DEF Take
      <4>. QED
        BY <2>1, <2>2, <4>2
    <3>. QED
      BY <2>2, <3>1, ModesAre DEF Evaluates, WellFormed
  <2>3. CASE i \in 2 .. 2 * k + 1
    <3>1. s[i].do = "take" /\ s[i].mode \in Mode /\ s[i].level = 1 /\ s[i].lock # Gate
      BY <2>3 DEF Placed
    <3>2. i \notin 5 * k + 2 .. Len(s)
      BY <2>1, <2>3
    <3>. QED
      BY <3>1, <3>2 DEF Evaluates, WellFormed
  <2>4. ASSUME NEW q \in 1 .. k, i \in {2 * k + 3 * q - 1, 2 * k + 3 * q, 2 * k + 3 * q + 1}
        PROVE  Evaluates(s, k, o, i)
    <3>1. i \notin 5 * k + 2 .. Len(s)
      BY <2>1, <2>4
    <3>2. CASE i = 2 * k + 3 * q - 1
      <4>0. s[i] = Step("load", o[q], 2)
        BY <3>2 DEF Placed
      <4>1. s[i].do = "load" /\ s[i].token = o[q] /\ s[i].level = 2 /\ WellFormed(s[i])
        BY <4>0 DEF Step, WellFormed
      <4>. QED
        BY <3>1, <3>2, <4>1 DEF Evaluates
    <3>3. CASE i = 2 * k + 3 * q
      <4>0. s[i] = Take(OnToken(o[q]), "no key update", 2)
        BY <3>3 DEF Placed
      <4>a. PICK lock : lock = OnToken(o[q])
        OBVIOUS
      <4>b. s[i] = Take(lock, "no key update", 2)
        BY <4>0, <4>a
      <4>c. /\ Take(lock, "no key update", 2).do = "take"
            /\ Take(lock, "no key update", 2).lock = lock
            /\ Take(lock, "no key update", 2).mode = "no key update"
            /\ Take(lock, "no key update", 2).level = 2
        BY DEF Take
      <4>1. s[i].do = "take" /\ s[i].lock = lock /\ s[i].mode = "no key update" /\ s[i].level = 2
        BY <4>b, <4>c
      <4>d. OnToken(o[q]) # Gate
        BY DEF OnToken, Gate
      <4>2. s[i].lock # Gate
        BY <4>1, <4>a, <4>d
      <4>e. WellFormed(s[i])
        <5>1. s[i].do = "take"
          BY <4>1
        <5>2. s[i].mode \in Mode
          BY <4>1, ModesAre
        <5>. QED
          BY <5>1, <5>2 DEF WellFormed
      <4>f. s[i].do = "take" /\ s[i].level = 2
        BY <4>1
      <4>. QED
        BY <3>1, <4>f, <4>2, <4>e DEF Evaluates
    <3>4. CASE i = 2 * k + 3 * q + 1
      <4>0. s[i] = Step("judge", o[q], 2)
        BY <3>4 DEF Placed
      <4>1. s[i].do = "judge" /\ s[i].token = o[q] /\ s[i].level = 2 /\ WellFormed(s[i])
        BY <4>0 DEF Step, WellFormed
      <4>. QED
        BY <3>1, <3>4, <4>1 DEF Evaluates
    <3>. QED
      BY <2>4, <3>2, <3>3, <3>4
  <2>5. CASE i \in 5 * k + 2 .. Len(s)
    <3>1. s[i].do = "take" /\ s[i].mode \in Mode /\ s[i].level = 0 /\ s[i].lock # Gate
      BY <2>5 DEF Placed
    <3>. QED
      BY <2>5, <3>1 DEF Evaluates, WellFormed
  <2>. QED
    <3>1. \/ i = 1
          \/ i \in 2 .. 2 * k + 1
          \/ \E q \in 1 .. k : i \in {2 * k + 3 * q - 1, 2 * k + 3 * q, 2 * k + 3 * q + 1}
          \/ i \in 5 * k + 2 .. Len(s)
      BY PlacesAre
    <3>. QED
      BY <2>2, <2>3, <2>4, <2>5, <3>1
<1>2. Len(s) \in Nat /\ 5 * k + 1 <= Len(s) /\ 1 \in 1 .. Len(s) /\ k \in Nat
  <2>1. k \in Nat /\ Len(s) \in Nat
    BY DEF Counts
  <2>2. 5 * k + 1 <= Len(s)
    BY DEF Placed
  <2>. QED
    BY <2>1, <2>2
<1>3. /\ w \notin BoostWorker /\ w \notin SecurityWorker
  BY EvaluationAssumption
<1>4. \A i \in 1 .. Len(s) : s[i].do \in {"take", "load", "judge"} /\ WellFormed(s[i])
  BY <1>1 DEF Evaluates
<1>5. ASSUME NEW i \in 1 .. Len(s), s[i].do = "judge"
      PROVE  TakenBefore(s, i, OnToken(s[i].token), Alone) /\ LoadedBefore(s, i)
  <2>1. PICK q \in 1 .. k : i = 2 * k + 3 * q + 1 /\ s[i].token = o[q]
    BY <1>1, <1>5 DEF Evaluates
  <2>2. 2 * k + 3 * q \in 1 .. i - 1 /\ 2 * k + 3 * q - 1 \in 1 .. i - 1
    BY <1>2, <2>1, SMTT(30)
  <2>3. Takes(s[2 * k + 3 * q], OnToken(s[i].token), Alone)
    <3>1. s[2 * k + 3 * q] = Take(OnToken(o[q]), "no key update", 2)
      BY DEF Placed
    <3>2. PICK lock : lock = OnToken(o[q])
      OBVIOUS
    <3>3. /\ Take(lock, "no key update", 2).do = "take"
          /\ Take(lock, "no key update", 2).lock = lock
          /\ Take(lock, "no key update", 2).mode = "no key update"
      BY DEF Take
    <3>4. Takes(Take(lock, "no key update", 2), lock, Alone)
      BY <3>3 DEF Takes, Alone
    <3>. QED
      BY <2>1, <3>1, <3>2, <3>4
  <2>4. s[2 * k + 3 * q - 1].do = "load" /\ s[2 * k + 3 * q - 1].token = s[i].token
    <3>1. s[2 * k + 3 * q - 1] = Step("load", o[q], 2)
      BY DEF Placed
    <3>. QED
      BY <2>1, <3>1 DEF Step
  <2>. QED
    BY <2>2, <2>3, <2>4 DEF TakenBefore, LoadedBefore
<1>6. ASSUME NEW i \in 1 .. Len(s), s[i].do = "load"
      PROVE  TakenBefore(s, i, OnToken(s[i].token), Alone)
  <2>1. PICK q \in 1 .. k : i = 2 * k + 3 * q - 1 /\ s[i].token = o[q]
    BY <1>1, <1>6 DEF Evaluates
  <2>2. 2 * q \in 1 .. i - 1
    BY <1>2, <2>1, SMTT(30)
  <2>3. Takes(s[2 * q], OnToken(s[i].token), Alone)
    <3>1. s[2 * q] = Take(OnToken(o[q]), "no key update", 1)
      BY DEF Placed
    <3>2. PICK lock : lock = OnToken(o[q])
      OBVIOUS
    <3>3. /\ Take(lock, "no key update", 1).do = "take"
          /\ Take(lock, "no key update", 1).lock = lock
          /\ Take(lock, "no key update", 1).mode = "no key update"
      BY DEF Take
    <3>4. Takes(Take(lock, "no key update", 1), lock, Alone)
      BY <3>3 DEF Takes, Alone
    <3>. QED
      BY <2>1, <3>1, <3>2, <3>4
  <2>. QED
    BY <2>2, <2>3 DEF TakenBefore
<1>7. StepsGuarded(s, {})
  BY <1>4, <1>5 DEF StepsGuarded
<1>8. LoadsLocked(w, s, {})
  BY <1>6 DEF LoadsLocked
<1>9. EvaluatedOnce(s, {})
  <2>1. ASSUME NEW i \in 1 .. Len(s), NEW j \in 1 .. Len(s), i < j, s[i].do # "take",
               s[j].do # "take", s[i].token = s[j].token
        PROVE  s[i].do = "load" /\ s[j].do # "load"
    <3>1. PICK p \in 1 .. k : /\ s[i].token = o[p]
                              /\ \/ s[i].do = "load" /\ i = 2 * k + 3 * p - 1
                                 \/ s[i].do = "judge" /\ i = 2 * k + 3 * p + 1
      BY <1>1, <2>1 DEF Evaluates
    <3>2. PICK q \in 1 .. k : /\ s[j].token = o[q]
                              /\ \/ s[j].do = "load" /\ j = 2 * k + 3 * q - 1
                                 \/ s[j].do = "judge" /\ j = 2 * k + 3 * q + 1
      BY <1>1, <2>1 DEF Evaluates
    <3>3. p = q
      BY <2>1, <3>1, <3>2
    <3>4. \/ i = 2 * k + 3 * p - 1 /\ j = 2 * k + 3 * p - 1
          \/ i = 2 * k + 3 * p + 1 /\ j = 2 * k + 3 * p - 1
          \/ i = 2 * k + 3 * p + 1 /\ j = 2 * k + 3 * p + 1
          \/ s[i].do = "load" /\ s[j].do = "judge"
      BY <3>1, <3>2, <3>3
    <3>. QED
      BY <1>2, <2>1, <3>4
  <2>. QED
    BY <2>1 DEF EvaluatedOnce
<1>10. OneUnderWay(s)
  <2>1. \A i \in 1 .. Len(s) : s[i].do # "promote" /\ s[i].do # "write"
    BY <1>4
  <2>. QED
    BY <2>1 DEF OneUnderWay
<1>11. Savepoints(w, s)
  <2>1. \A i \in 1 .. Len(s) : s[i].level = 0 => s[i].do = "take"
    BY <1>1 DEF Evaluates
  <2>2. ASSUME NEW i \in 1 .. Len(s), NEW j \in 1 .. Len(s), i < j, s[i].level = 0
        PROVE  s[j].level = 0 \/ (i = 1 /\ s[i].lock = Gate)
    <3>1. CASE i = 1
      <4>1. s[1] = Take(Gate, "share", 0)
        BY DEF Placed
      <4>2. s[1].lock = Gate
        BY <4>1 DEF Take
      <4>. QED
        BY <3>1, <4>2
    <3>2. CASE i \in 5 * k + 2 .. Len(s)
      <4>1. j \in 5 * k + 2 .. Len(s)
        BY <1>2, <2>2, <3>2
      <4>. QED
        BY <1>1, <4>1 DEF Evaluates
    <3>. QED
      BY <1>1, <2>2, <3>1, <3>2 DEF Evaluates
  <2>3. \A i \in 1 .. Len(s) : Takes(s[i], Gate, Mode) => i = 1
    BY <1>1 DEF Evaluates, Takes
  <2>. QED
    BY <2>1, <2>2, <2>3 DEF Savepoints
<1>12. GateFirst(w, s, {})
  <2>1. s[1] = Take(Gate, GateMode(w), 0)
    BY DEF Placed, GateMode
  <2>. QED
    BY <2>1 DEF GateFirst
<1>. QED
  BY <1>4, <1>5, <1>7, <1>8, <1>9, <1>10, <1>11, <1>12 DEF Plan

\* The steps of the transactions about one token: two locks, then the evaluation.
OneEvaluation(s, t, one, oneMode, two, twoMode) ==
  /\ Len(s) = 5 /\ s[1] = Take(one, oneMode, 0)
  /\ s[1].do = "take" /\ s[1].lock = one /\ s[1].mode = oneMode /\ s[1].level = 0
  /\ s[2].do = "take" /\ s[2].lock = two /\ s[2].mode = twoMode /\ s[2].level = 0
  /\ s[3].do = "load" /\ s[3].token = t /\ s[3].level = 0
  /\ s[4].do = "take" /\ s[4].lock = OnToken(t) /\ s[4].mode = "no key update" /\ s[4].level = 0
  /\ s[5].do = "judge" /\ s[5].token = t /\ s[5].level = 0

LEMMA Couple ==
  ASSUME NEW a \in AnyStep, NEW b \in AnyStep
  PROVE  <<a, b>> \in Seq(AnyStep) /\ Len(<<a, b>>) = 2 /\ <<a, b>>[1] = a /\ <<a, b>>[2] = b
OBVIOUS

LEMMA Triple ==
  ASSUME NEW a \in AnyStep, NEW b \in AnyStep, NEW c \in AnyStep
  PROVE  /\ <<a, b, c>> \in Seq(AnyStep) /\ Len(<<a, b, c>>) = 3
         /\ <<a, b, c>>[1] = a /\ <<a, b, c>>[2] = b /\ <<a, b, c>>[3] = c
OBVIOUS

OneList(t, one, oneMode, two, twoMode) ==
  <<Take(one, oneMode, 0), Take(two, twoMode, 0)>> \o Evaluation(t, 0)

LEMMA FiveSteps ==
  ASSUME NEW t \in TokenId, NEW one \in LockKind, NEW oneMode \in Mode, NEW two \in LockKind,
         NEW twoMode \in Mode, NEW s, s = OneList(t, one, oneMode, two, twoMode)
  PROVE  s \in Seq(AnyStep) /\ OneEvaluation(s, t, one, oneMode, two, twoMode)
<1>. DEFINE a == Take(one, oneMode, 0)
            b == Take(two, twoMode, 0)
            c == Step("load", t, 0)
            d == Take(OnToken(t), "no key update", 0)
            e == Step("judge", t, 0)
<1>1. PICK level \in Level : level = 0
  BY DEF Level
<1>2. a \in AnyStep /\ b \in AnyStep
  <2>1. Take(one, oneMode, level) \in AnyStep /\ Take(two, twoMode, level) \in AnyStep
    BY TakesAreTyped
  <2>. QED
    BY <1>1, <2>1
<1>3. c \in AnyStep /\ d \in AnyStep /\ e \in AnyStep
  <2>1. /\ Step("load", t, level) \in AnyStep /\ Step("judge", t, level) \in AnyStep
        /\ Take(OnToken(t), "no key update", level) \in AnyStep
    BY TakesOfTokens
  <2>. QED
    BY <1>1, <2>1
<1>4. /\ a.do = "take" /\ a.lock = one /\ a.mode = oneMode /\ a.level = 0
      /\ b.do = "take" /\ b.lock = two /\ b.mode = twoMode /\ b.level = 0
      /\ d.do = "take" /\ d.lock = OnToken(t) /\ d.mode = "no key update" /\ d.level = 0
  BY DEF Take
<1>5. /\ c.do = "load" /\ c.token = t /\ c.level = 0
      /\ e.do = "judge" /\ e.token = t /\ e.level = 0
  BY DEF Step
<1>. DEFINE u == <<a, b>>
            v == <<c, d, e>>
<1>6. s = u \o v
  BY DEF OneList, Evaluation
<1>. HIDE DEF a, b, c, d, e
<1>7. u \in Seq(AnyStep) /\ Len(u) = 2 /\ u[1] = a /\ u[2] = b
  BY <1>2, Couple
<1>8. v \in Seq(AnyStep) /\ Len(v) = 3 /\ v[1] = c /\ v[2] = d /\ v[3] = e
  BY <1>3, Triple
<1>. HIDE DEF u, v
<1>9. s \in Seq(AnyStep) /\ JoinOf(s, u, v)
  BY <1>6, <1>7, <1>8, Joined
<1>10. /\ Len(s) = 2 + 3 /\ \A i \in 1 .. 2 : s[i] = u[i]
       /\ \A i \in 2 + 1 .. 2 + 3 : s[i] = v[i - 2]
  BY <1>7, <1>8, <1>9 DEF JoinOf
<1>11. /\ Len(s) = 5 /\ s[1] = u[1] /\ s[2] = u[2] /\ s[3] = v[1] /\ s[4] = v[2] /\ s[5] = v[3]
  BY <1>10
<1>12. s[1] = a /\ s[2] = b /\ s[3] = c /\ s[4] = d /\ s[5] = e
  BY <1>7, <1>8, <1>11
<1>13. s[1] = Take(one, oneMode, 0)
  BY <1>12 DEF a
<1>. QED
  <2>1. s[1].do = "take" /\ s[1].lock = one /\ s[1].mode = oneMode /\ s[1].level = 0
    BY <1>4, <1>12
  <2>2. s[2].do = "take" /\ s[2].lock = two /\ s[2].mode = twoMode /\ s[2].level = 0
    BY <1>4, <1>12
  <2>3. s[3].do = "load" /\ s[3].token = t /\ s[3].level = 0
    BY <1>5, <1>12
  <2>4. /\ s[4].do = "take" /\ s[4].lock = OnToken(t) /\ s[4].mode = "no key update"
        /\ s[4].level = 0
    BY <1>4, <1>12
  <2>5. s[5].do = "judge" /\ s[5].token = t /\ s[5].level = 0
    BY <1>5, <1>12
  <2>6. Len(s) = 5
    BY <1>11
  <2>. QED
    BY <1>9, <1>13, <2>1, <2>2, <2>3, <2>4, <2>5, <2>6, Zenon DEF OneEvaluation

FirstLocks(w, t, one, oneMode, two, twoMode) ==
  /\ w \in BoostWorker =>
       one = OnToken(t) /\ oneMode = "key share" /\ two = Wakeups /\ twoMode = "exclusive"
  /\ w \notin BoostWorker =>
       one = Gate /\ oneMode = "exclusive" /\ two = OnToken(t) /\ twoMode = "update"

LEMMA OnePlanned ==
  ASSUME NEW w \in Worker, NEW t \in TokenId, NEW s \in Seq(AnyStep), NEW one \in LockKind,
         NEW oneMode \in Mode, NEW two \in LockKind, NEW twoMode \in Mode,
         OneEvaluation(s, t, one, oneMode, two, twoMode), w \notin PollWorker,
         FirstLocks(w, t, one, oneMode, two, twoMode)
  PROVE  /\ Plan(w, s, {}, {}) /\ About(w, t, s, {})
         /\ \A i \in 1 .. Len(s) :
              /\ WellFormed(s[i]) /\ s[i].do \in {"take", "load", "judge"}
              /\ s[i].do = "judge" => LoadedBefore(s, i)
<1>0. Len(s) = 5
  BY DEF OneEvaluation
<1>1. s[1].do = "take" /\ s[1].lock = one /\ s[1].mode = oneMode /\ s[1].level = 0
  BY DEF OneEvaluation
<1>1b. s[2].do = "take" /\ s[2].lock = two /\ s[2].mode = twoMode /\ s[2].level = 0
  BY DEF OneEvaluation
<1>1c. s[3].do = "load" /\ s[3].token = t /\ s[3].level = 0
  BY DEF OneEvaluation
<1>1d. /\ s[4].do = "take" /\ s[4].lock = OnToken(t) /\ s[4].mode = "no key update"
       /\ s[4].level = 0
  BY DEF OneEvaluation
<1>1e. s[5].do = "judge" /\ s[5].token = t /\ s[5].level = 0
  BY DEF OneEvaluation
<1>f. w \in BoostWorker =>
        one = OnToken(t) /\ oneMode = "key share" /\ two = Wakeups /\ twoMode = "exclusive"
  BY DEF FirstLocks
<1>g. w \notin BoostWorker =>
        one = Gate /\ oneMode = "exclusive" /\ two = OnToken(t) /\ twoMode = "update"
  BY DEF FirstLocks
<1>1a. /\ s[1].do = "take" /\ s[2].do = "take" /\ s[3].do = "load" /\ s[4].do = "take"
       /\ s[5].do = "judge"
  BY <1>1, <1>1b, <1>1c, <1>1d, <1>1e
<1>2. \A i \in 1 .. Len(s) : i = 1 \/ i = 2 \/ i = 3 \/ i = 4 \/ i = 5
  BY <1>0
<1>3. \A i \in 1 .. Len(s) : s[i].do \in {"take", "load", "judge"} /\ s[i].level = 0
  BY <1>1, <1>1b, <1>1c, <1>1d, <1>1e, <1>2
<1>3a. \A i \in 1 .. Len(s) : s[i].do = "load" => i = 3
  BY <1>1a, <1>2
<1>3b. \A i \in 1 .. Len(s) : s[i].do = "judge" => i = 5
  BY <1>1a, <1>2
<1>4. \A i \in 1 .. Len(s) : WellFormed(s[i])
  <2>1. WellFormed(s[1]) /\ WellFormed(s[2])
    BY <1>1, <1>1b DEF WellFormed
  <2>2. WellFormed(s[3]) /\ WellFormed(s[5])
    BY <1>1c, <1>1e DEF WellFormed
  <2>3. WellFormed(s[4])
    BY <1>1d, ModesAre DEF WellFormed
  <2>. QED
    BY <1>2, <2>1, <2>2, <2>3
<1>5. LoadedBefore(s, 5)
  <2>1. 3 \in 1 .. 5 - 1 /\ s[3].do = "load" /\ s[3].token = s[5].token
    BY <1>1c, <1>1e
  <2>. QED
    BY <2>1 DEF LoadedBefore
<1>6. TakenBefore(s, 5, OnToken(t), Alone)
  <2>1. PICK lock : lock = OnToken(t)
    OBVIOUS
  <2>2. Takes(s[4], lock, Alone)
    BY <1>1d, <2>1 DEF Takes, Alone
  <2>3. 4 \in 1 .. 5 - 1
    OBVIOUS
  <2>4. TakenBefore(s, 5, lock, Alone)
    BY <2>2, <2>3 DEF TakenBefore
  <2>. QED
    BY <2>1, <2>4
<1>7. StepsGuarded(s, {})
  <2>1. ASSUME NEW i \in 1 .. Len(s), s[i].do = "judge"
        PROVE  TakenBefore(s, i, OnToken(s[i].token), Alone)
    BY <1>1e, <1>3b, <1>6, <2>1
  <2>. QED
    BY <1>3, <2>1 DEF StepsGuarded
<1>8. EvaluatedOnce(s, {})
  <2>1. ASSUME NEW i \in 1 .. Len(s), NEW j \in 1 .. Len(s), i < j, s[i].do # "take",
               s[j].do # "take"
        PROVE  s[i].do = "load" /\ s[j].do # "load"
    BY <1>1a, <1>2, <2>1
  <2>. QED
    BY <2>1 DEF EvaluatedOnce
<1>9. OneUnderWay(s)
  BY <1>3 DEF OneUnderWay
<1>10. LoadsLocked(w, s, {})
  <2>1. CASE w \notin BoostWorker
    <3>1. Takes(s[2], OnToken(t), Alone) /\ 2 \in 1 .. 3 - 1
      BY <1>1b, <1>g, <2>1 DEF Takes, Alone
    <3>2. TakenBefore(s, 3, OnToken(t), Alone)
      BY <3>1 DEF TakenBefore
    <3>3. \A i \in 1 .. Len(s) : s[i].do = "load" => TakenBefore(s, i, OnToken(s[i].token), Alone)
      BY <1>1c, <1>3a, <3>2
    <3>. QED
      BY <3>3 DEF LoadsLocked
  <2>. QED
    BY <2>1 DEF LoadsLocked
<1>11. Savepoints(w, s)
  BY <1>3 DEF Savepoints
<1>12. w \notin BoostWorker => GateFirst(w, s, {})
  <2>1. SUFFICES ASSUME w \notin BoostWorker PROVE s[1] = Take(Gate, GateMode(w), 0)
    BY DEF GateFirst
  <2>2. GateMode(w) = "exclusive"
    BY DEF GateMode
  <2>3. s[1] = Take(one, oneMode, 0)
    BY DEF OneEvaluation
  <2>. QED
    BY <1>g, <2>1, <2>2, <2>3
<1>13. Ranked(s, {})
  <2>1. StepRank(s[3]) = 4 /\ StepRank(s[5]) = 6
    BY <1>1c, <1>1e DEF StepRank
  <2>2. StepRank(s[4]) = 5
    <3>1. s[4].lock.on = "token"
      <4>1. OnToken(t).on = "token"
        BY DEF OnToken
      <4>. QED
        BY <1>1d, <4>1
    <3>2. LockRank(s[4].lock, s[4].mode) = 5
      BY <1>1d, <3>1 DEF LockRank
    <3>. QED
      BY <1>1d, <3>2 DEF StepRank
  <2>3. StepRank(s[1]) \in {1, 2} /\ StepRank(s[2]) \in {2, 3} /\ StepRank(s[1]) < StepRank(s[2])
    <3>1. \/ s[1].lock.on = "token" /\ s[1].mode = "key share" /\ s[2].lock.on = "wakeups"
          \/ s[1].lock.on = "gate" /\ s[2].lock.on = "token" /\ s[2].mode = "update"
      <4>1. CASE w \in BoostWorker
        <5>1. one.on = "token" /\ two.on = "wakeups"
          <6>1. OnToken(t).on = "token" /\ Wakeups.on = "wakeups"
            BY DEF OnToken, Wakeups
          <6>. QED
            BY <1>f, <4>1, <6>1
        <5>. QED
          BY <1>1, <1>1b, <1>f, <4>1, <5>1
      <4>2. CASE w \notin BoostWorker
        BY <1>1, <1>1b, <1>g, <4>2 DEF OnToken, Gate
      <4>. QED
        BY <4>1, <4>2
    <3>2. /\ StepRank(s[1]) = LockRank(s[1].lock, s[1].mode)
          /\ StepRank(s[2]) = LockRank(s[2].lock, s[2].mode)
      BY <1>1, <1>1b DEF StepRank
    <3>3. \/ StepRank(s[1]) = 2 /\ StepRank(s[2]) = 3
          \/ StepRank(s[1]) = 1 /\ StepRank(s[2]) = 2
      BY <3>1, <3>2 DEF LockRank
    <3>. QED
      BY <3>3
  <2>4. \A i, j \in 1 .. Len(s) : i < j => StepRank(s[i]) < StepRank(s[j])
    <3>1. ASSUME NEW i \in 1 .. Len(s), NEW j \in 1 .. Len(s), i < j
          PROVE  StepRank(s[i]) < StepRank(s[j])
      <4>1. (i = 1 \/ i = 2 \/ i = 3 \/ i = 4) /\ (j = 2 \/ j = 3 \/ j = 4 \/ j = 5)
        BY <1>0, <3>1
      <4>. QED
        BY <2>1, <2>2, <2>3, <3>1, <4>1
    <3>. QED
      BY <3>1
  <2>. QED
    BY <1>0, <1>3, <1>3b, <2>4 DEF Ranked
<1>14. About(w, t, s, {})
  <2>1. \A i \in 1 .. Len(s) :
          IF s[i].do = "take" THEN s[i].lock \in LocksOf(t) ELSE s[i].token = t
    <3>1. one \in LocksOf(t) /\ two \in LocksOf(t) /\ OnToken(t) \in LocksOf(t)
      BY <1>f, <1>g DEF LocksOf
    <3>. QED
      BY <1>1, <1>1b, <1>1c, <1>1d, <1>1e, <1>2, <3>1
  <2>2. CASE w \in BoostWorker
    <3>1. HasOrTakes(s, {}, OnToken(t), "key share") /\ HasOrTakes(s, {}, Wakeups, "exclusive")
      <4>1. Takes(s[1], OnToken(t), {"key share"}) /\ Takes(s[2], Wakeups, {"exclusive"})
        BY <1>1, <1>1b, <1>f, <2>2 DEF Takes
      <4>2. 1 \in 1 .. Len(s) /\ 2 \in 1 .. Len(s)
        BY <1>0
      <4>. QED
        BY <4>1, <4>2 DEF HasOrTakes
    <3>2. \A i \in 1 .. Len(s) : ~ Takes(s[i], Gate, Mode)
      <4>1. OnToken(t) # Gate /\ Wakeups # Gate
        BY DEF OnToken, Gate, Wakeups
      <4>. QED
        BY <1>1, <1>1b, <1>1c, <1>1d, <1>1e, <1>2, <1>f, <2>2, <4>1 DEF Takes
    <3>. QED
      BY <2>1, <2>2, <3>1, <3>2 DEF About, Holds
  <2>3. CASE w \notin BoostWorker
    <3>1. Takes(s[2], OnToken(t), {"update"}) /\ 2 \in 1 .. Len(s)
      BY <1>0, <1>1b, <1>g, <2>3 DEF Takes
    <3>. QED
      BY <2>1, <2>3, <3>1 DEF About, HasOrTakes
  <2>. QED
    BY <2>2, <2>3
<1>. QED
  BY <1>0, <1>3, <1>3b, <1>4, <1>5, <1>7, <1>8, <1>9, <1>10, <1>11, <1>12, <1>13, <1>14 DEF Plan

\* A transaction that begins with such steps is sound.
Begins(w, s) ==
  /\ s \in Seq(AnyStep) /\ Plan(w, s, {}, {})
  /\ w \notin PollWorker => \E t \in TokenId : About(w, t, s, {})
  /\ \A i \in 1 .. Len(s) :
       /\ WellFormed(s[i]) /\ s[i].do \in {"take", "load", "judge"}
       /\ s[i].do = "judge" => LoadedBefore(s, i)

LEMMA StartsSound ==
  ASSUME Types, NEW w \in Worker, NEW s, Begins(w, s), Starts(w, s)
  PROVE  Sound(w, txn'[w], held'[w], row)
<1>. DEFINE T == txn'[w]
<1>1. /\ held'[w] = held[w] /\ txn[w] = NoTransaction
      /\ T.todo = s /\ T.rows = NoRows
  BY DEF Starts
<1>2. held[w] = {}
  BY <1>1, NothingIsTyped DEF Types, Resting
<1>3. held'[w] = {} /\ DOMAIN T.rows = {}
  BY <1>1, <1>2, NothingIsTyped
<1>4. /\ Plan(w, s, {}, {})
      /\ \A i \in 1 .. Len(s) : s[i].do \in {"take", "load", "judge"}
      /\ \A i \in 1 .. Len(s) : s[i].do = "judge" => LoadedBefore(s, i)
  BY DEF Begins
<1>. HIDE DEF T
<1>5. Plan(w, T.todo, {}, DOMAIN T.rows)
  BY <1>1, <1>3, <1>4
<1>6. w \notin PollWorker /\ T.now # 0 => AboutOne(w, T.todo, {})
  <2>1. w \notin PollWorker => AboutOne(w, s, {})
    BY Zenon DEF Begins, AboutOne
  <2>. QED
    BY <1>1, <2>1
<1>7. WritesForward(w, T.rows, {}, row)
  BY <1>3 DEF WritesForward
<1>8. ReviewCounted(T.todo, {}, T.loaded, T.rows, row)
  <2>1. \A i \in 1 .. Len(T.todo) : ~ Raises(T.todo[i], T.loaded)
    BY <1>1, <1>4 DEF Raises
  <2>2. ~ Holds({}, Tier3Budget, Alone)
    BY DEF Holds
  <2>3. ReviewSeen(T.rows, row) \subseteq InReview(row)
    BY <1>3 DEF ReviewSeen, InReview
  <2>. QED
    BY <2>1, <2>2, <2>3 DEF ReviewCounted
<1>9. ASSUME NEW i \in 1 .. Len(s)
      PROVE  /\ StepKnown(w, s, i, {}, T.loaded, T.saw, row)
             /\ StepForward(s[i], T.loaded, T.now)
  <2>1. s[i].do # "promote" /\ s[i].do # "write"
    BY <1>4
  <2>2. s[i].do = "judge" => LoadedBefore(s, i)
    BY <1>4
  <2>. QED
    BY <2>1, <2>2 DEF StepKnown, StepForward
<1>10. \A i \in 1 .. Len(T.todo) :
         /\ StepKnown(w, T.todo, i, {}, T.loaded, T.saw, row)
         /\ StepForward(T.todo[i], T.loaded, T.now)
  BY <1>1, <1>9
<1>11. Sound(w, T, {}, row)
  BY <1>5, <1>6, <1>7, <1>8, <1>10 DEF Sound
<1>. QED
  BY <1>3, <1>11 DEF T

LEMMA PollBegins ==
  ASSUME NEW w \in PollWorker, NEW batch \in SUBSET TokenId, NEW selected \in SUBSET batch
  PROVE  Begins(w, PollSteps(batch, selected))
<1>1. PICK s : s = PollSteps(batch, selected)
  OBVIOUS
<1>2. /\ s \in Seq(AnyStep)
      /\ \E k \in Nat : \E o :
           /\ Placed(s, k, o)
           /\ \A q \in 1 .. k : o[q] \in TokenId
           /\ \A p, q \in 1 .. k : o[p] = o[q] => p = q
  BY <1>1, PollStepsArePlaced
<1>3. PICK k \in Counts : \E o :
           /\ Placed(s, k, o)
           /\ \A q \in 1 .. k : o[q] \in TokenId
           /\ \A p, q \in 1 .. k : o[p] = o[q] => p = q
  BY <1>2, Zenon DEF Counts
<1>4. PICK o :
           /\ Placed(s, k, o)
           /\ \A q \in 1 .. k : o[q] \in TokenId
           /\ \A p, q \in 1 .. k : o[p] = o[q] => p = q
  BY <1>3
<1>5. /\ Plan(w, s, {}, {})
      /\ \A i \in 1 .. Len(s) :
           /\ WellFormed(s[i]) /\ s[i].do \in {"take", "load", "judge"}
           /\ s[i].do = "judge" => LoadedBefore(s, i)
  BY <1>2, <1>4, PollPlanned, Zenon
<1>. QED
  BY <1>1, <1>2, <1>5, Zenon DEF Begins

LEMMA BoostBegins ==
  ASSUME NEW w \in BoostWorker, NEW t \in TokenId
  PROVE  Begins(w, BoostSteps(t))
<1>1. /\ w \in Worker /\ w \notin PollWorker
      /\ OnToken(t) \in LockKind /\ Wakeups \in LockKind
  BY LocksAreTyped, EvaluationAssumption DEF Worker
<1>2. PICK s : s = BoostSteps(t)
  OBVIOUS
<1>3. s = OneList(t, OnToken(t), "key share", Wakeups, "exclusive")
  BY <1>2, Zenon DEF BoostSteps, OneList
<1>4. s \in Seq(AnyStep) /\ OneEvaluation(s, t, OnToken(t), "key share", Wakeups, "exclusive")
  BY <1>1, <1>3, FiveSteps, ModesAre
<1>5. FirstLocks(w, t, OnToken(t), "key share", Wakeups, "exclusive")
  BY DEF FirstLocks
<1>6. /\ Plan(w, s, {}, {}) /\ About(w, t, s, {})
      /\ \A i \in 1 .. Len(s) :
           /\ WellFormed(s[i]) /\ s[i].do \in {"take", "load", "judge"}
           /\ s[i].do = "judge" => LoadedBefore(s, i)
  BY <1>1, <1>4, <1>5, OnePlanned, ModesAre, Zenon
<1>. QED
  BY <1>2, <1>4, <1>6, Zenon DEF Begins

LEMMA SecurityBegins ==
  ASSUME NEW w \in SecurityWorker, NEW t \in TokenId
  PROVE  Begins(w, SecuritySteps(t))
<1>1. /\ w \in Worker /\ w \notin PollWorker /\ w \notin BoostWorker
      /\ OnToken(t) \in LockKind /\ Gate \in LockKind
  BY LocksAreTyped, EvaluationAssumption DEF Worker
<1>2. PICK s : s = SecuritySteps(t)
  OBVIOUS
<1>3. s = OneList(t, Gate, "exclusive", OnToken(t), "update")
  BY <1>2, Zenon DEF SecuritySteps, OneList
<1>4. s \in Seq(AnyStep) /\ OneEvaluation(s, t, Gate, "exclusive", OnToken(t), "update")
  BY <1>1, <1>3, FiveSteps, ModesAre
<1>5. FirstLocks(w, t, Gate, "exclusive", OnToken(t), "update")
  BY <1>1 DEF FirstLocks
<1>6. /\ Plan(w, s, {}, {}) /\ About(w, t, s, {})
      /\ \A i \in 1 .. Len(s) :
           /\ WellFormed(s[i]) /\ s[i].do \in {"take", "load", "judge"}
           /\ s[i].do = "judge" => LoadedBefore(s, i)
  BY <1>1, <1>4, <1>5, OnePlanned, ModesAre, Zenon
<1>. QED
  BY <1>2, <1>4, <1>6, Zenon DEF Begins

-----------------------------------------------------------------------------
(* The invariant.                                                          *)

AllWellFormed(s) == \A i \in 1 .. Len(s) : WellFormed(s[i])

LEMMA RestWellFormed ==
  ASSUME NEW s \in Seq(AnyStep), NEW L, AllWellFormed(s)
  PROVE  AllWellFormed(Rest(s, L))
<1>1. PICK k \in 0 .. Len(s) : Without(s, k, Rest(s, L))
  BY RestIs
<1>. DEFINE r == Rest(s, L)
<1>2. Len(r) = Len(s) - k /\ \A i \in 1 .. Len(r) : r[i] = s[i + k]
  BY <1>1 DEF Without
<1>. HIDE DEF r
<1>3. Len(s) \in Nat
  OBVIOUS
<1>4. \A i \in 1 .. Len(r) : i + k \in 1 .. Len(s)
  BY <1>2, <1>3
<1>5. AllWellFormed(r)
  BY <1>2, <1>4 DEF AllWellFormed
<1>. QED
  BY <1>5 DEF r

LEMMA TailWellFormed ==
  ASSUME NEW s \in Seq(AnyStep), s # <<>>, AllWellFormed(s)
  PROVE  Tail(s) \in Seq(AnyStep) /\ AllWellFormed(Tail(s))
<1>1. /\ Tail(s) \in Seq(AnyStep) /\ Len(s) \in Nat \ {0} /\ Len(Tail(s)) = Len(s) - 1
      /\ \A i \in 1 .. Len(s) - 1 : Tail(s)[i] = s[i + 1]
  BY TailIs
<1>2. \A i \in 1 .. Len(s) - 1 : i + 1 \in 1 .. Len(s)
  BY <1>1
<1>. QED
  BY <1>1, <1>2 DEF AllWellFormed

LEMMA JoinWellFormed ==
  ASSUME NEW a \in Seq(AnyStep), NEW b \in Seq(AnyStep), AllWellFormed(a), AllWellFormed(b)
  PROVE  a \o b \in Seq(AnyStep) /\ AllWellFormed(a \o b)
<1>1. PICK u : u = a \o b
  OBVIOUS
<1>2. u \in Seq(AnyStep) /\ JoinOf(u, a, b)
  BY <1>1, Joined
<1>3. /\ Len(u) = Len(a) + Len(b) /\ Len(a) \in Nat /\ Len(b) \in Nat
      /\ \A i \in 1 .. Len(a) : u[i] = a[i]
      /\ \A i \in Len(a) + 1 .. Len(a) + Len(b) : u[i] = b[i - Len(a)]
  BY <1>2 DEF JoinOf
<1>4. ASSUME NEW i \in 1 .. Len(u) PROVE WellFormed(u[i])
  <2>1. CASE i \in 1 .. Len(a)
    BY <1>3, <2>1 DEF AllWellFormed
  <2>2. CASE i \in Len(a) + 1 .. Len(a) + Len(b)
    <3>1. i - Len(a) \in 1 .. Len(b)
      BY <1>3, <2>2
    <3>. QED
      BY <1>3, <2>2, <3>1 DEF AllWellFormed
  <2>. QED
    BY <1>3, <2>1, <2>2
<1>. QED
  BY <1>1, <1>2, <1>4 DEF AllWellFormed

\* The others have the locks they had.
LEMMA LocksShrink ==
  ASSUME LocksExclude, NEW w \in Worker, Others(w), held'[w] \subseteq held[w]
  PROVE  LocksExclude'
<1>1. \A v \in Worker : held'[v] \subseteq held[v]
  BY DEF Others
<1>. QED
  BY <1>1 DEF LocksExclude

LEMMA CompatibleIsSymmetric ==
  \A m, n : Compatible(m, n) <=> Compatible(n, m)
BY DEF Compatible

LEMMA LocksAcquired ==
  ASSUME LocksExclude, NEW w \in Worker, Others(w), NEW step,
         held'[w] = held[w] \cup {Wanted(step)}, Blockers(w, step.lock, step.mode) = {}
  PROVE  LocksExclude'
<1>. DEFINE new == Wanted(step)
<1>1. new.lock = step.lock /\ new.mode = step.mode
  BY DEF Wanted
<1>. HIDE DEF new
<1>2. held'[w] = held[w] \cup {new}
  BY DEF new
<1>3. ASSUME NEW v \in Worker \ {w}, NEW h \in held[v], h.lock = new.lock
      PROVE  Compatible(new.mode, h.mode) /\ Compatible(h.mode, new.mode)
  <2>1. v \notin Blockers(w, step.lock, step.mode)
    OBVIOUS
  <2>2. Compatible(step.mode, h.mode)
    BY <1>1, <1>3, <2>1 DEF Blockers
  <2>. QED
    BY <1>1, <2>2, CompatibleIsSymmetric
<1>4. SUFFICES ASSUME NEW u \in Worker, NEW v \in Worker, u # v, NEW g \in held'[u],
                      NEW h \in held'[v], g.lock = h.lock
               PROVE  Compatible(g.mode, h.mode)
  BY DEF LocksExclude
<1>5. CASE u # w /\ v # w
  BY <1>4, <1>5 DEF Others, LocksExclude
<1>6. CASE u = w
  <2>1. h \in held[v] /\ v \in Worker \ {w}
    BY <1>4, <1>6 DEF Others
  <2>2. CASE g \in held[w]
    BY <1>4, <1>6, <2>1, <2>2 DEF LocksExclude
  <2>3. CASE g = new
    BY <1>3, <1>4, <2>1, <2>3
  <2>. QED
    BY <1>2, <1>4, <1>6, <2>2, <2>3
<1>7. CASE v = w
  <2>1. g \in held[u] /\ u \in Worker \ {w}
    BY <1>4, <1>7 DEF Others
  <2>2. CASE h \in held[w]
    BY <1>4, <1>7, <2>1, <2>2 DEF LocksExclude
  <2>3. CASE h = new
    BY <1>3, <1>4, <2>1, <2>3
  <2>. QED
    BY <1>2, <1>4, <1>7, <2>2, <2>3
<1>. QED
  BY <1>5, <1>6, <1>7

\* A worker with something to do has a transaction.
LEMMA BusyWorks ==
  ASSUME Types, NEW w \in Worker, txn[w].todo # <<>>
  PROVE  txn[w].now # 0
<1>1. Resting(w)
  BY DEF Types
<1>. QED
  BY <1>1, NothingIsTyped DEF Resting

\* A transaction that goes on.
LEMMA OneMoves ==
  ASSUME EvaluationInv, NEW w \in Worker, Typed, Others(w),
         UNCHANGED <<clock, row, overlay>>, begun' \in 0 .. MaxTransactions,
         Sound(w, txn'[w], held'[w], row), LocksExclude', AllWellFormed(txn'[w].todo),
         txn'[w].now <= clock, Resting(w)'
  PROVE  EvaluationInv'
<1>0. Types /\ Cardinality(InReview(row)) <= MaxTier3 /\ row' = row
  BY DEF EvaluationInv
<1>1. \A v \in Worker : Sound(v, txn'[v], held'[v], row')
  <2>1. \A v \in Worker : Sound(v, txn[v], held[v], row)
    BY DEF EvaluationInv
  <2>2. ASSUME NEW v \in Worker PROVE Sound(v, txn'[v], held'[v], row)
    <3>1. CASE v = w
      BY <3>1
    <3>2. CASE v # w
      <4>1. txn'[v] = txn[v] /\ held'[v] = held[v]
        BY <3>2 DEF Others
      <4>. QED
        BY <2>1, <4>1
    <3>. QED
      BY <3>1, <3>2
  <2>. QED
    BY <1>0, <2>2
<1>2. Types'
  <2>1. /\ clock' \in 1 .. MaxClock /\ row' \in [TokenId -> Row] /\ overlay' \in [TokenId -> Until]
    BY <1>0 DEF Types
  <2>2. held' \in [Worker -> SUBSET Held] /\ txn' \in [Worker -> Transaction]
    BY DEF Typed
  <2>3. ASSUME NEW v \in Worker
        PROVE  /\ \A i \in 1 .. Len(txn'[v].todo) : WellFormed(txn'[v].todo[i])
               /\ txn'[v].now <= clock' /\ Resting(v)'
    <3>1. CASE v = w
      BY <3>1 DEF AllWellFormed
    <3>2. CASE v # w
      <4>1. txn'[v] = txn[v] /\ held'[v] = held[v]
        BY <3>2 DEF Others
      <4>2. /\ \A i \in 1 .. Len(txn[v].todo) : WellFormed(txn[v].todo[i])
            /\ txn[v].now <= clock /\ (txn[v].now = 0 => txn[v] = NoTransaction /\ held[v] = {})
        BY <1>0 DEF Types, Resting
      <4>. QED
        BY <4>1, <4>2 DEF Resting
    <3>. QED
      BY <3>1, <3>2
  <2>. QED
    BY <2>1, <2>2, <2>3 DEF Types
<1>3. Cardinality(InReview(row')) <= MaxTier3
  BY <1>0
<1>. QED
  BY <1>1, <1>2, <1>3 DEF EvaluationInv

LEMMA BusyMoves ==
  ASSUME EvaluationInv, NEW w \in Worker, Typed, Others(w), SameBase, txn[w].todo # <<>>,
         txn'[w].now = txn[w].now,
         Sound(w, txn'[w], held'[w], row), LocksExclude', AllWellFormed(txn'[w].todo)
  PROVE  EvaluationInv'
<1>1. Types
  BY DEF EvaluationInv
<1>2. txn[w].now # 0 /\ txn[w].now <= clock /\ begun \in 0 .. MaxTransactions
  BY <1>1, BusyWorks DEF Types
<1>3. Resting(w)'
  BY <1>2 DEF Resting
<1>4. UNCHANGED <<clock, row, overlay>> /\ begun' \in 0 .. MaxTransactions
  BY <1>2 DEF SameBase
<1>. QED
  BY <1>2, <1>3, <1>4, OneMoves

LEMMA AcquireKeeps ==
  ASSUME EvaluationInv, NEW w \in Worker, Acquire(w)
  PROVE  EvaluationInv'
<1>. DEFINE s == txn[w].todo
            M == held[w] \cup {Wanted(s[1])}
<1>0. /\ Types /\ LocksExclude /\ Cardinality(InReview(row)) <= MaxTier3
      /\ Sound(w, txn[w], held[w], row)
  BY DEF EvaluationInv
<1>1. /\ s # <<>> /\ s[1].do = "take" /\ Blockers(w, s[1].lock, s[1].mode) = {}
      /\ Typed /\ Others(w) /\ SameData(w) /\ SameBase
      /\ held'[w] = M /\ txn'[w].todo = Rest(Tail(s), M)
  BY <1>0, AcquireEffect
<1>2. Sound(w, txn'[w], held'[w], row)
  BY <1>0, AcquireSound
<1>3. s \in Seq(AnyStep) /\ AllWellFormed(s)
  BY <1>0, <1>1, HeadTyped DEF Types, AllWellFormed
<1>. HIDE DEF M
<1>4. AllWellFormed(txn'[w].todo)
  BY <1>1, <1>3, TailWellFormed, RestWellFormed
<1>5. LocksExclude'
  BY <1>0, <1>1, LocksAcquired DEF M
<1>6. txn'[w].now = txn[w].now
  BY <1>1 DEF SameData
<1>. QED
  BY <1>1, <1>2, <1>4, <1>5, <1>6, BusyMoves

LEMMA LoadKeeps ==
  ASSUME EvaluationInv, NEW w \in Worker, Load(w)
  PROVE  EvaluationInv'
<1>. DEFINE s == txn[w].todo
<1>0. Types /\ LocksExclude /\ Sound(w, txn[w], held[w], row)
  BY DEF EvaluationInv
<1>1. /\ s # <<>> /\ s[1].do = "load" /\ s[1].token \in TokenId
      /\ Ends(w) \/ Loads(w)
  BY <1>0, LoadEffect
<1>2. Sound(w, txn'[w], held'[w], row)
  BY <1>0, <1>1, LoadsSound, EndsSound
<1>3. s \in Seq(AnyStep) /\ AllWellFormed(s)
  BY <1>0, <1>1, HeadTyped DEF Types, AllWellFormed
<1>4. /\ Typed /\ Others(w) /\ SameBase /\ held'[w] = held[w] /\ txn'[w].now = txn[w].now
  BY <1>1 DEF Ends, Loads, SameData
<1>5. AllWellFormed(txn'[w].todo)
  <2>1. CASE Ends(w)
    <3>1. Len(<<>>) = 0 /\ 1 .. 0 = {} /\ txn'[w].todo = <<>>
      BY <2>1 DEF Ends
    <3>. QED
      BY <3>1 DEF AllWellFormed
  <2>2. CASE Loads(w)
    <3>1. txn'[w].todo = Rest(Tail(s), held[w])
      BY <2>2 DEF Loads
    <3>. QED
      BY <1>1, <1>3, <3>1, TailWellFormed, RestWellFormed
  <2>. QED
    BY <1>1, <2>1, <2>2
<1>6. LocksExclude'
  BY <1>0, <1>4, LocksShrink
<1>. QED
  BY <1>1, <1>2, <1>4, <1>5, <1>6, BusyMoves

LEMMA GoesOnKeeps ==
  ASSUME EvaluationInv, NEW w \in Worker, txn[w].todo # <<>>,
         txn[w].todo[1].do \in {"judge", "promote"}, NEW n \in Seq(AnyStep), GoesOn(w, n)
  PROVE  EvaluationInv'
<1>. DEFINE s == txn[w].todo
<1>0. Types /\ LocksExclude /\ Sound(w, txn[w], held[w], row)
  BY DEF EvaluationInv
<1>2. Sound(w, txn'[w], held'[w], row)
  BY <1>0, GoesOnSound
<1>3. s \in Seq(AnyStep) /\ AllWellFormed(s)
  BY <1>0, HeadTyped DEF Types, AllWellFormed
<1>4. /\ Typed /\ Others(w) /\ SameBase /\ SameData(w) /\ held'[w] = held[w]
      /\ txn'[w].todo = Rest(n \o Tail(s), held[w]) /\ AllWellFormed(n)
  BY DEF GoesOn, AllWellFormed
<1>5. AllWellFormed(txn'[w].todo)
  <2>1. Tail(s) \in Seq(AnyStep) /\ AllWellFormed(Tail(s))
    BY <1>3, TailWellFormed
  <2>2. n \o Tail(s) \in Seq(AnyStep) /\ AllWellFormed(n \o Tail(s))
    BY <1>4, <2>1, JoinWellFormed
  <2>. QED
    BY <1>4, <2>2, RestWellFormed
<1>6. LocksExclude' /\ txn'[w].now = txn[w].now
  BY <1>0, <1>4, LocksShrink DEF SameData
<1>. QED
  BY <1>2, <1>4, <1>5, <1>6, BusyMoves

LEMMA DecisionKeeps ==
  ASSUME EvaluationInv, NEW w \in Worker, Judge(w) \/ Promote(w)
  PROVE  EvaluationInv'
<1>1. Types /\ Sound(w, txn[w], held[w], row)
  BY DEF EvaluationInv
<1>2. /\ txn[w].todo # <<>> /\ txn[w].todo[1].do \in {"judge", "promote"}
      /\ \E n \in Seq(AnyStep) : GoesOn(w, n)
  <2>1. CASE Judge(w)
    BY <1>1, <2>1, JudgeEffect
  <2>2. CASE Promote(w)
    BY <1>1, <2>2, PromoteEffect
  <2>. QED
    BY <2>1, <2>2
<1>. QED
  BY <1>2, GoesOnKeeps

LEMMA ProjectKeeps ==
  ASSUME EvaluationInv, NEW w \in Worker, Project(w)
  PROVE  EvaluationInv'
<1>. DEFINE s == txn[w].todo
<1>0. Types /\ LocksExclude /\ Sound(w, txn[w], held[w], row)
  BY DEF EvaluationInv
<1>1. s # <<>> /\ s[1].do = "write" /\ Writes(w)
  BY <1>0, ProjectEffect
<1>2. Sound(w, txn'[w], held'[w], row)
  BY <1>0, <1>1, WritesSound
<1>3. s \in Seq(AnyStep) /\ AllWellFormed(s)
  BY <1>0, <1>1, HeadTyped DEF Types, AllWellFormed
<1>4. /\ Typed /\ Others(w) /\ SameBase /\ held'[w] = held[w] /\ txn'[w].now = txn[w].now
      /\ txn'[w].todo = Rest(Tail(s), held[w])
  BY <1>1 DEF Writes
<1>5. AllWellFormed(txn'[w].todo)
  BY <1>1, <1>3, <1>4, TailWellFormed, RestWellFormed
<1>6. LocksExclude'
  BY <1>0, <1>4, LocksShrink
<1>. QED
  BY <1>1, <1>2, <1>4, <1>5, <1>6, BusyMoves

\* A transaction that ends, and what the others see of it.
LEMMA FinishKeeps ==
  ASSUME EvaluationInv, NEW w \in Worker, Finishes(w), row' \in [TokenId -> Row],
         overlay' \in [TokenId -> Until], Cardinality(InReview(row')) <= MaxTier3,
         \A v \in Worker \ {w} : Sound(v, txn[v], held[v], row')
  PROVE  EvaluationInv'
<1>0. Types /\ LocksExclude
  BY DEF EvaluationInv
<1>1. /\ Typed /\ Others(w) /\ txn'[w] = NoTransaction /\ held'[w] = {}
      /\ UNCHANGED <<clock, begun>>
  BY DEF Finishes
<1>2. LocksExclude'
  BY <1>0, <1>1, LocksShrink
<1>3. \A v \in Worker : Sound(v, txn'[v], held'[v], row')
  <2>1. ASSUME NEW v \in Worker PROVE Sound(v, txn'[v], held'[v], row')
    <3>1. CASE v = w
      <4>1. Sound(w, NoTransaction, {}, row')
        BY RestingSound
      <4>. QED
        BY <1>1, <3>1, <4>1
    <3>2. CASE v # w
      <4>1. txn'[v] = txn[v] /\ held'[v] = held[v] /\ v \in Worker \ {w}
        BY <1>1, <3>2 DEF Others
      <4>. QED
        BY <4>1
    <3>. QED
      BY <3>1, <3>2
  <2>. QED
    BY <2>1
<1>4. Types'
  <2>1. clock' \in 1 .. MaxClock /\ begun' \in 0 .. MaxTransactions /\ clock \in 1 .. MaxClock
    BY <1>0, <1>1 DEF Types
  <2>2. held' \in [Worker -> SUBSET Held] /\ txn' \in [Worker -> Transaction]
    BY <1>1 DEF Typed
  <2>3. ASSUME NEW v \in Worker
        PROVE  /\ \A i \in 1 .. Len(txn'[v].todo) : WellFormed(txn'[v].todo[i])
               /\ txn'[v].now <= clock' /\ Resting(v)'
    <3>1. CASE v = w
      <4>1. txn'[v] = NoTransaction /\ held'[v] = {}
        BY <1>1, <3>1
      <4>2. txn'[v].todo = <<>> /\ txn'[v].now = 0 /\ Len(<<>>) = 0
        BY <4>1, NothingIsTyped
      <4>3. \A i \in 1 .. Len(txn'[v].todo) : WellFormed(txn'[v].todo[i])
        BY <4>2
      <4>. QED
        BY <2>1, <4>1, <4>2, <4>3 DEF Resting
    <3>2. CASE v # w
      <4>1. txn'[v] = txn[v] /\ held'[v] = held[v] /\ clock' = clock
        BY <1>1, <3>2 DEF Others
      <4>2. /\ \A i \in 1 .. Len(txn[v].todo) : WellFormed(txn[v].todo[i])
            /\ txn[v].now <= clock /\ (txn[v].now = 0 => txn[v] = NoTransaction /\ held[v] = {})
        BY <1>0 DEF Types, Resting
      <4>. QED
        BY <4>1, <4>2 DEF Resting
    <3>. QED
      BY <3>1, <3>2
  <2>. QED
    BY <2>1, <2>2, <2>3 DEF Types
<1>. QED
  BY <1>2, <1>3, <1>4 DEF EvaluationInv

LEMMA CommitKeeps ==
  ASSUME EvaluationInv, NEW w \in Worker, Commit(w)
  PROVE  EvaluationInv'
<1>0. /\ Types /\ LocksExclude /\ Cardinality(InReview(row)) <= MaxTier3
      /\ \A v \in Worker : Sound(v, txn[v], held[v], row)
  BY DEF EvaluationInv
<1>1. /\ Finishes(w) /\ row' \in [TokenId -> Row] /\ overlay' \in [TokenId -> Until]
      /\ \A t \in TokenId : row'[t] = RowSeen(w, t)
  BY <1>0, CommitEffect
<1>2. \A v \in Worker \ {w} : Sound(v, txn[v], held[v], row')
  BY <1>0, <1>1, OthersSound
<1>3. Cardinality(InReview(row')) <= MaxTier3
  <2>1. /\ Holds(held[w], Tier3Budget, Alone) => Cardinality(InReview(row')) <= MaxTier3
        /\ ~ Holds(held[w], Tier3Budget, Alone) => InReview(row') \subseteq InReview(row)
    BY <1>0, <1>1, CommittedReview
  <2>2. CASE ~ Holds(held[w], Tier3Budget, Alone)
    <3>1. InReview(row') \subseteq InReview(row) /\ IsFiniteSet(InReview(row))
      BY <2>1, <2>2, ReviewIsFinite
    <3>2. Cardinality(InReview(row')) <= Cardinality(InReview(row))
      BY <3>1, FS_Subset
    <3>3. /\ Cardinality(InReview(row')) \in Nat /\ Cardinality(InReview(row)) \in Nat
          /\ MaxTier3 \in Nat
      BY ReviewIsFinite, EvaluationAssumption
    <3>. QED
      BY <1>0, <3>2, <3>3
  <2>. QED
    BY <2>1, <2>2
<1>. QED
  BY <1>1, <1>2, <1>3, FinishKeeps

LEMMA AbortKeeps ==
  ASSUME EvaluationInv, NEW w \in Worker, Abort(w)
  PROVE  EvaluationInv'
<1>0. /\ Types /\ LocksExclude /\ Cardinality(InReview(row)) <= MaxTier3
      /\ \A v \in Worker : Sound(v, txn[v], held[v], row)
  BY DEF EvaluationInv
<1>1. txn[w].todo # <<>> /\ ((Finishes(w) /\ SameBase) \/ Retreats(w))
  BY <1>0, AbortEffect
<1>2. CASE Finishes(w) /\ SameBase
  <2>1. row' = row /\ overlay' = overlay
    BY <1>2 DEF SameBase
  <2>2. row' \in [TokenId -> Row] /\ overlay' \in [TokenId -> Until]
    BY <1>0, <2>1 DEF Types
  <2>. QED
    BY <1>0, <1>2, <2>1, <2>2, FinishKeeps
<1>3. CASE Retreats(w)
  <2>. DEFINE s == txn[w].todo
              M == {h \in held[w] : h.level < s[1].level}
              r == Rest(Outside(s), M)
  <2>1. /\ s[1].level # 0 /\ Typed /\ Others(w) /\ SameBase /\ held'[w] = M
        /\ txn'[w].todo = r /\ txn'[w].now = txn[w].now
    BY <1>3 DEF Retreats
  <2>2. Sound(w, txn'[w], held'[w], row)
    BY <1>0, <1>1, <1>3, RetreatsSound
  <2>3. s \in Seq(AnyStep) /\ AllWellFormed(s) /\ held[w] \in SUBSET Held
    BY <1>0, <1>1, HeadTyped DEF Types, AllWellFormed
  <2>4. Plan(w, s, held[w], DOMAIN txn[w].rows)
    BY <1>0 DEF Sound
  <2>5. \A i \in 1 .. Len(r) : \E j \in 1 .. Len(s) : r[i] = s[j]
    BY <1>1, <2>1, <2>3, <2>4, PlanLost
  <2>6. held'[w] \subseteq held[w]
    BY <2>1
  <2>. HIDE DEF r, M
  <2>7. AllWellFormed(r)
    BY <2>3, <2>5 DEF AllWellFormed
  <2>8. LocksExclude'
    BY <1>0, <2>1, <2>6, LocksShrink
  <2>. QED
    BY <1>1, <2>1, <2>2, <2>7, <2>8, BusyMoves
<1>. QED
  BY <1>1, <1>2, <1>3

LEMMA StartKeeps ==
  ASSUME EvaluationInv, NEW w \in Worker, NEW s, Begins(w, s), Starts(w, s)
  PROVE  EvaluationInv'
<1>0. Types /\ LocksExclude
  BY DEF EvaluationInv
<1>1. /\ Typed /\ Others(w) /\ held'[w] = held[w] /\ txn'[w].todo = s /\ txn'[w].now = clock
      /\ UNCHANGED <<clock, row, overlay>> /\ begun' \in 0 .. MaxTransactions
  BY DEF Starts
<1>2. Sound(w, txn'[w], held'[w], row)
  BY <1>0, StartsSound
<1>3. AllWellFormed(txn'[w].todo)
  BY <1>1 DEF Begins, AllWellFormed
<1>4. LocksExclude'
  BY <1>0, <1>1, LocksShrink
<1>5. clock \in 1 .. MaxClock /\ MaxClock \in Nat
  BY <1>0, EvaluationAssumption DEF Types
<1>6. Resting(w)' /\ txn'[w].now <= clock
  BY <1>1, <1>5 DEF Resting
<1>. QED
  BY <1>1, <1>2, <1>3, <1>4, <1>6, OneMoves

LEMMA BeginKeeps ==
  ASSUME EvaluationInv, NEW w \in Worker, NEW steps, NEW batch \in SUBSET TokenId,
         Begins(w, steps), Begin(w, steps, batch)
  PROVE  EvaluationInv'
<1>1. Types
  BY DEF EvaluationInv
<1>2. steps \in Seq(AnyStep)
  BY DEF Begins
<1>3. Starts(w, steps)
  BY <1>1, <1>2, BeginEffect
<1>. QED
  BY <1>3, StartKeeps

LEMMA TickKeeps ==
  ASSUME EvaluationInv, Tick
  PROVE  EvaluationInv'
<1>0. Types /\ LocksExclude
  BY DEF EvaluationInv
<1>1. /\ clock < MaxClock /\ clock' = clock + 1 /\ row' = row /\ overlay' = overlay /\ held' = held
      /\ txn' = txn /\ begun' = begun
  BY DEF Tick
<1>2. clock' \in 1 .. MaxClock /\ clock \in Nat /\ clock <= clock'
  BY <1>0, <1>1, EvaluationAssumption DEF Types
<1>3. \A w \in Worker : txn'[w].now <= clock'
  <2>1. \A w \in Worker : txn[w].now <= clock /\ txn[w] \in Transaction
    BY <1>0 DEF Types
  <2>2. \A w \in Worker : txn[w].now \in 0 .. MaxClock
    BY <2>1 DEF Transaction
  <2>. QED
    BY <1>1, <1>2, <2>1, <2>2, EvaluationAssumption
<1>4. Types'
  BY <1>0, <1>1, <1>2, <1>3 DEF Types, Resting
<1>5. LocksExclude'
  BY <1>0, <1>1 DEF LocksExclude
<1>. QED
  BY <1>1, <1>4, <1>5 DEF EvaluationInv

LEMMA StutterKeeps ==
  ASSUME EvaluationInv, UNCHANGED evaluationVars
  PROVE  EvaluationInv'
<1>1. /\ clock' = clock /\ row' = row /\ overlay' = overlay /\ held' = held /\ txn' = txn
      /\ begun' = begun
  BY DEF evaluationVars
<1>2. Types'
  BY <1>1 DEF EvaluationInv, Types, Resting
<1>3. LocksExclude'
  BY <1>1 DEF EvaluationInv, LocksExclude
<1>. QED
  BY <1>1, <1>2, <1>3 DEF EvaluationInv

LEMMA EvaluationInitial ==
  EvaluationInit => EvaluationInv
<1>. SUFFICES ASSUME EvaluationInit PROVE EvaluationInv
  OBVIOUS
<1>1. /\ clock = 2 /\ begun = 0 /\ overlay = [t \in TokenId |-> row[t].expires]
      /\ held = [w \in Worker |-> {}] /\ txn = [w \in Worker |-> NoTransaction]
  BY DEF EvaluationInit
<1>2. PICK tiers \in Standing : row = [t \in TokenId |-> Left(tiers[t])]
  BY DEF EvaluationInit
<1>3. \A t \in TokenId : tiers[t] \in 0 .. 2
  BY EvaluationAssumption
<1>4. ASSUME NEW tier \in 0 .. 2 PROVE Left(tier) \in Row /\ Left(tier).tier = tier
  <2>1. 1 \in 0 .. MaxClock /\ 0 \in 0 .. MaxClock /\ 1 + TTL \in Until /\ 0 \in Until
    BY EvaluationAssumption DEF Until
  <2>2. CASE tier = 0
    BY <2>1, <2>2 DEF Left, Universal, Never, Row
  <2>3. CASE tier # 0
    BY <2>1, <2>3 DEF Left, Never, Row
  <2>. QED
    BY <2>2, <2>3
<1>5. row \in [TokenId -> Row] /\ \A t \in TokenId : row[t].tier # 3
  <2>1. \A t \in TokenId : Left(tiers[t]) \in Row /\ Left(tiers[t]).tier # 3
    BY <1>3, <1>4
  <2>. QED
    BY <1>2, <2>1
<1>6. overlay \in [TokenId -> Until]
  <2>1. \A t \in TokenId : row[t].expires \in Until
    BY <1>5 DEF Row
  <2>. QED
    BY <1>1, <2>1
<1>7. \A w \in Worker : held[w] = {} /\ txn[w] = NoTransaction
  BY <1>1
<1>8. Types
  <2>1. clock \in 1 .. MaxClock /\ begun \in 0 .. MaxTransactions
    BY <1>1, EvaluationAssumption
  <2>2. held \in [Worker -> SUBSET Held] /\ txn \in [Worker -> Transaction]
    BY <1>1, NothingIsTyped
  <2>3. ASSUME NEW w \in Worker
        PROVE  /\ \A i \in 1 .. Len(txn[w].todo) : WellFormed(txn[w].todo[i])
               /\ txn[w].now <= clock /\ Resting(w)
    <3>1. txn[w].todo = <<>> /\ txn[w].now = 0 /\ Len(<<>>) = 0
      BY <1>7, NothingIsTyped
    <3>2. \A i \in 1 .. Len(txn[w].todo) : WellFormed(txn[w].todo[i])
      BY <3>1
    <3>. QED
      BY <1>1, <1>7, <3>1, <3>2 DEF Resting
  <2>. QED
    BY <1>5, <1>6, <2>1, <2>2, <2>3 DEF Types
<1>9. LocksExclude
  BY <1>7 DEF LocksExclude
<1>10. Cardinality(InReview(row)) <= MaxTier3
  <2>1. InReview(row) = {}
    BY <1>5 DEF InReview
  <2>. QED
    BY <2>1, FS_EmptySet, EvaluationAssumption
<1>11. \A w \in Worker : Sound(w, txn[w], held[w], row)
  BY <1>7, RestingSound
<1>. QED
  BY <1>8, <1>9, <1>10, <1>11 DEF EvaluationInv

LEMMA EvaluationStep ==
  EvaluationInv /\ [EvaluationNext]_evaluationVars => EvaluationInv'
<1>. SUFFICES ASSUME EvaluationInv, [EvaluationNext]_evaluationVars PROVE EvaluationInv'
  OBVIOUS
<1>0. PollWorker \subseteq Worker /\ BoostWorker \subseteq Worker /\ SecurityWorker \subseteq Worker
  BY DEF Worker
<1>1. CASE Tick
  BY <1>1, TickKeeps
<1>2. ASSUME NEW w \in PollWorker, BeginPoll(w) PROVE EvaluationInv'
  <2>1. PICK batch \in SUBSET TokenId :
          \E selected \in SUBSET batch : Begin(w, PollSteps(batch, selected), batch)
    BY <1>2 DEF BeginPoll
  <2>2. PICK selected \in SUBSET batch : Begin(w, PollSteps(batch, selected), batch)
    BY <2>1
  <2>3. Begins(w, PollSteps(batch, selected))
    BY PollBegins
  <2>. QED
    BY <1>0, <2>2, <2>3, BeginKeeps
<1>3. ASSUME NEW w \in BoostWorker, BeginBoost(w) PROVE EvaluationInv'
  <2>1. PICK t \in TokenId : Begin(w, BoostSteps(t), {})
    BY <1>3 DEF BeginBoost
  <2>2. Begins(w, BoostSteps(t))
    BY BoostBegins
  <2>. QED
    BY <1>0, <2>1, <2>2, BeginKeeps
<1>4. ASSUME NEW w \in SecurityWorker, BeginSecurity(w) PROVE EvaluationInv'
  <2>1. PICK t \in TokenId : Begin(w, SecuritySteps(t), {})
    BY <1>4 DEF BeginSecurity
  <2>2. Begins(w, SecuritySteps(t))
    BY SecurityBegins
  <2>. QED
    BY <1>0, <2>1, <2>2, BeginKeeps
<1>5. ASSUME NEW w \in Worker, Work(w) PROVE EvaluationInv'
  <2>1. CASE Acquire(w)
    BY <2>1, AcquireKeeps
  <2>2. CASE Load(w)
    BY <2>2, LoadKeeps
  <2>3. CASE Judge(w) \/ Promote(w)
    BY <2>3, DecisionKeeps
  <2>4. CASE Project(w)
    BY <2>4, ProjectKeeps
  <2>5. CASE Commit(w)
    BY <2>5, CommitKeeps
  <2>6. CASE Abort(w)
    BY <2>6, AbortKeeps
  <2>. QED
    BY <1>5, <2>1, <2>2, <2>3, <2>4, <2>5, <2>6 DEF Work
<1>6. CASE UNCHANGED evaluationVars
  BY <1>6, StutterKeeps
<1>. QED
  BY <1>1, <1>2, <1>3, <1>4, <1>5, <1>6 DEF EvaluationNext

LEMMA EvaluationInvariance ==
  EvaluationSpec => []EvaluationInv
BY EvaluationInitial, EvaluationStep, PTL DEF EvaluationSpec

LEMMA EvaluationConsistency ==
  EvaluationInv => EvaluationsConsistent
<1>. SUFFICES ASSUME EvaluationInv PROVE EvaluationsConsistent
  OBVIOUS
<1>1. Types
  BY DEF EvaluationInv
<1>2. Tier3Capped
  BY DEF EvaluationInv, InReview, Tier3Capped
<1>3. ASSUME NEW w \in Worker
      PROVE  /\ txn[w].now \in 0 .. MaxClock
             /\ \A h \in held[w] : h.mode \in Mode
             /\ DOMAIN txn[w].rows \subseteq TokenId
             /\ \A t \in DOMAIN txn[w].rows : txn[w].rows[t] \in Row
  <2>1. txn[w] \in Transaction /\ held[w] \in SUBSET Held
    BY <1>1 DEF Types
  <2>2. txn[w].now \in 0 .. MaxClock /\ txn[w].rows \in PartialRows
    BY <2>1 DEF Transaction
  <2>3. \A h \in held[w] : h.mode \in Mode
    BY <2>1 DEF Held
  <2>. QED
    BY <2>2, <2>3 DEF PartialRows
<1>4. EvaluationTypes
  BY <1>1, <1>3 DEF EvaluationTypes, Types
<1>. QED
  BY <1>2, <1>4 DEF EvaluationsConsistent

\* Locks, transactions and rows have their types, and no more tokens are in deep review than the
\* policy admits (repository.py counts them under _TIER3_BUDGET_LOCK).
THEOREM EvaluationsAreConsistent ==
  EvaluationSpec => []EvaluationsConsistent
BY EvaluationInvariance, EvaluationConsistency, PTL

\* A scheduled or a security evaluation decides on the projection it replaces: it holds the lock
\* of the token from before it loads the row until it commits.
THEOREM EvaluationsGoForward ==
  EvaluationSpec => LockedEvaluationsGoForward
<1>1. ASSUME EvaluationInv, NEW w \in PollWorker \cup SecurityWorker, Commit(w), NEW t \in TokenId
      PROVE  ~ Regresses(row[t], row'[t])
  <2>1. w \in Worker /\ w \notin BoostWorker
    BY EvaluationAssumption DEF Worker
  <2>2. Types /\ WritesForward(w, txn[w].rows, held[w], row)
    BY <1>1, <2>1 DEF EvaluationInv, Sound
  <2>3. row'[t] = RowSeen(w, t)
    BY <1>1, <2>1, <2>2, CommitEffect
  <2>4. CASE t \in DOMAIN txn[w].rows
    <3>1. row'[t] = txn[w].rows[t]
      BY <2>3, <2>4 DEF RowSeen
    <3>. QED
      BY <2>1, <2>2, <2>4, <3>1 DEF WritesForward
  <2>5. CASE t \notin DOMAIN txn[w].rows
    <3>1. row'[t] = row[t] /\ row[t] \in Row
      BY <2>2, <2>3, <2>5 DEF RowSeen, Types
    <3>2. row[t].watermark \in Nat /\ row[t].tier \in Nat
      BY <3>1, EvaluationAssumption DEF Row
    <3>. QED
      BY <3>1, <3>2 DEF Regresses
  <2>. QED
    BY <2>4, <2>5
<1>2. EvaluationInv =>
        [\A w \in PollWorker \cup SecurityWorker :
           Commit(w) => \A t \in TokenId : ~ Regresses(row[t], row'[t])]_evaluationVars
  BY <1>1
<1>. QED
  BY <1>2, EvaluationInvariance, PTL DEF LockedEvaluationsGoForward

-----------------------------------------------------------------------------
(* The security evaluation waits for nobody who waits for it.              *)

LEMMA LocksDiffer ==
  /\ Gate # Wakeups /\ Gate # Tier3Budget /\ Gate # CoverageBudget
  /\ Wakeups # Tier3Budget /\ Wakeups # CoverageBudget /\ Tier3Budget # CoverageBudget
  /\ \A t : /\ OnToken(t) \notin {Gate, Wakeups, Tier3Budget, CoverageBudget}
            /\ OnSchedule(t) \notin {Gate, Wakeups, Tier3Budget, CoverageBudget}
  /\ \A t, u : /\ OnToken(t) # OnSchedule(u)
               /\ OnToken(t) = OnToken(u) => t = u
               /\ OnSchedule(t) = OnSchedule(u) => t = u
BY DEF Gate, Wakeups, Tier3Budget, CoverageBudget, OnToken, OnSchedule

LEMMA RankOfLocks ==
  \A mode : /\ LockRank(Gate, mode) = 1 /\ LockRank(Wakeups, mode) = 3
            /\ LockRank(Tier3Budget, mode) = 7 /\ LockRank(CoverageBudget, mode) = 10
            /\ \A t : /\ mode = "no key update" => LockRank(OnToken(t), mode) = 5
                      /\ mode # "no key update" => LockRank(OnToken(t), mode) = 2
                      /\ LockRank(OnSchedule(t), mode) = 9
<1>. TAKE mode
<1>1. /\ Gate.on = "gate" /\ Wakeups.on = "wakeups" /\ Tier3Budget.on = "tier3"
      /\ CoverageBudget.on = "coverage"
  BY DEF Gate, Wakeups, Tier3Budget, CoverageBudget
<1>2. \A t : OnToken(t).on = "token" /\ OnSchedule(t).on = "schedule"
  BY DEF OnToken, OnSchedule
<1>3. LockRank(Gate, mode) = 1 /\ LockRank(Wakeups, mode) = 3
  BY <1>1 DEF LockRank
<1>4. LockRank(Tier3Budget, mode) = 7 /\ LockRank(CoverageBudget, mode) = 10
  BY <1>1 DEF LockRank
<1>5. ASSUME NEW t
      PROVE  /\ mode = "no key update" => LockRank(OnToken(t), mode) = 5
             /\ mode # "no key update" => LockRank(OnToken(t), mode) = 2
             /\ LockRank(OnSchedule(t), mode) = 9
  BY <1>2 DEF LockRank
<1>. QED
  BY <1>3, <1>4, <1>5

\* The locks of one token other than the token itself have one rank, whatever the mode.
LEMMA OneRank ==
  ASSUME NEW t, NEW lock \in LocksOf(t), lock # OnToken(t), NEW m, NEW n
  PROVE  LockRank(lock, m) = LockRank(lock, n)
BY RankOfLocks, ZenonT(60) DEF LocksOf

\* A boost transaction that holds a lock beyond its token holds the token and the wake-ups.
LEMMA BoostHolds ==
  ASSUME EvaluationInv, NEW v \in BoostWorker, NEW h \in held[v],
         3 <= LockRank(h.lock, h.mode)
  PROVE  \E t \in TokenId :
           /\ About(v, t, txn[v].todo, held[v])
           /\ Holds(held[v], OnToken(t), {"key share", "update"})
           /\ Holds(held[v], Wakeups, {"exclusive", "update"})
<1>. DEFINE s == txn[v].todo
            L == held[v]
<1>0. v \in Worker /\ v \notin PollWorker
  BY EvaluationAssumption DEF Worker
<1>1. Types /\ Sound(v, txn[v], L, row)
  BY <1>0 DEF EvaluationInv
<1>2. txn[v].now # 0
  BY <1>0, <1>1 DEF Types, Resting
<1>3. AboutOne(v, s, L) /\ Ranked(s, L)
  BY <1>0, <1>1, <1>2 DEF Sound, Plan
<1>4. PICK t \in TokenId : About(v, t, s, L)
  BY <1>3 DEF AboutOne
<1>5. /\ HasOrTakes(s, L, OnToken(t), "key share") /\ HasOrTakes(s, L, Wakeups, "exclusive")
  BY <1>4 DEF About
<1>6. s \in Seq(AnyStep) /\ L \in SUBSET Held /\ h.lock \in LockKind /\ h.mode \in Mode
  <2>1. txn[v] \in Transaction /\ L \in SUBSET Held
    BY <1>0, <1>1 DEF Types
  <2>. QED
    BY <2>1 DEF Transaction, Held
<1>7. \A i \in 1 .. Len(s) : LockRank(h.lock, h.mode) < StepRank(s[i])
  BY <1>3 DEF Ranked
<1>8. LockRank(h.lock, h.mode) \in Nat
  BY <1>6, RanksAreNumbers
<1>9. ASSUME NEW i \in 1 .. Len(s)
      PROVE  /\ ~ Takes(s[i], OnToken(t), {"key share"})
             /\ ~ Takes(s[i], Wakeups, {"exclusive"})
  <2>1. StepRank(s[i]) \in Nat
    BY <1>6, StepTyped, RanksAreNumbers
  <2>2. 3 < StepRank(s[i])
    BY <1>7, <1>8, <2>1
  <2>3. ASSUME Takes(s[i], OnToken(t), {"key share"}) PROVE FALSE
    <3>1. s[i].do = "take" /\ s[i].lock = OnToken(t) /\ s[i].mode # "no key update"
      BY <2>3 DEF Takes
    <3>2. StepRank(s[i]) = 2
      BY <3>1, RankOfLocks, ZenonT(60) DEF StepRank
    <3>. QED
      BY <2>2, <3>2
  <2>4. ASSUME Takes(s[i], Wakeups, {"exclusive"}) PROVE FALSE
    <3>1. s[i].do = "take" /\ s[i].lock = Wakeups
      BY <2>4 DEF Takes
    <3>2. StepRank(s[i]) = 3
      BY <3>1, RankOfLocks DEF StepRank
    <3>. QED
      BY <2>2, <3>2
  <2>. QED
    BY <2>3, <2>4
<1>10. Holds(L, OnToken(t), {"key share", "update"}) /\ Holds(L, Wakeups, {"exclusive", "update"})
  BY <1>5, <1>9 DEF HasOrTakes
<1>. QED
  BY <1>4, <1>10

\* While a security evaluation holds a lock only boosts and itself hold any.
LEMMA GateKeepsOut ==
  ASSUME EvaluationInv, NEW w \in SecurityWorker, held[w] # {}
  PROVE  /\ [lock |-> Gate, mode |-> "exclusive", level |-> 0] \in held[w]
         /\ \A v \in Worker \ {w} : held[v] # {} => v \in BoostWorker
<1>. DEFINE gate == [lock |-> Gate, mode |-> "exclusive", level |-> 0]
<1>0. w \in Worker /\ w \notin PollWorker /\ w \notin BoostWorker
  BY EvaluationAssumption DEF Worker
<1>1. \A v \in Worker : v \notin BoostWorker => GateFirst(v, txn[v].todo, held[v])
  BY DEF EvaluationInv, Sound, Plan
<1>2. \A v \in Worker : v \notin BoostWorker /\ held[v] # {} => HasGate(v, held[v])
  BY <1>1 DEF GateFirst
<1>3. gate \in held[w]
  BY <1>0, <1>2 DEF HasGate, GateMode
<1>4. ASSUME NEW v \in Worker \ {w}, held[v] # {}, v \notin BoostWorker PROVE FALSE
  <2>1. PICK h \in held[v] : h.lock = Gate
    BY <1>2, <1>4 DEF HasGate
  <2>2. gate.lock = Gate /\ gate.mode = "exclusive"
    OBVIOUS
  <2>. HIDE DEF gate
  <2>3. Compatible(gate.mode, h.mode)
    BY <1>0, <1>3, <1>4, <2>1, <2>2 DEF EvaluationInv, LocksExclude
  <2>. QED
    BY <2>2, <2>3 DEF Compatible
<1>. QED
  BY <1>3, <1>4

\* Whom a waiting security evaluation waits for beyond its token, waits for nobody.
LEMMA HolderIsFree ==
  ASSUME EvaluationInv, NEW w \in SecurityWorker, held[w] # {}, NEW t \in TokenId,
         \A g \in held[w] : g.lock \in LocksOf(t), Holds(held[w], OnToken(t), {"update"}),
         NEW v \in BoostWorker, NEW h \in held[v], 3 <= LockRank(h.lock, h.mode),
         \A g \in held[w] : LockRank(g.lock, g.mode) < LockRank(h.lock, h.mode)
  PROVE  Waits(v) = {}
<1>. DEFINE s == txn[v].todo
            y == s[1].lock
            m == s[1].mode
<1>0. /\ w \in Worker /\ v \in Worker /\ v # w /\ v \notin PollWorker
  BY EvaluationAssumption DEF Worker
<1>1. PICK o \in TokenId :
        /\ About(v, o, s, held[v])
        /\ Holds(held[v], OnToken(o), {"key share", "update"})
        /\ Holds(held[v], Wakeups, {"exclusive", "update"})
  BY BoostHolds
<1>2. PICK a \in held[v] : a.lock = OnToken(o) /\ a.mode \in {"key share", "update"}
  BY <1>1 DEF Holds
<1>3. PICK b \in held[v] : b.lock = Wakeups /\ b.mode \in {"exclusive", "update"}
  BY <1>1 DEF Holds
<1>4. Types /\ LocksExclude /\ Ranked(s, held[v])
  BY <1>0 DEF EvaluationInv, Sound, Plan
<1>5. o # t
  <2>1. PICK g \in held[w] : g.lock = OnToken(t) /\ g.mode = "update"
    BY DEF Holds
  <2>2. SUFFICES ASSUME o = t PROVE FALSE
    OBVIOUS
  <2>3. Compatible(g.mode, a.mode)
    BY <1>0, <1>2, <1>4, <2>1, <2>2 DEF LocksExclude
  <2>. QED
    BY <2>1, <2>3 DEF Compatible
<1>6. SUFFICES ASSUME NEW u \in Waits(v) PROVE FALSE
  OBVIOUS
<1>7. /\ s # <<>> /\ s[1].do = "take" /\ u \in Worker \ {v}
      /\ \E g \in held[u] : g.lock = y /\ ~ Compatible(m, g.mode)
  <2>1. Do(v, "take") /\ u \in Blockers(v, Head(s).lock, Head(s).mode)
    BY <1>6 DEF Waits
  <2>2. s # <<>> /\ Head(s) = s[1]
    BY <1>0, <1>4, <2>1, HeadTyped DEF Do
  <2>. QED
    BY <2>1, <2>2 DEF Do, Blockers
<1>8. PICK g \in held[u] : g.lock = y /\ ~ Compatible(m, g.mode)
  BY <1>7
<1>9. /\ s \in Seq(AnyStep) /\ s[1] \in AnyStep /\ 1 \in 1 .. Len(s)
  BY <1>0, <1>4, <1>7, HeadTyped
<1>10. y \in LocksOf(o) /\ y # Gate
  <2>1. y \in LocksOf(o) /\ ~ Takes(s[1], Gate, Mode) /\ WellFormed(s[1])
    BY <1>0, <1>1, <1>4, <1>7, <1>9 DEF About, Types
  <2>. QED
    BY <1>7, <2>1 DEF Takes, WellFormed
<1>11. /\ LockRank(h.lock, h.mode) < LockRank(y, m) /\ 3 < LockRank(y, m)
  <2>1. StepRank(s[1]) = LockRank(y, m)
    BY <1>7 DEF StepRank
  <2>2. LockRank(h.lock, h.mode) < StepRank(s[1]) /\ LockRank(b.lock, b.mode) < StepRank(s[1])
    BY <1>4, <1>9 DEF Ranked
  <2>3. LockRank(b.lock, b.mode) = 3
    BY <1>3, RankOfLocks
  <2>. QED
    BY <2>1, <2>2, <2>3
<1>12. ASSUME NEW p \in Worker, NEW f \in held[p] PROVE LockRank(f.lock, f.mode) \in Nat
  <2>1. f \in Held
    BY <1>4 DEF Types
  <2>. QED
    BY <2>1, RanksAreNumbers DEF Held
<1>13. LockRank(y, m) \in Nat
  BY <1>9, RanksAreNumbers DEF AnyStep
<1>. HIDE DEF y, m, s
<1>14. CASE u = w
  <2>1. g.lock \in LocksOf(t) /\ LockRank(g.lock, g.mode) < LockRank(h.lock, h.mode)
    BY <1>14
  <2>2. y # OnToken(o)
    BY <1>5, <1>8, <2>1, LocksDiffer DEF LocksOf
  <2>3. LockRank(y, m) = LockRank(y, g.mode)
    BY <1>10, <2>2, OneRank
  <2>4. LockRank(g.lock, g.mode) = LockRank(y, m)
    BY <1>8, <2>3
  <2>5. LockRank(h.lock, h.mode) \in Nat
    BY <1>0, <1>12
  <2>. QED
    BY <1>11, <1>13, <2>1, <2>4, <2>5
<1>15. CASE u # w
  <2>1. u \in BoostWorker
    BY <1>7, <1>8, <1>15, GateKeepsOut
  <2>2. ~ (3 <= LockRank(g.lock, g.mode))
    <3>1. SUFFICES ASSUME 3 <= LockRank(g.lock, g.mode) PROVE FALSE
      OBVIOUS
    <3>2. Holds(held[u], Wakeups, {"exclusive", "update"})
      BY <2>1, <3>1, BoostHolds
    <3>3. PICK c \in held[u] : c.lock = Wakeups
      BY <3>2 DEF Holds
    <3>4. Compatible(b.mode, c.mode)
      BY <1>0, <1>3, <1>4, <1>7, <3>3 DEF LocksExclude
    <3>. QED
      BY <1>3, <3>4 DEF Compatible
  <2>3. y = OnToken(o)
    <3>1. SUFFICES ASSUME y # OnToken(o) PROVE FALSE
      OBVIOUS
    <3>2. LockRank(y, m) = LockRank(y, g.mode)
      BY <1>10, <3>1, OneRank
    <3>. QED
      BY <1>8, <1>11, <1>13, <2>2, <3>2
  <2>4. m = "no key update"
    <3>1. SUFFICES ASSUME m # "no key update" PROVE FALSE
      OBVIOUS
    <3>2. LockRank(y, m) = 2
      BY <2>3, <3>1, RankOfLocks
    <3>3. 3 < LockRank(y, m)
      BY <1>11
    <3>. QED
      BY <3>2, <3>3
  <2>5. g.mode # "no key update"
    <3>1. SUFFICES ASSUME g.mode = "no key update" PROVE FALSE
      OBVIOUS
    <3>2. LockRank(g.lock, g.mode) = 5
      BY <1>8, <2>3, <3>1, RankOfLocks, ZenonT(60)
    <3>. QED
      BY <2>2, <3>2
  <2>6. Compatible(a.mode, g.mode)
    BY <1>0, <1>2, <1>4, <1>7, <1>8, <2>3 DEF LocksExclude
  <2>7. g.mode = "key share"
    BY <1>2, <2>5, <2>6 DEF Compatible
  <2>. QED
    BY <1>8, <2>4, <2>7 DEF Compatible
<1>. QED
  BY <1>14, <1>15

\* A worker outside of a set that has whom it waits for, and whom those wait for, is not
\* part of a deadlock.
LEMMA NotDeadlocked ==
  ASSUME NEW w \in Worker, NEW S \in SUBSET Worker, w \notin S, Waits(w) \subseteq S,
         \A v \in S : Waits(v) \subseteq S
  PROVE  w \notin Deadlocked
<1>1. UNION {Waits(v) : v \in S} \subseteq S
  OBVIOUS
<1>. QED
  BY <1>1 DEF Deadlocked

LEMMA WaitsForWorkers ==
  ASSUME NEW v \in Worker
  PROVE  /\ Waits(v) \subseteq Worker \ {v}
         /\ \A u \in Waits(v) : held[u] # {}
BY DEF Waits, Blockers

\* What a waiting worker waits for.
LEMMA WaitsFor ==
  ASSUME EvaluationInv, NEW w \in Worker, NEW v \in Waits(w)
  PROVE  /\ Len(txn[w].todo) \in Nat /\ 1 \in 1 .. Len(txn[w].todo)
         /\ txn[w].todo[1] \in AnyStep /\ txn[w].todo[1].do = "take"
         /\ v \in Worker \ {w}
         /\ \E h \in held[v] : h.lock = txn[w].todo[1].lock
                              /\ ~ Compatible(txn[w].todo[1].mode, h.mode)
<1>. DEFINE s == txn[w].todo
<1>1. Types
  BY DEF EvaluationInv
<1>2. Do(w, "take") /\ v \in Blockers(w, Head(s).lock, Head(s).mode)
  BY DEF Waits
<1>3. s # <<>> /\ Head(s) = s[1]
  BY <1>1, <1>2, HeadTyped DEF Do
<1>4. s[1].do = "take" /\ v \in Worker \ {w}
      /\ \E h \in held[v] : h.lock = s[1].lock /\ ~ Compatible(s[1].mode, h.mode)
  BY <1>2, <1>3 DEF Do, Blockers
<1>5. /\ s[1] \in AnyStep /\ 1 \in 1 .. Len(s) /\ Len(s) \in Nat
  BY <1>1, <1>3, HeadTyped
<1>. QED
  BY <1>4, <1>5

\* Of the locks of a token only the gate and the token itself come before the wake-ups.
LEMMA RanksOfOne ==
  ASSUME NEW t, NEW lock \in LocksOf(t), lock # Gate, NEW mode
  PROVE  /\ LockRank(lock, mode) \in Nat /\ 2 <= LockRank(lock, mode)
         /\ lock # OnToken(t) => 3 <= LockRank(lock, mode)
<1>1. CASE lock = OnToken(t)
  <2>1. CASE mode = "no key update"
    <3>1. LockRank(lock, mode) = 5
      BY <1>1, <2>1, RankOfLocks
    <3>. QED
      BY <1>1, <3>1
  <2>2. CASE mode # "no key update"
    <3>1. LockRank(lock, mode) = 2
      BY <1>1, <2>2, RankOfLocks
    <3>. QED
      BY <1>1, <3>1
  <2>. QED
    BY <2>1, <2>2
<1>2. CASE lock # OnToken(t)
  <2>1. lock \in {Wakeups, Tier3Budget, CoverageBudget, OnSchedule(t)}
    BY <1>2 DEF LocksOf
  <2>2. PICK rank \in {3, 7, 9, 10} : LockRank(lock, mode) = rank
    <3>1. CASE lock = Wakeups
      BY <3>1, RankOfLocks
    <3>2. CASE lock = Tier3Budget
      BY <3>2, RankOfLocks
    <3>3. CASE lock = CoverageBudget
      BY <3>3, RankOfLocks
    <3>4. CASE lock = OnSchedule(t)
      BY <3>4, RankOfLocks
    <3>. QED
      BY <2>1, <3>1, <3>2, <3>3, <3>4
  <2>. QED
    BY <2>2
<1>. QED
  BY <1>1, <1>2

LEMMA TheFenceIsFree ==
  ASSUME EvaluationInv, NEW w \in SecurityWorker
  PROVE  w \notin Deadlocked
<1>. DEFINE s == txn[w].todo
            y == s[1].lock
            m == s[1].mode
<1>0. /\ w \in Worker /\ w \notin PollWorker /\ w \notin BoostWorker
      /\ BoostWorker \subseteq Worker
  BY EvaluationAssumption DEF Worker
<1>1. CASE held[w] = {}
  <2>1. w \notin Worker \ {w} /\ Worker \ {w} \in SUBSET Worker /\ Waits(w) \subseteq Worker \ {w}
    BY <1>0, WaitsForWorkers
  <2>2. \A v \in Worker \ {w} : Waits(v) \subseteq Worker \ {w}
    BY <1>1, WaitsForWorkers
  <2>. QED
    BY <1>0, <2>1, <2>2, NotDeadlocked
<1>2. CASE Waits(w) = {}
  <2>1. {} \in SUBSET Worker /\ w \notin {} /\ \A v \in {} : Waits(v) \subseteq {}
    OBVIOUS
  <2>. QED
    BY <1>0, <1>2, <2>1, NotDeadlocked
<1>3. CASE held[w] # {} /\ Waits(w) # {}
  <2>0. PICK first \in Waits(w) : TRUE
    BY <1>3
  <2>1. /\ 1 \in 1 .. Len(s) /\ s[1] \in AnyStep /\ s[1].do = "take"
        /\ first \in Worker \ {w}
        /\ \E h \in held[first] : h.lock = y /\ ~ Compatible(m, h.mode)
    BY <1>0, <2>0, WaitsFor
  <2>2. /\ [lock |-> Gate, mode |-> "exclusive", level |-> 0] \in held[w]
        /\ \A v \in Worker \ {w} : held[v] # {} => v \in BoostWorker
    BY <1>3, GateKeepsOut
  <2>3. Waits(w) \subseteq BoostWorker
    BY <1>0, <2>2, WaitsForWorkers
  <2>4. Types /\ Sound(w, txn[w], held[w], row) /\ LocksExclude
    BY <1>0 DEF EvaluationInv
  <2>5. txn[w].now # 0
    BY <1>0, <1>3, <2>4 DEF Types, Resting
  <2>6. AboutOne(w, s, held[w]) /\ Ranked(s, held[w])
    BY <1>0, <2>4, <2>5 DEF Sound, Plan
  <2>7. PICK t \in TokenId : About(w, t, s, held[w])
    BY <2>6 DEF AboutOne
  <2>8. /\ \A h \in held[w] : h.lock \in LocksOf(t)
        /\ y \in LocksOf(t)
        /\ HasOrTakes(s, held[w], OnToken(t), "update")
    BY <1>0, <2>1, <2>7 DEF About
  <2>9. \A i \in 1 .. Len(s) : s[i] \in AnyStep
    BY <1>0, <2>4 DEF Types, Transaction
  <2>10. LockRank(y, m) \in Nat /\ StepRank(s[1]) = LockRank(y, m)
    BY <2>1, RanksAreNumbers DEF AnyStep, StepRank
  <2>11. ASSUME NEW h \in held[w]
         PROVE  /\ LockRank(h.lock, h.mode) \in Nat
                /\ LockRank(h.lock, h.mode) < LockRank(y, m)
    <3>1. h \in Held
      BY <1>0, <2>4 DEF Types
    <3>2. LockRank(h.lock, h.mode) \in Nat
      BY <3>1, RanksAreNumbers DEF Held
    <3>3. LockRank(h.lock, h.mode) < StepRank(s[1])
      BY <2>1, <2>6 DEF Ranked
    <3>. QED
      BY <2>10, <3>2, <3>3
  <2>12. 1 < LockRank(y, m)
    <3>. DEFINE gate == [lock |-> Gate, mode |-> "exclusive", level |-> 0]
    <3>1. gate.lock = Gate /\ gate.mode = "exclusive" /\ gate \in held[w]
      BY <2>2
    <3>. HIDE DEF gate
    <3>2. LockRank(gate.lock, gate.mode) = 1
      BY <3>1, RankOfLocks
    <3>. QED
      BY <2>11, <3>1, <3>2
  <2>13. \A j \in 2 .. Len(s) : LockRank(y, m) < StepRank(s[j])
    <3>1. \A j \in 2 .. Len(s) : StepRank(s[1]) < StepRank(s[j])
      BY <2>1, <2>6 DEF Ranked
    <3>. QED
      BY <2>10, <3>1
  <2>. HIDE DEF s, y, m
  <2>14. CASE y = OnToken(t) /\ m # "no key update"
    <3>1. LockRank(y, m) = 2
      BY <2>14, RankOfLocks
    <3>2. ASSUME NEW h \in held[w] PROVE h.lock = Gate
      <4>1. h.lock \in LocksOf(t) /\ LockRank(h.lock, h.mode) < 2
        BY <2>8, <2>11, <3>1
      <4>2. SUFFICES ASSUME h.lock # Gate PROVE FALSE
        OBVIOUS
      <4>3. /\ 2 <= LockRank(h.lock, h.mode) /\ LockRank(h.lock, h.mode) \in Nat
        BY <4>1, <4>2, RanksOfOne
      <4>. QED
        BY <4>1, <4>3
    <3>3. ASSUME NEW v \in BoostWorker PROVE Waits(v) \subseteq BoostWorker
      <4>1. v \in Worker /\ v # w /\ v \notin PollWorker
        BY <1>0, EvaluationAssumption
      <4>2. SUFFICES ASSUME NEW u \in Waits(v), u \notin BoostWorker PROVE FALSE
        OBVIOUS
      <4>3. u = w
        BY <2>2, <4>1, <4>2, WaitsForWorkers
      <4>4. /\ 1 \in 1 .. Len(txn[v].todo) /\ txn[v].todo[1] \in AnyStep
            /\ txn[v].todo[1].do = "take"
            /\ \E h \in held[w] : h.lock = txn[v].todo[1].lock
        BY <4>1, <4>2, <4>3, WaitsFor
      <4>5. txn[v].todo[1].lock = Gate
        BY <3>2, <4>4
      <4>6. Sound(v, txn[v], held[v], row) /\ (txn[v].now = 0 => txn[v] = NoTransaction)
        BY <2>4, <4>1 DEF EvaluationInv, Types, Resting
      <4>7. txn[v].now # 0
        BY <4>4, <4>6 DEF NoTransaction
      <4>8. AboutOne(v, txn[v].todo, held[v])
        BY <4>1, <4>6, <4>7 DEF Sound
      <4>9. ~ Takes(txn[v].todo[1], Gate, Mode) /\ WellFormed(txn[v].todo[1])
        BY <2>4, <4>1, <4>4, <4>8 DEF AboutOne, About, Types
      <4>. QED
        BY <4>4, <4>5, <4>9 DEF Takes, WellFormed
    <3>. QED
      BY <1>0, <2>3, <3>3, NotDeadlocked
  <2>15. CASE ~ (y = OnToken(t) /\ m # "no key update")
    <3>1. y # Gate
      <4>1. SUFFICES ASSUME y = Gate PROVE FALSE
        OBVIOUS
      <4>2. LockRank(y, m) = 1
        BY <4>1, RankOfLocks
      <4>. QED
        BY <2>12, <4>2
    <3>2. 3 <= LockRank(y, m)
      <4>1. CASE y = OnToken(t)
        <5>1. LockRank(y, m) = 5
          BY <2>15, <4>1, RankOfLocks
        <5>. QED
          BY <5>1
      <4>2. CASE y # OnToken(t)
        BY <2>8, <3>1, <4>2, RanksOfOne
      <4>. QED
        BY <4>1, <4>2
    <3>3. Holds(held[w], OnToken(t), {"update"})
      <4>1. ASSUME NEW i \in 1 .. Len(s), Takes(s[i], OnToken(t), {"update"}) PROVE FALSE
        <5>1. s[i].do = "take" /\ s[i].lock = OnToken(t) /\ s[i].mode # "no key update"
              /\ s[i].mode = "update"
          BY <4>1 DEF Takes
        <5>2. StepRank(s[i]) = 2
          BY <5>1, RankOfLocks DEF StepRank
        <5>3. i # 1
          BY <2>15, <5>1 DEF y, m
        <5>4. i \in 2 .. Len(s)
          BY <5>3
        <5>5. LockRank(y, m) < 2
          BY <2>13, <5>2, <5>4
        <5>. QED
          BY <2>10, <3>2, <5>5
      <4>. QED
        BY <2>8, <4>1 DEF HasOrTakes, Holds
    <3>4. PICK f \in held[w] : f.lock = OnToken(t) /\ f.mode = "update"
      BY <3>3 DEF Holds
    <3>5. y # OnToken(t)
      <4>1. SUFFICES ASSUME y = OnToken(t) PROVE FALSE
        OBVIOUS
      <4>2. PICK h \in held[first] : h.lock = y
        BY <2>1 DEF y
      <4>3. Compatible(f.mode, h.mode)
        BY <1>0, <2>1, <2>4, <3>4, <4>1, <4>2 DEF LocksExclude
      <4>. QED
        BY <3>4, <4>3 DEF Compatible
    <3>6. ASSUME NEW v \in Waits(w) PROVE Waits(v) = {}
      <4>1. v \in BoostWorker
        BY <2>3
      <4>2. PICK h \in held[v] : h.lock = y
        BY <1>0, WaitsFor DEF y, s
      <4>3. LockRank(h.lock, h.mode) = LockRank(y, m)
        BY <2>8, <3>5, <4>2, OneRank
      <4>4. 3 <= LockRank(h.lock, h.mode)
        BY <3>2, <4>3
      <4>5. \A g \in held[w] : LockRank(g.lock, g.mode) < LockRank(h.lock, h.mode)
        BY <2>11, <4>3
      <4>. QED
        BY <1>3, <2>8, <3>3, <4>1, <4>4, <4>5, HolderIsFree
    <3>7. Waits(w) \in SUBSET Worker /\ w \notin Waits(w)
      BY <1>0, WaitsForWorkers
    <3>. QED
      BY <1>0, <3>6, <3>7, NotDeadlocked
  <2>. QED
    BY <2>14, <2>15
<1>. QED
  BY <1>1, <1>2, <1>3

\* The security evaluation is never part of a deadlock (docs/lock-protocol.md, "Phase 6
\* evidence evaluation fence"): evaluate_security_token passes the exclusive gate before it
\* locks its token, so whatever number of tokens, workers and transactions there is, whom it
\* waits for never waits for it, directly or through others.
THEOREM TheFenceNeverDeadlocks == EvaluationSpec => []FenceNeverDeadlocks
<1>1. EvaluationInv => FenceNeverDeadlocks
  BY TheFenceIsFree DEF FenceNeverDeadlocks
<1>. QED
  BY <1>1, EvaluationInvariance, PTL

-----------------------------------------------------------------------------
(* Admission and security snapshots (DexAvailability).                      *)

\* What a pass holds in memory is about rows that exist; a phase it remembers is still that of
\* the row as long as the lease is its own.
PassKnows(l) ==
  LET p == pass[l]
  IN  /\ p.present \subseteq p.batch /\ p.batch \subseteq p.claims
      /\ p.pc = "idle" => p.kind = None
      /\ p.kind # None => p.kind \in l.kinds
      /\ p.kind = "dex" => \A t \in p.claims : task[t] # None
      /\ p.kind = "security" =>
           /\ p.pc = "answered" => p.batch = p.claims
           /\ \A t \in p.claims :
                /\ security[t] # None
                /\ security[t].work.lease_id = l.process => security[t].phase = p.phase[t]
PassesKnow == \A l \in Loop : PassKnows(l)

\* Only a row with a phase to come is due or leased.
PhaseAhead ==
  \A t \in Token : security[t] # None =>
    (security[t].work.due \/ security[t].work.lease_id # None
       => security[t].phase < SecurityPhases)

AvailabilityInv == TypeOK /\ PassesKnow /\ PhaseAhead /\ PromotionComplete /\ SnapshotPerPhase

USE AvailabilityAssumption DEF Kind, Counter

LEMMA LeaseTypes ==
  ASSUME NEW work \in Lease, NEW p \in Process
  PROVE  /\ Leased(p, work) \in Lease /\ Leased(p, work).lease_id = p
         /\ Leased(p, work).due = work.due /\ ~Leased(p, work).expired
         /\ Released(work) \in Lease /\ Released(work).lease_id = None
         /\ ~Released(work).due /\ ~Released(work).expired
  BY DEF Lease, Leased, Released

LEMMA DueType == Due \in Lease /\ Due.lease_id = None /\ ~Due.expired
  BY DEF Lease, Due

LEMMA LeaseEdits ==
  ASSUME NEW work \in Lease
  PROVE  /\ [work EXCEPT !.due = TRUE] \in Lease /\ [work EXCEPT !.expired = TRUE] \in Lease
         /\ [work EXCEPT !.due = TRUE].lease_id = work.lease_id
         /\ [work EXCEPT !.due = TRUE].expired = work.expired
         /\ [work EXCEPT !.expired = TRUE].lease_id = work.lease_id
         /\ [work EXCEPT !.expired = TRUE].due = work.due
  BY DEF Lease

LEMMA TaskRowEdit ==
  ASSUME NEW rec \in TaskRow, NEW work \in Lease
  PROVE  /\ [rec EXCEPT !.work = work] \in TaskRow
         /\ [rec EXCEPT !.work = work] # None
         /\ [rec EXCEPT !.work = work].state = rec.state
         /\ [rec EXCEPT !.work = work].work = work
  BY DEF TaskRow

LEMMA SecurityRowEdit ==
  ASSUME NEW rec \in SecurityRow, NEW work \in Lease
  PROVE  /\ [rec EXCEPT !.work = work] \in SecurityRow
         /\ [rec EXCEPT !.work = work] # None
         /\ [rec EXCEPT !.work = work].phase = rec.phase
         /\ [rec EXCEPT !.work = work].work = work
  BY DEF SecurityRow

LEMMA CountEdit ==
  ASSUME NEW S, NEW count \in [S -> Counter], NEW i
  PROVE  [count EXCEPT ![i] = 1] \in [S -> Counter]
<1>1. [count EXCEPT ![i] = 1] = [j \in S |-> IF j = i THEN 1 ELSE count[j]]
  OBVIOUS
<1>2. \A j \in S : (IF j = i THEN 1 ELSE count[j]) \in Counter
  OBVIOUS
<1> QED
  BY <1>1, <1>2

LEMMA IdleType == Idle \in Pass
  BY DEF Idle, Pass

LEMMA InitInv == Init => AvailabilityInv
<1> SUFFICES ASSUME Init PROVE AvailabilityInv
  OBVIOUS
<1>1. TypeOK
  BY IdleType DEF Init, TypeOK
<1>2. PassesKnow
  BY DEF Init, PassesKnow, PassKnows, Idle
<1>3. PhaseAhead /\ PromotionComplete /\ SnapshotPerPhase
  BY DEF Init, PhaseAhead, PromotionComplete, Promoted, SnapshotPerPhase
<1> QED
  BY <1>1, <1>2, <1>3 DEF AvailabilityInv
-----------------------------------------------------------------------------
(* Steps that move leases and due times only.                              *)

SameTask(t) ==
  /\ task'[t] \in TaskRow /\ task'[t] # None
  /\ task'[t].state = task[t].state
  /\ task'[t].work.lease_id = None => ~task'[t].work.expired
SameSecurity(t) ==
  /\ security'[t] \in SecurityRow /\ security'[t] # None
  /\ security'[t].phase = security[t].phase
  /\ security'[t].work.lease_id = None => ~security'[t].work.expired
  /\ security'[t].work.due \/ security'[t].work.lease_id # None
       => security[t].phase < SecurityPhases
LeasesMove ==
  /\ task' = [t \in Token |-> task'[t]] /\ security' = [t \in Token |-> security'[t]]
  /\ \A t \in Token : IF task[t] = None THEN task'[t] = None ELSE SameTask(t)
  /\ \A t \in Token : IF security[t] = None THEN security'[t] = None ELSE SameSecurity(t)
  /\ UNCHANGED <<lifecycle, schedule, snapshot>>

LEMMA LeasesMoveKeeps ==
  ASSUME AvailabilityInv, LeasesMove, listed' \subseteq Token, pass' \in [Loop -> Pass], PassesKnow'
  PROVE  AvailabilityInv'
<1> USE DEF AvailabilityInv
<1>1. task' \in [Token -> TaskRow \cup {None}] /\ security' \in [Token -> SecurityRow \cup {None}]
  BY DEF LeasesMove, SameTask, SameSecurity
<1>2. \A t \in Token :
        /\ task'[t] # None /\ task'[t].work.lease_id = None => ~task'[t].work.expired
        /\ security'[t] # None /\ security'[t].work.lease_id = None => ~security'[t].work.expired
  BY DEF LeasesMove, SameTask, SameSecurity
<1>3. TypeOK'
  BY <1>1, <1>2 DEF TypeOK, LeasesMove
<1>4. Promoted' = Promoted
  BY DEF LeasesMove, SameTask, Promoted
<1>5. \A t \in Token :
        (task'[t] = None <=> task[t] = None) /\ (security'[t] = None <=> security[t] = None)
  BY DEF LeasesMove, SameTask, SameSecurity
<1>6. PromotionComplete'
  BY <1>4, <1>5 DEF PromotionComplete, LeasesMove
<1>7. PhaseAhead'
  BY DEF PhaseAhead, LeasesMove, SameSecurity
<1>8. SnapshotPerPhase'
  BY <1>5 DEF SnapshotPerPhase, LeasesMove, SameSecurity
<1> QED
  BY <1>3, <1>6, <1>7, <1>8

\* Rows that stay as they are.
LEMMA RowsUnchanged ==
  ASSUME AvailabilityInv, UNCHANGED <<task, security, lifecycle, schedule, snapshot>>
  PROVE  LeasesMove
  BY DEF AvailabilityInv, TypeOK, PhaseAhead, LeasesMove, SameTask, SameSecurity

\* A pass goes on knowing what it knows when no row disappears and no row becomes its own.
LEMMA OthersKnow ==
  ASSUME AvailabilityInv, NEW m \in Loop, pass'[m] = pass[m],
         \A t \in Token : task[t] # None => task'[t] # None,
         pass[m].kind = "security" => \A t \in pass[m].claims :
           /\ security'[t] # None
           /\ security'[t].work.lease_id = m.process =>
                /\ security[t].work.lease_id = m.process
                /\ security'[t].phase = security[t].phase
  PROVE  PassKnows(m)'
<1>1. PassKnows(m) /\ pass[m].claims \subseteq Token
  BY DEF AvailabilityInv, PassesKnow, TypeOK, Pass
<1>2. /\ pass'[m].present \subseteq pass'[m].batch /\ pass'[m].batch \subseteq pass'[m].claims
      /\ pass'[m].pc = "idle" => pass'[m].kind = None
      /\ pass'[m].kind # None => pass'[m].kind \in m.kinds
  BY <1>1 DEF PassKnows
<1>3. pass'[m].kind = "dex" => \A t \in pass'[m].claims : task'[t] # None
  BY <1>1 DEF PassKnows
<1>4. pass'[m].kind = "security" =>
        /\ pass'[m].pc = "answered" => pass'[m].batch = pass'[m].claims
        /\ \A t \in pass'[m].claims :
             /\ security'[t] # None
             /\ security'[t].work.lease_id = m.process => security'[t].phase = pass'[m].phase[t]
  BY <1>1 DEF PassKnows
<1> QED
  BY <1>2, <1>3, <1>4 DEF PassKnows

\* Rows that keep their phase and, if they had none, get no lease.
LEMMA AllKnow ==
  ASSUME AvailabilityInv, pass' = pass,
         \A t \in Token : task[t] # None => task'[t] # None,
         \A t \in Token : security[t] # None =>
           /\ security'[t] # None /\ security'[t].phase = security[t].phase
           /\ security'[t].work.lease_id = security[t].work.lease_id
  PROVE  PassesKnow'
<1> SUFFICES ASSUME NEW m \in Loop PROVE PassKnows(m)'
  BY DEF PassesKnow
<1>1. pass[m].claims \subseteq Token /\ PassKnows(m)
  BY DEF AvailabilityInv, PassesKnow, TypeOK, Pass
<1>2. pass[m].kind = "security" => \A t \in pass[m].claims :
        /\ security'[t] # None
        /\ security'[t].work.lease_id = m.process =>
             /\ security[t].work.lease_id = m.process
             /\ security'[t].phase = security[t].phase
  BY <1>1 DEF PassKnows
<1> QED
  BY <1>2, OthersKnow

LEMMA BecomesDueKeeps ==
  ASSUME AvailabilityInv, NEW t \in Token, BecomesDue(t)
  PROVE  AvailabilityInv'
<1> USE DEF AvailabilityInv
<1>1. CASE task[t] # None /\ task' = [task EXCEPT ![t].work.due = TRUE]
           /\ UNCHANGED <<listed, security, lifecycle, schedule, snapshot, pass>>
  <2>1. task[t] \in TaskRow /\ task[t].work \in Lease
    BY <1>1 DEF TypeOK, TaskRow
  <2>2. task'[t] = [task[t] EXCEPT !.work = [task[t].work EXCEPT !.due = TRUE]]
    BY <1>1 DEF TypeOK
  <2>3. SameTask(t)
    <3> DEFINE work == [task[t].work EXCEPT !.due = TRUE]
    <3>1. work \in Lease /\ work.lease_id = task[t].work.lease_id /\ work.expired = task[t].work.expired
      BY <2>1, LeaseEdits
    <3> HIDE DEF work
    <3>2. task'[t] = [task[t] EXCEPT !.work = work]
      BY <2>2 DEF work
    <3>3. task'[t] \in TaskRow /\ task'[t] # None
          /\ task'[t].state = task[t].state /\ task'[t].work = work
      BY <2>1, <3>1, <3>2, TaskRowEdit
    <3>4. task[t].work.lease_id = None => ~task[t].work.expired
      BY <1>1 DEF TypeOK
    <3> QED
      BY <3>1, <3>3, <3>4, Zenon DEF SameTask
  <2>4. \A u \in Token \ {t} : task'[u] = task[u]
    BY <1>1 DEF TypeOK
  <2>5. \A u \in Token \ {t} : task[u] # None => SameTask(u)
    BY <2>4 DEF SameTask, TypeOK
  <2>6. \A u \in Token : security[u] # None => SameSecurity(u)
    BY <1>1 DEF SameSecurity, TypeOK, PhaseAhead
  <2>7. LeasesMove
    BY <1>1, <2>3, <2>4, <2>5, <2>6 DEF LeasesMove, TypeOK
  <2>8. PassesKnow'
    BY <1>1, <2>3, <2>4, AllKnow DEF SameTask
  <2> QED
    BY <1>1, <2>7, <2>8, LeasesMoveKeeps DEF TypeOK
<1>2. CASE security[t] # None /\ security[t].phase < SecurityPhases
           /\ security' = [security EXCEPT ![t].work.due = TRUE]
           /\ UNCHANGED <<listed, task, lifecycle, schedule, snapshot, pass>>
  <2>1. security[t] \in SecurityRow /\ security[t].work \in Lease
    BY <1>2 DEF TypeOK, SecurityRow
  <2>2. security'[t] = [security[t] EXCEPT !.work = [security[t].work EXCEPT !.due = TRUE]]
    BY <1>2 DEF TypeOK
  <2>3. SameSecurity(t) /\ security'[t].work.lease_id = security[t].work.lease_id
    <3> DEFINE work == [security[t].work EXCEPT !.due = TRUE]
    <3>1. work \in Lease /\ work.lease_id = security[t].work.lease_id
          /\ work.expired = security[t].work.expired
      BY <2>1, LeaseEdits
    <3> HIDE DEF work
    <3>2. security'[t] = [security[t] EXCEPT !.work = work]
      BY <2>2 DEF work
    <3>3. security'[t] \in SecurityRow /\ security'[t] # None
          /\ security'[t].phase = security[t].phase /\ security'[t].work = work
      BY <2>1, <3>1, <3>2, SecurityRowEdit
    <3>4. security[t].work.lease_id = None => ~security[t].work.expired
      BY <1>2 DEF TypeOK
    <3> QED
      BY <1>2, <3>1, <3>3, <3>4, Zenon DEF SameSecurity
  <2>4. \A u \in Token \ {t} : security'[u] = security[u]
    BY <1>2 DEF TypeOK
  <2>5. \A u \in Token \ {t} : security[u] # None => SameSecurity(u)
    BY <2>4 DEF SameSecurity, TypeOK, PhaseAhead
  <2>6. \A u \in Token : task[u] # None => SameTask(u)
    BY <1>2 DEF SameTask, TypeOK
  <2>7. LeasesMove
    BY <1>2, <2>3, <2>4, <2>5, <2>6 DEF LeasesMove, TypeOK
  <2>8. PassesKnow'
    BY <1>2, <2>3, <2>4, AllKnow DEF SameSecurity
  <2> QED
    BY <1>2, <2>7, <2>8, LeasesMoveKeeps DEF TypeOK
<1> QED
  BY <1>1, <1>2 DEF BecomesDue

LEMMA LeaseExpiresKeeps ==
  ASSUME AvailabilityInv, NEW t \in Token, LeaseExpires(t)
  PROVE  AvailabilityInv'
<1> USE DEF AvailabilityInv
<1>1. CASE task[t] # None /\ task[t].work.lease_id # None
           /\ task' = [task EXCEPT ![t].work.expired = TRUE]
           /\ UNCHANGED <<listed, security, lifecycle, schedule, snapshot, pass>>
  <2>1. task[t] \in TaskRow /\ task[t].work \in Lease
    BY <1>1 DEF TypeOK, TaskRow
  <2>2. task'[t] = [task[t] EXCEPT !.work = [task[t].work EXCEPT !.expired = TRUE]]
    BY <1>1 DEF TypeOK
  <2>3. SameTask(t)
    <3> DEFINE work == [task[t].work EXCEPT !.expired = TRUE]
    <3>1. work \in Lease /\ work.lease_id = task[t].work.lease_id
      BY <2>1, LeaseEdits
    <3> HIDE DEF work
    <3>2. task'[t] = [task[t] EXCEPT !.work = work]
      BY <2>2 DEF work
    <3>3. task'[t] \in TaskRow /\ task'[t] # None
          /\ task'[t].state = task[t].state /\ task'[t].work = work
      BY <2>1, <3>1, <3>2, TaskRowEdit
    <3> QED
      BY <1>1, <3>1, <3>3, Zenon DEF SameTask
  <2>4. \A u \in Token \ {t} : task'[u] = task[u]
    BY <1>1 DEF TypeOK
  <2>5. \A u \in Token \ {t} : task[u] # None => SameTask(u)
    BY <2>4 DEF SameTask, TypeOK
  <2>6. \A u \in Token : security[u] # None => SameSecurity(u)
    BY <1>1 DEF SameSecurity, TypeOK, PhaseAhead
  <2>7. LeasesMove
    BY <1>1, <2>3, <2>4, <2>5, <2>6 DEF LeasesMove, TypeOK
  <2>8. PassesKnow'
    BY <1>1, <2>3, <2>4, AllKnow DEF SameTask
  <2> QED
    BY <1>1, <2>7, <2>8, LeasesMoveKeeps DEF TypeOK
<1>2. CASE security[t] # None /\ security[t].work.lease_id # None
           /\ security' = [security EXCEPT ![t].work.expired = TRUE]
           /\ UNCHANGED <<listed, task, lifecycle, schedule, snapshot, pass>>
  <2>1. security[t] \in SecurityRow /\ security[t].work \in Lease
    BY <1>2 DEF TypeOK, SecurityRow
  <2>2. security'[t] = [security[t] EXCEPT !.work = [security[t].work EXCEPT !.expired = TRUE]]
    BY <1>2 DEF TypeOK
  <2>3. SameSecurity(t) /\ security'[t].work.lease_id = security[t].work.lease_id
    <3> DEFINE work == [security[t].work EXCEPT !.expired = TRUE]
    <3>1. work \in Lease /\ work.lease_id = security[t].work.lease_id
      BY <2>1, LeaseEdits
    <3> HIDE DEF work
    <3>2. security'[t] = [security[t] EXCEPT !.work = work]
      BY <2>2 DEF work
    <3>3. security'[t] \in SecurityRow /\ security'[t] # None
          /\ security'[t].phase = security[t].phase /\ security'[t].work = work
      BY <2>1, <3>1, <3>2, SecurityRowEdit
    <3>4. security[t].phase < SecurityPhases
      BY <1>2 DEF PhaseAhead
    <3> QED
      BY <1>2, <3>1, <3>3, <3>4, Zenon DEF SameSecurity
  <2>4. \A u \in Token \ {t} : security'[u] = security[u]
    BY <1>2 DEF TypeOK
  <2>5. \A u \in Token \ {t} : security[u] # None => SameSecurity(u)
    BY <2>4 DEF SameSecurity, TypeOK, PhaseAhead
  <2>6. \A u \in Token : task[u] # None => SameTask(u)
    BY <1>2 DEF SameTask, TypeOK
  <2>7. LeasesMove
    BY <1>2, <2>3, <2>4, <2>5, <2>6 DEF LeasesMove, TypeOK
  <2>8. PassesKnow'
    BY <1>2, <2>3, <2>4, AllKnow DEF SameSecurity
  <2> QED
    BY <1>2, <2>7, <2>8, LeasesMoveKeeps DEF TypeOK
<1> QED
  BY <1>1, <1>2 DEF LeaseExpires

\* Steps of a pass that write no row: an answer, a lost lease, a death.
LEMMA AnsweredKeeps ==
  ASSUME AvailabilityInv, NEW l \in Loop, NEW batch \in Batches(l), NEW present \in SUBSET batch,
         pass[l].pc = "asking", Answered(l, batch, present)
  PROVE  AvailabilityInv'
<1> USE DEF AvailabilityInv
<1>1. batch \subseteq pass[l].claims /\ (pass[l].kind = "security" => batch = pass[l].claims)
  BY DEF Batches
<1>2. pass[l] \in Pass /\ pass[l].claims \subseteq Token
  BY DEF TypeOK, Pass
<1>3. pass' = [pass EXCEPT ![l] =
                  [pass[l] EXCEPT !.pc = "answered", !.batch = batch, !.present = present]]
  BY DEF Answered, TypeOK
<1>4. [pass[l] EXCEPT !.pc = "answered", !.batch = batch, !.present = present] \in Pass
  BY <1>1, <1>2 DEF Pass
<1>5. pass' \in [Loop -> Pass]
  BY <1>3, <1>4 DEF TypeOK
<1>6. PassKnows(l)'
  <2>1. PassKnows(l) /\ pass[l].kind \in Kind \cup {None}
    BY <1>2 DEF PassesKnow, Pass
  <2>2. /\ pass'[l].pc = "answered" /\ pass'[l].kind = pass[l].kind
        /\ pass'[l].claims = pass[l].claims /\ pass'[l].phase = pass[l].phase
        /\ pass'[l].batch = batch /\ pass'[l].present = present
    BY <1>2, <1>3 DEF TypeOK, Pass
  <2>3. task' = task /\ security' = security
    BY DEF Answered
  <2> QED
    BY <1>1, <2>1, <2>2, <2>3 DEF PassKnows
<1>7. \A m \in Loop \ {l} : PassKnows(m)'
  <2> SUFFICES ASSUME NEW m \in Loop \ {l} PROVE PassKnows(m)'
    OBVIOUS
  <2>1. pass'[m] = pass[m] /\ PassKnows(m)
    BY <1>3 DEF TypeOK, PassesKnow
  <2>2. task' = task /\ security' = security
    BY DEF Answered
  <2> QED
    BY <2>1, <2>2 DEF PassKnows
<1>8. PassesKnow'
  BY <1>6, <1>7 DEF PassesKnow
<1> QED
  BY <1>5, <1>8, RowsUnchanged, LeasesMoveKeeps DEF Answered, TypeOK

LEMMA GivenUpKeeps ==
  ASSUME AvailabilityInv, NEW l \in Loop, pass' = [pass EXCEPT ![l] = Idle],
         UNCHANGED <<listed, task, security, lifecycle, schedule, snapshot>>
  PROVE  AvailabilityInv'
<1> USE DEF AvailabilityInv
<1>1. pass' \in [Loop -> Pass]
  BY IdleType DEF TypeOK
<1>2. PassesKnow'
  BY DEF PassesKnow, PassKnows, Idle, TypeOK
<1> QED
  BY <1>1, <1>2, RowsUnchanged, LeasesMoveKeeps DEF TypeOK
-----------------------------------------------------------------------------
(* Steps that make rows, take them and complete them.                      *)

LEMMA AdmitKeeps ==
  ASSUME AvailabilityInv, NEW t \in Token, Admit(t)
  PROVE  AvailabilityInv'
<1> USE DEF AvailabilityInv
<1>1. CASE task[t] # None
  <2>1. UNCHANGED <<listed, task, security, lifecycle, schedule, snapshot, pass>>
    BY <1>1 DEF Admit, PendingIfAbsent, TypeOK
  <2>2. PassesKnow'
    BY <2>1, AllKnow
  <2> QED
    BY <2>1, <2>2, RowsUnchanged, LeasesMoveKeeps DEF TypeOK
<1>2. CASE task[t] = None
  <2>1. Pending \in TaskRow /\ Pending.state = "PENDING_DEX" /\ Pending # None /\ ~Pending.work.expired
    <3>1. Pending \in TaskRow /\ Pending.work = Due /\ Pending.state = "PENDING_DEX"
      BY DueType DEF Pending, TaskRow
    <3>2. Pending # None
      BY <3>1
    <3> QED
      BY <3>1, <3>2, DueType
  <2>2. task' = [task EXCEPT ![t] = Pending] /\ task'[t] = Pending
    BY <1>2 DEF Admit, PendingIfAbsent, TypeOK
  <2>3. \A u \in Token \ {t} : task'[u] = task[u]
    BY <2>2 DEF TypeOK
  <2>4. lifecycle' = [lifecycle EXCEPT ![t] = [lifecycle[t] EXCEPT !["PENDING_DEX"] = 1]]
    <3>1. Counted(lifecycle[t]["PENDING_DEX"]) = 1
      BY <1>2 DEF PromotionComplete, Counted
    <3> QED
      BY <1>2, <3>1 DEF Admit
  <2>5. UNCHANGED <<listed, security, schedule, snapshot, pass>>
    BY DEF Admit
  <2>6. task' \in [Token -> TaskRow \cup {None}]
    BY <2>1, <2>2 DEF TypeOK
  <2>7. [lifecycle[t] EXCEPT !["PENDING_DEX"] = 1] \in [{"PENDING_DEX", "NEW"} -> Counter]
    BY DEF TypeOK
  <2>8. TypeOK'
    BY <2>1, <2>2, <2>3, <2>4, <2>5, <2>6, <2>7 DEF TypeOK
  <2>9. Promoted' = Promoted /\ t \notin Promoted
    BY <1>2, <2>1, <2>2, <2>3 DEF Promoted
  <2>10. PromotionComplete'
    <3> SUFFICES ASSUME NEW u \in Token
                 PROVE  /\ u \in Promoted' <=> u \in schedule'
                        /\ u \in Promoted' <=> security'[u] # None
                        /\ lifecycle'[u]["NEW"] = IF u \in Promoted' THEN 1 ELSE 0
                        /\ lifecycle'[u]["PENDING_DEX"] = IF task'[u] = None THEN 0 ELSE 1
      BY DEF PromotionComplete
    <3>1. CASE u = t
      BY <3>1, <2>1, <2>2, <2>4, <2>5, <2>9 DEF TypeOK, PromotionComplete
    <3>2. CASE u # t
      BY <3>2, <2>3, <2>4, <2>5, <2>9 DEF TypeOK, PromotionComplete
    <3> QED
      BY <3>1, <3>2
  <2>11. PassesKnow'
    BY <2>1, <2>2, <2>3, <2>5, AllKnow
  <2>12. PhaseAhead' /\ SnapshotPerPhase'
    BY <2>5 DEF PhaseAhead, SnapshotPerPhase
  <2> QED
    BY <2>8, <2>10, <2>11, <2>12
<1> QED
  BY <1>1, <1>2

LEMMA ClaimDueKeeps ==
  ASSUME AvailabilityInv, NEW l \in Loop, NEW kind \in Kind, ClaimDue(l, kind)
  PROVE  AvailabilityInv'
<1> USE DEF AvailabilityInv
<1> DEFINE claims == Claimable(kind)
           rec == [Idle EXCEPT !.pc = "asking", !.kind = kind, !.claims = claims,
                               !.phase = ClaimedPhase(kind, claims)]
<1>1. l.process \in Process /\ kind \in l.kinds
  BY DEF ClaimDue
<1>2. claims \subseteq Token
  BY DEF Claimable
<1>3. ClaimedPhase(kind, claims) \in [Token -> 0 .. SecurityPhases]
  <2> SUFFICES ASSUME NEW t \in Token, kind = "security", t \in claims
               PROVE  security[t].phase \in 0 .. SecurityPhases
    BY DEF ClaimedPhase
  <2>1. security[t] \in SecurityRow
    BY DEF Claimable, TypeOK
  <2> QED
    BY <2>1 DEF SecurityRow
<1>4. rec \in Pass
  BY <1>2, <1>3 DEF Idle, Pass
<1>5. pass' = [pass EXCEPT ![l] = rec]
  BY DEF ClaimDue
<1>6. pass' \in [Loop -> Pass] /\ pass'[l] = rec
  BY <1>4, <1>5 DEF TypeOK
<1>7. /\ rec.pc = "asking" /\ rec.kind = kind /\ rec.claims = claims
      /\ rec.phase = ClaimedPhase(kind, claims) /\ rec.batch = {} /\ rec.present = {}
  BY DEF Idle
<1>8. UNCHANGED <<listed, lifecycle, schedule, snapshot>>
  BY DEF ClaimDue
<1>9. CASE kind = "dex"
  <2>1. security' = security
    BY <1>9 DEF ClaimDue
  <2>2. task' = [t \in Token |-> IF t \in claims THEN [task[t] EXCEPT !.work = Leased(l.process, @)]
                                                 ELSE task[t]]
    BY <1>9 DEF ClaimDue
  <2>3. \A t \in claims : task[t] # None
    BY <1>9 DEF Claimable
  <2>4. \A t \in Token : task[t] # None => SameTask(t)
    <3> SUFFICES ASSUME NEW t \in Token, task[t] # None PROVE SameTask(t)
      OBVIOUS
    <3>1. task[t] \in TaskRow /\ task[t].work \in Lease
      BY DEF TypeOK, TaskRow
    <3>2. CASE t \in claims
      <4>1. task'[t] = [task[t] EXCEPT !.work = Leased(l.process, task[t].work)]
        BY <2>2, <3>2
      <4>2. Leased(l.process, task[t].work) \in Lease /\ ~Leased(l.process, task[t].work).expired
        BY <1>1, <3>1, LeaseTypes
      <4> QED
        BY <3>1, <4>1, <4>2, TaskRowEdit DEF SameTask
    <3>3. CASE t \notin claims
      BY <2>2, <3>1, <3>3 DEF SameTask, TypeOK
    <3> QED
      BY <3>2, <3>3
  <2>5. \A t \in Token : task[t] = None => task'[t] = None
    BY <2>2, <2>3
  <2>6. \A t \in Token : security[t] # None => SameSecurity(t)
    BY <2>1 DEF SameSecurity, TypeOK, PhaseAhead
  <2>7. LeasesMove
    BY <1>8, <2>1, <2>2, <2>4, <2>5, <2>6 DEF LeasesMove, TypeOK
  <2>8. \A t \in Token : task[t] # None => task'[t] # None
    BY <2>4 DEF SameTask
  <2>9. PassKnows(l)'
    BY <1>1, <1>2, <1>6, <1>7, <1>9, <2>3, <2>8 DEF PassKnows
  <2>10. \A m \in Loop \ {l} : PassKnows(m)'
    <3> SUFFICES ASSUME NEW m \in Loop \ {l} PROVE PassKnows(m)'
      OBVIOUS
    <3>1. pass'[m] = pass[m] /\ PassKnows(m)
      BY <1>5 DEF TypeOK, PassesKnow
    <3>2. pass[m].kind = "security" => \A t \in pass[m].claims :
            /\ security'[t] # None
            /\ security'[t].work.lease_id = m.process =>
                 security[t].work.lease_id = m.process /\ security'[t].phase = security[t].phase
      BY <2>1, <3>1 DEF PassKnows
    <3> QED
      BY <2>8, <3>1, <3>2, OthersKnow
  <2>11. PassesKnow'
    BY <2>9, <2>10 DEF PassesKnow
  <2> QED
    BY <1>6, <1>8, <2>7, <2>11, LeasesMoveKeeps DEF TypeOK
<1>10. CASE kind = "security"
  <2>1. task' = task
    BY <1>10 DEF ClaimDue
  <2>2. security' = [t \in Token |->
          IF t \in claims THEN [security[t] EXCEPT !.work = Leased(l.process, @)] ELSE security[t]]
    BY <1>10 DEF ClaimDue
  <2>3. \A t \in claims : security[t] # None /\ security[t].work.due
    BY <1>10 DEF Claimable
  <2>4. \A t \in Token : security[t] # None => SameSecurity(t)
    <3> SUFFICES ASSUME NEW t \in Token, security[t] # None PROVE SameSecurity(t)
      OBVIOUS
    <3>1. security[t] \in SecurityRow /\ security[t].work \in Lease
      BY DEF TypeOK, SecurityRow
    <3>2. CASE t \in claims
      <4>1. security'[t] = [security[t] EXCEPT !.work = Leased(l.process, security[t].work)]
        BY <2>2, <3>2
      <4>2. Leased(l.process, security[t].work) \in Lease /\ ~Leased(l.process, security[t].work).expired
        BY <1>1, <3>1, LeaseTypes
      <4>3. security[t].phase < SecurityPhases
        BY <2>3, <3>2 DEF PhaseAhead
      <4> QED
        BY <3>1, <4>1, <4>2, <4>3, SecurityRowEdit DEF SameSecurity
    <3>3. CASE t \notin claims
      BY <2>2, <3>1, <3>3 DEF SameSecurity, TypeOK, PhaseAhead
    <3> QED
      BY <3>2, <3>3
  <2>5. \A t \in Token : security[t] = None => security'[t] = None
    BY <2>2, <2>3
  <2>6. \A t \in Token : task[t] # None => SameTask(t)
    BY <2>1 DEF SameTask, TypeOK
  <2>7. LeasesMove
    BY <1>8, <2>1, <2>2, <2>4, <2>5, <2>6 DEF LeasesMove, TypeOK
  <2>8. \A t \in Token : security[t] # None =>
          security'[t] # None /\ security'[t].phase = security[t].phase
    BY <2>4 DEF SameSecurity
  <2>9. PassKnows(l)'
    <3>1. \A t \in claims : ClaimedPhase(kind, claims)[t] = security[t].phase
      BY <1>2, <1>10 DEF ClaimedPhase
    <3> QED
      BY <1>1, <1>2, <1>6, <1>7, <1>10, <2>3, <2>8, <3>1 DEF PassKnows
  <2>10. \A m \in Loop \ {l} : PassKnows(m)'
    <3> SUFFICES ASSUME NEW m \in Loop \ {l} PROVE PassKnows(m)'
      OBVIOUS
    <3>1. pass'[m] = pass[m] /\ PassKnows(m) /\ pass[m].claims \subseteq Token
      BY <1>5 DEF TypeOK, PassesKnow, Pass
    <3>2. ASSUME pass[m].kind = "security", NEW t \in pass[m].claims
          PROVE  /\ security'[t] # None
                 /\ security'[t].work.lease_id = m.process =>
                      security[t].work.lease_id = m.process /\ security'[t].phase = security[t].phase
      <4>1. m.process # l.process
        BY <1>1, <1>10, <3>1, <3>2, LoopAssumption DEF PassKnows
      <4>2. t \in Token /\ security[t] # None
        BY <3>1, <3>2 DEF PassKnows
      <4>3. CASE t \in claims
        <5>1. security[t] \in SecurityRow /\ security[t].work \in Lease
          BY <4>2 DEF TypeOK, SecurityRow
        <5>2. security'[t].work.lease_id = l.process
          <6>1. security'[t] = [security[t] EXCEPT !.work = Leased(l.process, security[t].work)]
            BY <2>2, <4>2, <4>3
          <6>2. /\ Leased(l.process, security[t].work) \in Lease
                /\ Leased(l.process, security[t].work).lease_id = l.process
            BY <1>1, <5>1, LeaseTypes
          <6> QED
            BY <5>1, <6>1, <6>2, SecurityRowEdit
        <5> QED
          BY <2>8, <4>1, <4>2, <5>2
      <4>4. CASE t \notin claims
        BY <2>2, <4>2, <4>4
      <4> QED
        BY <4>3, <4>4
    <3> QED
      BY <2>1, <3>1, <3>2, OthersKnow
  <2>11. PassesKnow'
    BY <2>9, <2>10 DEF PassesKnow
  <2> QED
    BY <1>6, <1>8, <2>7, <2>11, LeasesMoveKeeps DEF TypeOK
<1> QED
  BY <1>9, <1>10

\* What a pass holds after a batch.
LEMMA ContinueShape ==
  ASSUME AvailabilityInv, NEW l \in Loop, Continue(l)
  PROVE  /\ pass' \in [Loop -> Pass]
         /\ \A m \in Loop \ {l} : pass'[m] = pass[m]
         /\ pass'[l].batch = {} /\ pass'[l].present = {}
         /\ \/ pass'[l].pc = "idle" /\ pass'[l].kind = None
            \/ /\ pass'[l].pc = "asking" /\ pass'[l].kind = pass[l].kind
               /\ pass'[l].claims = pass[l].claims \ pass[l].batch
               /\ pass'[l].claims # {}
<1> DEFINE rest == pass[l].claims \ pass[l].batch
           next == IF rest = {} THEN Idle
                   ELSE [Idle EXCEPT !.pc = "asking", !.kind = pass[l].kind, !.claims = rest]
<1>1. pass \in [Loop -> Pass] /\ pass[l] \in Pass
  BY DEF AvailabilityInv, TypeOK
<1>2. pass' = [pass EXCEPT ![l] = next]
  BY DEF Continue
<1>3. next \in Pass
  BY <1>1, IdleType DEF Idle, Pass
<1>4. /\ next.batch = {} /\ next.present = {}
      /\ \/ next.pc = "idle" /\ next.kind = None
         \/ next.pc = "asking" /\ next.kind = pass[l].kind /\ next.claims = rest /\ rest # {}
  BY DEF Idle
<1> HIDE DEF next
<1> QED
  BY <1>1, <1>2, <1>3, <1>4

LEMMA CompleteDexKeeps ==
  ASSUME AvailabilityInv, NEW l \in Loop, CompleteDex(l)
  PROVE  AvailabilityInv'
<1> USE DEF AvailabilityInv
<1> DEFINE batch == pass[l].batch
           present == pass[l].present
<1>1. /\ pass[l].kind = "dex" /\ present \subseteq batch /\ batch \subseteq pass[l].claims
      /\ pass[l].claims \subseteq Token /\ l.process \in Process
      /\ \A t \in pass[l].claims : task[t] # None
  BY DEF CompleteDex, PassesKnow, PassKnows, TypeOK, Pass
<1>2. \A t \in batch : task[t] \in TaskRow /\ task[t].work \in Lease /\ task[t].state = "PENDING_DEX"
  BY <1>1 DEF CompleteDex, Owns, Mine, TypeOK, TaskRow
<1>3. \A t \in batch :
        /\ t \notin Promoted /\ security[t] = None
        /\ lifecycle[t]["NEW"] = 0 /\ lifecycle[t]["PENDING_DEX"] = 1
  BY <1>1, <1>2 DEF Promoted, PromotionComplete
<1>4. \A t \in batch :
        /\ task'[t] = [state |-> IF t \in present THEN "NEW" ELSE "PENDING_DEX",
                       work |-> Released(task[t].work)]
        /\ task'[t] \in TaskRow /\ task'[t] # None
        /\ task'[t].state = (IF t \in present THEN "NEW" ELSE "PENDING_DEX")
        /\ ~task'[t].work.expired
  <2> SUFFICES ASSUME NEW t \in batch
               PROVE  /\ task'[t] = [state |-> IF t \in present THEN "NEW" ELSE "PENDING_DEX",
                                     work |-> Released(task[t].work)]
                      /\ task'[t] \in TaskRow /\ task'[t] # None
                      /\ task'[t].state = (IF t \in present THEN "NEW" ELSE "PENDING_DEX")
                      /\ ~task'[t].work.expired
    OBVIOUS
  <2>1. task'[t] = [state |-> IF t \in present THEN "NEW" ELSE "PENDING_DEX",
                    work |-> Released(task[t].work)]
    BY <1>1 DEF CompleteDex
  <2>2. Released(task[t].work) \in Lease /\ ~Released(task[t].work).expired
    BY <1>1, <1>2, LeaseTypes
  <2>3. task'[t] \in TaskRow
    BY <2>1, <2>2 DEF TaskRow
  <2> QED
    BY <2>1, <2>2, <2>3
<1>5. \A t \in Token \ batch : task'[t] = task[t]
  BY DEF CompleteDex
<1>6. \A t \in Token : security'[t] = IF t \in present THEN [phase |-> 0, work |-> Due] ELSE security[t]
  BY <1>1, <1>3 DEF CompleteDex, NewObligations
<1>7. [phase |-> 0, work |-> Due] \in SecurityRow
  BY DueType DEF SecurityRow
<1>8. \A t \in Token :
        /\ t \in present => lifecycle'[t] = [lifecycle[t] EXCEPT !["NEW"] = 1]
        /\ t \notin present => lifecycle'[t] = lifecycle[t]
  BY <1>1, <1>3 DEF CompleteDex, Counted
<1>9. schedule' = schedule \cup present /\ UNCHANGED <<listed, snapshot>>
  BY DEF CompleteDex
<1>10. TypeOK'
  <2>1. task' \in [Token -> TaskRow \cup {None}]
    <3>1. task' = [t \in Token |-> task'[t]]
      BY DEF CompleteDex
    <3>2. \A t \in Token : task'[t] \in TaskRow \cup {None}
      BY <1>4, <1>5 DEF TypeOK
    <3> QED
      BY <3>1, <3>2
  <2>2. security' \in [Token -> SecurityRow \cup {None}]
    <3>1. security' = [t \in Token |-> security'[t]]
      BY DEF CompleteDex, NewObligations
    <3>2. \A t \in Token : security'[t] \in SecurityRow \cup {None}
      BY <1>6, <1>7 DEF TypeOK
    <3> QED
      BY <3>1, <3>2
  <2>3. lifecycle' \in [Token -> [{"PENDING_DEX", "NEW"} -> Counter]]
    <3>1. lifecycle' = [t \in Token |-> lifecycle'[t]]
      BY DEF CompleteDex
    <3>2. \A t \in Token : lifecycle'[t] \in [{"PENDING_DEX", "NEW"} -> Counter]
      <4> SUFFICES ASSUME NEW t \in Token
                   PROVE  lifecycle'[t] \in [{"PENDING_DEX", "NEW"} -> Counter]
        OBVIOUS
      <4>1. lifecycle[t] \in [{"PENDING_DEX", "NEW"} -> Counter]
        BY DEF TypeOK
      <4>2. [lifecycle[t] EXCEPT !["NEW"] = 1] \in [{"PENDING_DEX", "NEW"} -> Counter]
        BY <4>1
      <4> QED
        BY <1>8, <4>1, <4>2
    <3> QED
      BY <3>1, <3>2
  <2>4. \A t \in Token :
          /\ task'[t] # None /\ task'[t].work.lease_id = None => ~task'[t].work.expired
          /\ security'[t] # None /\ security'[t].work.lease_id = None => ~security'[t].work.expired
    <3> SUFFICES ASSUME NEW t \in Token
                 PROVE
          /\ task'[t] # None /\ task'[t].work.lease_id = None => ~task'[t].work.expired
          /\ security'[t] # None /\ security'[t].work.lease_id = None => ~security'[t].work.expired
      OBVIOUS
    <3>1. task'[t] # None /\ task'[t].work.lease_id = None => ~task'[t].work.expired
      <4>1. CASE t \in batch
        BY <1>4, <4>1
      <4>2. CASE t \notin batch
        BY <1>5, <4>2 DEF TypeOK
      <4> QED
        BY <4>1, <4>2
    <3>2. security'[t] # None /\ security'[t].work.lease_id = None => ~security'[t].work.expired
      <4>1. CASE t \in present
        <5>1. security'[t].work = Due
          BY <1>6, <4>1
        <5> QED
          BY <5>1, DueType
      <4>2. CASE t \notin present
        <5>1. security'[t] = security[t]
          BY <1>6, <4>2
        <5> QED
          BY <5>1 DEF TypeOK
      <4> QED
        BY <4>1, <4>2
    <3> QED
      BY <3>1, <3>2
  <2>5. pass' \in [Loop -> Pass]
    BY ContinueShape DEF CompleteDex
  <2>6. listed' \subseteq Token /\ schedule' \subseteq Token
        /\ snapshot' \in [Token -> [0 .. SecurityPhases - 1 -> Counter]]
    BY <1>1, <1>9 DEF TypeOK
  <2> QED
    BY <2>1, <2>2, <2>3, <2>4, <2>5, <2>6 DEF TypeOK
<1>11. Promoted' = Promoted \cup present
  BY <1>1, <1>3, <1>4, <1>5, ZenonT(60) DEF Promoted
<1>12. PromotionComplete'
  <2> SUFFICES ASSUME NEW t \in Token
               PROVE  /\ t \in Promoted' <=> t \in schedule'
                      /\ t \in Promoted' <=> security'[t] # None
                      /\ lifecycle'[t]["NEW"] = IF t \in Promoted' THEN 1 ELSE 0
                      /\ lifecycle'[t]["PENDING_DEX"] = IF task'[t] = None THEN 0 ELSE 1
    BY DEF PromotionComplete
  <2>1. task'[t] = None <=> task[t] = None
    BY <1>1, <1>4, <1>5
  <2>2. CASE t \in present
    <3>1. /\ t \in Promoted' /\ t \in schedule' /\ security'[t] # None
      BY <1>6, <1>7, <1>9, <1>11, <2>2
    <3>2. lifecycle'[t] = [lifecycle[t] EXCEPT !["NEW"] = 1]
      BY <1>8, <2>2
    <3>3. lifecycle'[t]["NEW"] = 1 /\ lifecycle'[t]["PENDING_DEX"] = lifecycle[t]["PENDING_DEX"]
      BY <3>2 DEF TypeOK
    <3> QED
      BY <2>1, <3>1, <3>3 DEF PromotionComplete
  <2>3. CASE t \notin present
    <3>1. /\ t \in Promoted' <=> t \in Promoted
          /\ t \in schedule' <=> t \in schedule
          /\ security'[t] = security[t] /\ lifecycle'[t] = lifecycle[t]
      BY <1>6, <1>8, <1>9, <1>11, <2>3
    <3> QED
      BY <2>1, <3>1 DEF PromotionComplete
  <2> QED
    BY <2>2, <2>3
<1>13. PhaseAhead'
  BY <1>6 DEF PhaseAhead
<1>14. SnapshotPerPhase'
  <2> SUFFICES ASSUME NEW t \in Token, NEW p \in 0 .. SecurityPhases - 1
               PROVE  snapshot'[t][p] = IF security'[t] # None /\ security'[t].phase > p THEN 1 ELSE 0
    BY DEF SnapshotPerPhase
  <2>1. CASE t \in present
    <3>1. snapshot[t][p] = 0
      BY <1>1, <1>3, <2>1 DEF SnapshotPerPhase
    <3>2. security'[t].phase = 0
      BY <1>6, <2>1
    <3> QED
      BY <1>9, <3>1, <3>2
  <2>2. CASE t \notin present
    BY <1>6, <1>9, <2>2 DEF SnapshotPerPhase
  <2> QED
    BY <2>1, <2>2
<1>15. PassesKnow'
  <2>1. \A t \in Token : task[t] # None => task'[t] # None
    BY <1>4, <1>5
  <2>2. PassKnows(l)'
    <3>1. pass'[l].kind = "dex" => \A t \in pass'[l].claims : task'[t] # None
      BY <1>1, <2>1, ContinueShape DEF CompleteDex
    <3>2. pass'[l].kind \in {None, "dex"} /\ "dex" \in l.kinds
      BY <1>1, ContinueShape DEF CompleteDex, PassesKnow, PassKnows
    <3> QED
      BY <1>1, <3>1, <3>2, ContinueShape DEF CompleteDex, PassKnows
  <2>3. \A m \in Loop \ {l} : PassKnows(m)'
    <3> SUFFICES ASSUME NEW m \in Loop \ {l} PROVE PassKnows(m)'
      OBVIOUS
    <3>1. pass'[m] = pass[m] /\ PassKnows(m) /\ pass[m].claims \subseteq Token
      BY ContinueShape DEF CompleteDex, TypeOK, PassesKnow, Pass
    <3>2. ASSUME pass[m].kind = "security", NEW t \in pass[m].claims
          PROVE  /\ security'[t] # None
                 /\ security'[t].work.lease_id = m.process =>
                      security[t].work.lease_id = m.process /\ security'[t].phase = security[t].phase
      <4>1. t \in Token /\ security[t] # None
        BY <3>1, <3>2 DEF PassKnows
      <4> QED
        BY <1>3, <1>1, <1>6, <4>1
    <3> QED
      BY <2>1, <3>1, <3>2, OthersKnow
  <2> QED
    BY <2>2, <2>3 DEF PassesKnow
<1> QED
  BY <1>10, <1>12, <1>13, <1>14, <1>15

LEMMA CompleteSecurityKeeps ==
  ASSUME AvailabilityInv, NEW l \in Loop, CompleteSecurity(l)
  PROVE  AvailabilityInv'
<1> USE DEF AvailabilityInv
<1> DEFINE batch == pass[l].batch
           present == pass[l].present
           After(t) == IF t \in present THEN security[t].phase + 1 ELSE security[t].phase
<1>1. /\ pass[l].kind = "security" /\ present \subseteq batch /\ batch = pass[l].claims
      /\ batch \subseteq Token /\ l.process \in Process
  BY DEF CompleteSecurity, PassesKnow, PassKnows, TypeOK, Pass
<1>2. \A t \in batch :
        /\ security[t] # None /\ security[t] \in SecurityRow /\ security[t].work \in Lease
        /\ security[t].work.lease_id = l.process
  BY <1>1 DEF CompleteSecurity, Owns, Mine, PassesKnow, PassKnows, TypeOK, SecurityRow
<1>3. \A t \in batch :
        /\ security[t].phase = pass[l].phase[t]
        /\ security[t].phase \in 0 .. SecurityPhases - 1
        /\ After(t) \in 0 .. SecurityPhases
  <2> SUFFICES ASSUME NEW t \in batch
               PROVE  /\ security[t].phase = pass[l].phase[t]
                      /\ security[t].phase \in 0 .. SecurityPhases - 1
                      /\ After(t) \in 0 .. SecurityPhases
    OBVIOUS
  <2>1. security[t].phase = pass[l].phase[t]
    BY <1>1, <1>2 DEF PassesKnow, PassKnows
  <2>2. security[t].phase < SecurityPhases /\ security[t].phase \in 0 .. SecurityPhases
    BY <1>1, <1>2 DEF PhaseAhead, SecurityRow
  <2> QED
    BY <2>1, <2>2
<1>4. \A t \in batch :
        /\ security'[t] \in SecurityRow /\ security'[t] # None
        /\ security'[t].phase = After(t)
        /\ security'[t].work.lease_id = None /\ ~security'[t].work.due /\ ~security'[t].work.expired
  <2> SUFFICES ASSUME NEW t \in batch
               PROVE  /\ security'[t] \in SecurityRow /\ security'[t] # None
                      /\ security'[t].phase = After(t)
                      /\ security'[t].work.lease_id = None
                      /\ ~security'[t].work.due /\ ~security'[t].work.expired
    OBVIOUS
  <2>1. security'[t] = [phase |-> After(t), work |-> Released(security[t].work)]
    BY <1>1 DEF CompleteSecurity
  <2>2. /\ Released(security[t].work) \in Lease /\ Released(security[t].work).lease_id = None
        /\ ~Released(security[t].work).due /\ ~Released(security[t].work).expired
    BY <1>1, <1>2, LeaseTypes
  <2>3. security'[t] \in SecurityRow
    BY <1>3, <2>1, <2>2 DEF SecurityRow
  <2> QED
    BY <2>1, <2>2, <2>3
<1>5. \A t \in Token \ batch : security'[t] = security[t]
  BY DEF CompleteSecurity
<1>6. \A t \in present : snapshot[t][security[t].phase] = 0
  BY <1>1, <1>3 DEF SnapshotPerPhase
<1>7. \A t \in Token :
        /\ t \in present => snapshot'[t] = [snapshot[t] EXCEPT ![security[t].phase] = 1]
        /\ t \notin present => snapshot'[t] = snapshot[t]
  <2> SUFFICES ASSUME NEW t \in Token
               PROVE  /\ t \in present => snapshot'[t] = [snapshot[t] EXCEPT ![security[t].phase] = 1]
                      /\ t \notin present => snapshot'[t] = snapshot[t]
    OBVIOUS
  <2>1. CASE t \in present
    <3>1. snapshot'[t] =
            [snapshot[t] EXCEPT ![pass[l].phase[t]] = Counted(snapshot[t][pass[l].phase[t]])]
      BY <2>1 DEF CompleteSecurity
    <3>2. pass[l].phase[t] = security[t].phase
      BY <1>1, <1>3, <2>1
    <3> QED
      BY <1>6, <2>1, <3>1, <3>2 DEF Counted
  <2>2. CASE t \notin present
    BY <2>2 DEF CompleteSecurity
  <2> QED
    BY <2>1, <2>2
<1>8. UNCHANGED <<listed, task, lifecycle, schedule>>
  BY DEF CompleteSecurity
<1>9. TypeOK'
  <2>1. security' \in [Token -> SecurityRow \cup {None}]
    <3>1. security' = [t \in Token |-> security'[t]]
      BY DEF CompleteSecurity
    <3>2. \A t \in Token : security'[t] \in SecurityRow \cup {None}
      BY <1>4, <1>5 DEF TypeOK
    <3> QED
      BY <3>1, <3>2
  <2>2. snapshot' \in [Token -> [0 .. SecurityPhases - 1 -> Counter]]
    <3>1. snapshot' = [t \in Token |-> snapshot'[t]]
      BY DEF CompleteSecurity
    <3>2. \A t \in Token : snapshot'[t] \in [0 .. SecurityPhases - 1 -> Counter]
      <4> SUFFICES ASSUME NEW t \in Token
                   PROVE  snapshot'[t] \in [0 .. SecurityPhases - 1 -> Counter]
        OBVIOUS
      <4>1. snapshot[t] \in [0 .. SecurityPhases - 1 -> Counter]
        BY DEF TypeOK
      <4>2. [snapshot[t] EXCEPT ![security[t].phase] = 1] \in [0 .. SecurityPhases - 1 -> Counter]
        BY <4>1, CountEdit
      <4> QED
        BY <1>7, <4>1, <4>2
    <3> QED
      BY <3>1, <3>2
  <2>3. \A t \in Token :
          security'[t] # None /\ security'[t].work.lease_id = None => ~security'[t].work.expired
    BY <1>4, <1>5 DEF TypeOK
  <2>4. pass' \in [Loop -> Pass]
    BY ContinueShape DEF CompleteSecurity
  <2> QED
    BY <1>8, <2>1, <2>2, <2>3, <2>4 DEF TypeOK
<1>10. \A t \in Token : security'[t] = None <=> security[t] = None
  BY <1>2, <1>4, <1>5
<1>11. Promoted' = Promoted
  BY <1>8 DEF Promoted
<1>12. PromotionComplete'
  BY <1>8, <1>10, <1>11 DEF PromotionComplete
<1>13. PhaseAhead'
  BY <1>4, <1>5 DEF PhaseAhead
<1>14. SnapshotPerPhase'
  <2> SUFFICES ASSUME NEW t \in Token, NEW p \in 0 .. SecurityPhases - 1
               PROVE  snapshot'[t][p] = IF security'[t] # None /\ security'[t].phase > p THEN 1 ELSE 0
    BY DEF SnapshotPerPhase
  <2>1. snapshot[t][p] = IF security[t] # None /\ security[t].phase > p THEN 1 ELSE 0
    BY DEF SnapshotPerPhase
  <2>2. CASE t \in present
    <3>1. /\ security[t] # None /\ security'[t] # None /\ security[t].phase \in Nat /\ p \in Nat
          /\ security'[t].phase = security[t].phase + 1
      BY <1>1, <1>2, <1>3, <1>4, <2>2
    <3>2. snapshot'[t][p] = IF p = security[t].phase THEN 1 ELSE snapshot[t][p]
      <4>1. snapshot[t] \in [0 .. SecurityPhases - 1 -> Counter]
        BY DEF TypeOK
      <4>2. snapshot'[t] = [snapshot[t] EXCEPT ![security[t].phase] = 1]
        BY <1>7, <2>2
      <4> QED
        BY <4>1, <4>2
    <3> QED
      BY <2>1, <3>1, <3>2
  <2>3. CASE t \notin present
    <3>1. /\ snapshot'[t] = snapshot[t]
          /\ security'[t] = None <=> security[t] = None
          /\ security[t] # None => security'[t].phase = security[t].phase
      BY <1>4, <1>5, <1>7, <1>10, <2>3
    <3> QED
      BY <2>1, <3>1
  <2> QED
    BY <2>2, <2>3
<1>15. PassesKnow'
  <2>1. PassKnows(l)'
    <3>1. pass'[l].kind = None
      BY <1>1, ContinueShape DEF CompleteSecurity
    <3> QED
      BY <3>1, ContinueShape DEF CompleteSecurity, PassKnows
  <2>2. \A m \in Loop \ {l} : PassKnows(m)'
    <3> SUFFICES ASSUME NEW m \in Loop \ {l} PROVE PassKnows(m)'
      OBVIOUS
    <3>1. pass'[m] = pass[m] /\ PassKnows(m) /\ pass[m].claims \subseteq Token /\ m.process \in Process
      BY ContinueShape DEF CompleteSecurity, TypeOK, PassesKnow, Pass
    <3>2. ASSUME pass[m].kind = "security", NEW t \in pass[m].claims
          PROVE  /\ security'[t] # None
                 /\ security'[t].work.lease_id = m.process =>
                      security[t].work.lease_id = m.process /\ security'[t].phase = security[t].phase
      <4>1. t \in Token /\ security[t] # None
        BY <3>1, <3>2 DEF PassKnows
      <4>2. m.process # None
        BY <3>1
      <4> QED
        BY <1>4, <1>5, <4>1, <4>2
    <3> QED
      BY <1>8, <3>1, <3>2, OthersKnow
  <2> QED
    BY <2>1, <2>2 DEF PassesKnow
<1> QED
  BY <1>9, <1>12, <1>13, <1>14, <1>15
-----------------------------------------------------------------------------
LEMMA NextKeeps ==
  ASSUME AvailabilityInv, [Next]_vars
  PROVE  AvailabilityInv'
<1>1. CASE UNCHANGED vars
  BY <1>1 DEF vars, AvailabilityInv, TypeOK, PassesKnow, PassKnows, PhaseAhead, PromotionComplete, Promoted,
              SnapshotPerPhase
<1>2. ASSUME NEW t \in Token, ListToken(t) PROVE AvailabilityInv'
  <2>1. UNCHANGED <<task, security, lifecycle, schedule, snapshot, pass>>
    BY <1>2 DEF ListToken
  <2>2. LeasesMove /\ PassesKnow'
    BY <2>1, RowsUnchanged, AllKnow
  <2> QED
    BY <1>2, <2>1, <2>2, LeasesMoveKeeps DEF ListToken, AvailabilityInv, TypeOK
<1>3. ASSUME NEW t \in Token, Admit(t) \/ BecomesDue(t) \/ LeaseExpires(t) PROVE AvailabilityInv'
  BY <1>3, AdmitKeeps, BecomesDueKeeps, LeaseExpiresKeeps
<1>4. ASSUME NEW l \in Loop, NEW kind \in Kind, ClaimDue(l, kind) PROVE AvailabilityInv'
  BY <1>4, ClaimDueKeeps
<1>5. ASSUME NEW l \in Loop, NEW batch \in Batches(l), Answer(l, batch) \/ AnswerFails(l, batch)
      PROVE  AvailabilityInv'
  <2>1. PICK present \in SUBSET batch : Answered(l, batch, present)
    <3>1. listed \cap batch \in SUBSET batch /\ batch \in SUBSET batch /\ {} \in SUBSET batch
      OBVIOUS
    <3> QED
      BY <1>5, <3>1 DEF Answer, AnswerFails
  <2>2. pass[l].pc = "asking"
    BY <1>5 DEF Answer, AnswerFails
  <2> QED
    BY <2>1, <2>2, AnsweredKeeps
<1>6. ASSUME NEW l \in Loop, Complete(l) PROVE AvailabilityInv'
  BY <1>6, CompleteDexKeeps, CompleteSecurityKeeps DEF Complete
<1>7. ASSUME NEW l \in Loop, LeaseLost(l) \/ Kill(l) PROVE AvailabilityInv'
  BY <1>7, GivenUpKeeps DEF LeaseLost, Kill
<1> QED
  BY <1>1, <1>2, <1>3, <1>4, <1>5, <1>6, <1>7 DEF Next, PassStep

\* PromotionConsistent holds of every specification: however often a token is delivered,
\* answered for and completed, by however many processes with old or new leases, it is
\* promoted once, with its schedule, security task and life cycle event, and a phase has
\* one snapshot (dex_availability.py, _complete; enrichment.py, complete).
THEOREM PromotionsConsistent == Spec => []PromotionConsistent
<1>1. Spec => []AvailabilityInv
  BY InitInv, NextKeeps, PTL DEF Spec
<1>2. AvailabilityInv => PromotionConsistent
  BY DEF AvailabilityInv, PromotionConsistent
<1> QED
  BY <1>1, <1>2, PTL
=============================================================================
