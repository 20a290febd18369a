------------------------ MODULE TokenDiscoveryProofs -------------------------
(* What a process received stays complete and in order in its memory until  *)
(* it is stored or raised, and every outage is marked.                      *)
EXTENDS TokenDiscovery, SequenceTheorems, WellFoundedInduction, TLAPS

(* Numbers, envelopes and sequences.                                        *)

LEMMA LeastExists ==
  ASSUME NEW S \in SUBSET Nat, S # {}
  PROVE  \E n \in S : \A k \in S : n <= k
<1>1. PICK n \in S : \A k \in S : <<k, n>> \notin OpToRel(<, Nat)
  BY NatLessThanWellFounded, WFMin, Zenon
<1>2. \A k \in S : ~ (k < n)
  BY <1>1, Zenon DEF OpToRel
<1>. QED
  BY <1>2

LEMMA MinIsLeast ==
  ASSUME NEW S \in SUBSET Nat, S # {}
  PROVE  Min(S) \in S /\ \A k \in S : Min(S) <= k
<1>1. PICK n \in S : \A k \in S : n <= k
  BY LeastExists
<1>. QED
  BY <1>1 DEF Min

Kinds == {"token", "rejected", "malformed", "disconnected", "reconnected"}

LEMMA EnvelopeFields ==
  ASSUME NEW e \in Envelope
  PROVE  /\ e.n \in 1 .. MaxEnvelopes /\ e.kind \in Kinds
         /\ e.kind \in {"disconnected", "reconnected"} => e.of \in 1 .. MaxEnvelopes
<1>1. PICK m \in Message \cup Connectivity, n \in 1 .. MaxEnvelopes :
        e = [kind |-> m.kind, of |-> m.of, n |-> n]
  BY DEF Envelope
<1>2. e.kind = m.kind /\ e.of = m.of /\ e.n = n
  BY <1>1
<1>3. m.kind \in Kinds /\ (m \in Message => m.kind \notin {"disconnected", "reconnected"})
  BY DEF Message, Connectivity, Kinds
<1>4. m \in Connectivity => m.of \in 1 .. MaxEnvelopes
  BY DEF Connectivity
<1>. QED
  BY <1>2, <1>3, <1>4

LEMMA NumberedIsEnvelope ==
  ASSUME received \in Nat, received < MaxEnvelopes, NEW m \in Message \cup Connectivity
  PROVE  LET e == Numbered(m.kind, m.of)
         IN  e \in Envelope /\ e.n = received + 1 /\ e.kind = m.kind /\ e.of = m.of
<1>1. received + 1 \in 1 .. MaxEnvelopes
  BY DiscoveryAssumption
<1>. QED
  BY <1>1 DEF Envelope, Numbered

LEMMA NoneIsNoEnvelope == None \notin Envelope
  BY DiscoveryAssumption

\* The library's facts about sequences, of sequences of envelopes.
LEMMA Associates == \A s, t, u \in Seq(Envelope) : (s \o t) \o u = s \o (t \o u)
  BY ConcatAssociative

LEMMA Joins == \A s, t \in Seq(Envelope) : s \o t \in Seq(Envelope)
  BY ConcatProperties

LEMMA JoinIs ==
  \A s, t \in Seq(Envelope) :
    /\ Len(s \o t) = Len(s) + Len(t) /\ Len(s) \in Nat /\ Len(t) \in Nat
    /\ \A i \in 1 .. Len(s) : (s \o t)[i] = s[i]
    /\ \A i \in 1 .. Len(t) : (s \o t)[Len(s) + i] = t[i]
<1>. SUFFICES ASSUME NEW s \in Seq(Envelope), NEW t \in Seq(Envelope)
              PROVE  /\ Len(s \o t) = Len(s) + Len(t) /\ Len(s) \in Nat /\ Len(t) \in Nat
                     /\ \A i \in 1 .. Len(s) : (s \o t)[i] = s[i]
                     /\ \A i \in 1 .. Len(t) : (s \o t)[Len(s) + i] = t[i]
  OBVIOUS
<1>1. /\ Len(s \o t) = Len(s) + Len(t)
      /\ \A i \in 1 .. Len(s) + Len(t) : (s \o t)[i] = IF i <= Len(s) THEN s[i] ELSE t[i - Len(s)]
  BY ConcatProperties
<1>2. Len(s) \in Nat /\ Len(t) \in Nat
  BY LenProperties
<1>. QED
  BY <1>1, <1>2

LEMMA EmptyJoins == \A s \in Seq(Envelope) : s \o <<>> = s /\ <<>> \o s = s
  BY ConcatEmptySeq

LEMMA Appends == \A s \in Seq(Envelope), e \in Envelope : Append(s, e) = s \o <<e>>
  BY AppendIsConcat

LEMMA Equal ==
  \A s, t \in Seq(Envelope) : Len(s) = Len(t) /\ (\A i \in 1 .. Len(s) : s[i] = t[i]) => s = t
  BY SeqEqual

LEMMA Cuts ==
  \A s \in Seq(Envelope) : \A m \in 1 .. Len(s) + 1, n \in 0 .. Len(s) :
    /\ SubSeq(s, m, n) \in Seq(Envelope)
    /\ Len(SubSeq(s, m, n)) = IF m <= n THEN n - m + 1 ELSE 0
    /\ \A i \in 1 .. n - m + 1 : SubSeq(s, m, n)[i] = s[m + i - 1]
<1>. SUFFICES ASSUME NEW s \in Seq(Envelope), NEW m \in 1 .. Len(s) + 1, NEW n \in 0 .. Len(s)
              PROVE  /\ SubSeq(s, m, n) \in Seq(Envelope)
                     /\ Len(SubSeq(s, m, n)) = IF m <= n THEN n - m + 1 ELSE 0
                     /\ \A i \in 1 .. n - m + 1 : SubSeq(s, m, n)[i] = s[m + i - 1]
  OBVIOUS
<1>1. Len(s) \in Nat /\ \A i \in 1 .. Len(s) : s[i] \in Envelope
  BY LenProperties, ElementOfSeq
<1>2. m \in Int /\ n \in Int /\ \A i \in m .. n : s[i] \in Envelope
  BY <1>1
<1>. QED
  BY <1>2, SubSeqProperties

\* What follows the first elements of a sequence.
LEMMA Dropped == \A b, r \in Seq(Envelope) : r = SubSeq(b \o r, Len(b) + 1, Len(b \o r))
<1>. SUFFICES ASSUME NEW b \in Seq(Envelope), NEW r \in Seq(Envelope)
              PROVE  r = SubSeq(b \o r, Len(b) + 1, Len(b \o r))
  OBVIOUS
<1>. DEFINE all == b \o r
            rest == SubSeq(all, Len(b) + 1, Len(all))
<1>1. /\ all \in Seq(Envelope) /\ Len(all) = Len(b) + Len(r)
      /\ Len(b) \in Nat /\ Len(r) \in Nat
      /\ \A i \in 1 .. Len(r) : all[Len(b) + i] = r[i]
  BY Joins, JoinIs
<1>. HIDE DEF all
<1>2. Len(b) + 1 \in 1 .. Len(all) + 1 /\ Len(all) \in 0 .. Len(all)
  BY <1>1
<1>3. /\ rest \in Seq(Envelope)
      /\ Len(rest) = IF Len(b) + 1 <= Len(all) THEN Len(all) - (Len(b) + 1) + 1 ELSE 0
      /\ \A i \in 1 .. Len(all) - (Len(b) + 1) + 1 : rest[i] = all[Len(b) + 1 + i - 1]
  BY <1>1, <1>2, Cuts
<1>. HIDE DEF rest
<1>4. Len(rest) = Len(r)
  BY <1>1, <1>3
<1>5. ASSUME NEW i \in 1 .. Len(r)
      PROVE  r[i] = rest[i]
  <2>1. i \in 1 .. Len(all) - (Len(b) + 1) + 1 /\ Len(b) + 1 + i - 1 = Len(b) + i
    BY <1>1
  <2>2. rest[i] = all[Len(b) + 1 + i - 1] /\ all[Len(b) + i] = r[i]
    BY <1>1, <1>3, <2>1, Zenon
  <2>. QED
    BY <2>1, <2>2, Zenon
<1>6. r = rest
  BY <1>3, <1>4, <1>5, Equal
<1>. QED
  BY <1>6 DEF rest, all


\* A sequence is what its first elements and the others make together.
LEMMA SplitJoins ==
  \A s \in Seq(Envelope) : \A k \in 0 .. Len(s) :
    SubSeq(s, 1, k) \o SubSeq(s, k + 1, Len(s)) = s
<1>. SUFFICES ASSUME NEW s \in Seq(Envelope), NEW k \in 0 .. Len(s)
              PROVE  SubSeq(s, 1, k) \o SubSeq(s, k + 1, Len(s)) = s
  OBVIOUS
<1>. DEFINE b == SubSeq(s, 1, k)
            r == SubSeq(s, k + 1, Len(s))
            all == b \o r
<1>1. Len(s) \in Nat
  BY LenProperties
<1>2. /\ 1 \in 1 .. Len(s) + 1 /\ k \in 0 .. Len(s)
      /\ k + 1 \in 1 .. Len(s) + 1 /\ Len(s) \in 0 .. Len(s)
  BY <1>1
<1>3. /\ b \in Seq(Envelope) /\ Len(b) = IF 1 <= k THEN k - 1 + 1 ELSE 0
      /\ \A i \in 1 .. k - 1 + 1 : b[i] = s[1 + i - 1]
  BY <1>2, Cuts, Zenon
<1>4. /\ r \in Seq(Envelope) /\ Len(r) = IF k + 1 <= Len(s) THEN Len(s) - (k + 1) + 1 ELSE 0
      /\ \A i \in 1 .. Len(s) - (k + 1) + 1 : r[i] = s[k + 1 + i - 1]
  BY <1>2, Cuts, Zenon
<1>. HIDE DEF b, r
<1>5. Len(b) = k /\ \A i \in 1 .. k : b[i] = s[i]
  BY <1>2, <1>3
<1>6. Len(r) = Len(s) - k
  BY <1>1, <1>4
<1>7. /\ all \in Seq(Envelope) /\ Len(all) = Len(b) + Len(r)
      /\ \A i \in 1 .. Len(b) : all[i] = b[i]
      /\ \A i \in 1 .. Len(r) : all[Len(b) + i] = r[i]
  BY <1>3, <1>4, Joins, JoinIs, Zenon
<1>. HIDE DEF all
<1>8. ASSUME NEW i \in 1 .. Len(s)
      PROVE  all[i] = s[i]
  <2>1. CASE i <= k
    <3>1. i \in 1 .. k /\ i \in 1 .. Len(b)
      BY <1>1, <1>5, <2>1
    <3>. QED
      BY <1>5, <1>7, <3>1, Zenon
  <2>2. CASE i > k
    <3>. DEFINE j == i - k
    <3>1. /\ j \in 1 .. Len(s) - (k + 1) + 1 /\ j \in 1 .. Len(r)
          /\ Len(b) + j = i /\ k + 1 + j - 1 = i
      BY <1>1, <1>5, <1>6, <2>2
    <3>. HIDE DEF j
    <3>. QED
      BY <1>4, <1>7, <3>1, Zenon
  <2>. QED
    BY <1>1, <2>1, <2>2
<1>9. Len(all) = Len(s)
  BY <1>1, <1>2, <1>5, <1>6, <1>7
<1>10. all = s
  BY <1>7, <1>8, <1>9, Equal
<1>. QED
  BY <1>10 DEF all, b, r

\* Elements cut off behind the first sequence are cut off the second.
LEMMA CutBehind ==
  \A d, q \in Seq(Envelope) : \A k \in Len(d) .. Len(d) + Len(q) :
    SubSeq(d \o q, k + 1, Len(d \o q)) = SubSeq(q, k - Len(d) + 1, Len(q))
<1>. SUFFICES ASSUME NEW d \in Seq(Envelope), NEW q \in Seq(Envelope),
                     NEW k \in Len(d) .. Len(d) + Len(q)
              PROVE  SubSeq(d \o q, k + 1, Len(d \o q)) = SubSeq(q, k - Len(d) + 1, Len(q))
  OBVIOUS
<1>. DEFINE w == d \o q
            l == SubSeq(w, k + 1, Len(w))
            r == SubSeq(q, k - Len(d) + 1, Len(q))
<1>1. /\ w \in Seq(Envelope) /\ Len(w) = Len(d) + Len(q) /\ Len(d) \in Nat /\ Len(q) \in Nat
      /\ \A i \in 1 .. Len(q) : w[Len(d) + i] = q[i]
  BY Joins, JoinIs, Zenon
<1>. HIDE DEF w
<1>2. /\ k + 1 \in 1 .. Len(w) + 1 /\ Len(w) \in 0 .. Len(w)
      /\ k - Len(d) + 1 \in 1 .. Len(q) + 1 /\ Len(q) \in 0 .. Len(q)
  BY <1>1
<1>3. /\ l \in Seq(Envelope) /\ Len(l) = IF k + 1 <= Len(w) THEN Len(w) - (k + 1) + 1 ELSE 0
      /\ \A i \in 1 .. Len(w) - (k + 1) + 1 : l[i] = w[k + 1 + i - 1]
  BY <1>1, <1>2, Cuts, Zenon
<1>4. /\ r \in Seq(Envelope)
      /\ Len(r) = IF k - Len(d) + 1 <= Len(q) THEN Len(q) - (k - Len(d) + 1) + 1 ELSE 0
      /\ \A i \in 1 .. Len(q) - (k - Len(d) + 1) + 1 : r[i] = q[k - Len(d) + 1 + i - 1]
  BY <1>2, Cuts, Zenon
<1>. HIDE DEF l, r
<1>a. Len(l) = Len(d) + Len(q) - k
  BY <1>1, <1>3
<1>b. Len(r) = Len(d) + Len(q) - k
  BY <1>1, <1>4
<1>5. Len(l) = Len(d) + Len(q) - k /\ Len(r) = Len(d) + Len(q) - k
  BY <1>a, <1>b
<1>6. ASSUME NEW i \in 1 .. Len(l)
      PROVE  l[i] = r[i]
  <2>. DEFINE j == k - Len(d) + i
  <2>1. /\ i \in 1 .. Len(w) - (k + 1) + 1 /\ i \in 1 .. Len(q) - (k - Len(d) + 1) + 1
        /\ j \in 1 .. Len(q) /\ k + 1 + i - 1 = Len(d) + j /\ k - Len(d) + 1 + i - 1 = j
    BY <1>1, <1>5
  <2>. HIDE DEF j
  <2>. QED
    BY <1>1, <1>3, <1>4, <2>1, Zenon
<1>7. l = r
  BY <1>3, <1>4, <1>5, <1>6, Equal
<1>. QED
  BY <1>7 DEF l, r, w
-----------------------------------------------------------------------------
(* Memory.                                                                  *)

\* The sequences of a process; less than a batch is put off.
Sequenced ==
  /\ batch \in Seq(Envelope) /\ deferred \in Seq(Envelope) /\ queue \in Seq(Envelope)
  /\ Len(deferred) < BatchSize
  /\ received \in Nat /\ settled \in Nat

\* A batch that is stored but not acknowledged is settled, and nothing behind it.
SettledBehind == settled <= received - Len(InMemory) + Len(batch)

Typed ==
  /\ up \in BOOLEAN /\ storing \in BOOLEAN
  /\ reader \in Reader
  /\ Sequenced
  /\ Len(queue) <= QueueCapacity /\ Len(batch) <= BatchSize
  /\ stored \subseteq Envelope
  /\ received <= MaxEnvelopes
  /\ storing => batch # <<>>
  /\ reader.pc = "none" => reader = NoReader
  /\ ~up => InMemory = <<>> /\ reader = NoReader

MemoryInv == Typed /\ MemoryUnbroken /\ SettledBehind

\* What is behind the batch.
Behind == deferred \o queue \o Holding

LEMMA HoldingIsSequence ==
  ASSUME reader \in Reader
  PROVE  /\ Holding \in Seq(Envelope)
         /\ reader.putting = None => Holding = <<>>
         /\ reader.putting # None => Holding = <<reader.putting>> /\ reader.putting \in Envelope
  BY DEF Holding, Reader

LEMMA HoldingNext ==
  ASSUME reader' \in Reader
  PROVE  /\ Holding' \in Seq(Envelope)
         /\ reader'.putting = None => Holding' = <<>>
         /\ reader'.putting # None => Holding' = <<reader'.putting>> /\ reader'.putting \in Envelope
  BY DEF Holding, Reader

LEMMA MemoryShape ==
  ASSUME reader \in Reader, Sequenced
  PROVE  /\ InMemory \in Seq(Envelope) /\ Behind \in Seq(Envelope)
         /\ InMemory = batch \o Behind
         /\ Len(InMemory) = Len(batch) + Len(Behind)
         /\ Len(batch) \in Nat /\ Len(Behind) \in Nat
         /\ \A i \in 1 .. Len(batch) : InMemory[i] = batch[i]
         /\ Behind = SubSeq(InMemory, Len(batch) + 1, Len(InMemory))
         /\ Range(InMemory) \subseteq Envelope
<1>1. /\ batch \in Seq(Envelope) /\ deferred \in Seq(Envelope)
      /\ queue \in Seq(Envelope) /\ Holding \in Seq(Envelope)
  BY HoldingIsSequence DEF Sequenced
<1>2. Behind \in Seq(Envelope) /\ InMemory = batch \o Behind
  <2>1. deferred \o queue \in Seq(Envelope)
    BY <1>1, Joins, Zenon
  <2>2. (batch \o deferred) \o queue = batch \o (deferred \o queue)
    BY <1>1, Associates, Zenon
  <2>3. (batch \o (deferred \o queue)) \o Holding =
          batch \o ((deferred \o queue) \o Holding)
    BY <1>1, <2>1, Associates, Zenon
  <2>4. (deferred \o queue) \o Holding \in Seq(Envelope)
    BY <1>1, <2>1, Joins, Zenon
  <2>. QED
    BY <2>2, <2>3, <2>4, Zenon DEF InMemory, Behind
<1>3. InMemory \in Seq(Envelope)
  BY <1>1, <1>2, Joins, Zenon
<1>4. Range(InMemory) \subseteq Envelope
  BY <1>3, RangeOfSeq
<1>5. /\ Len(InMemory) = Len(batch) + Len(Behind)
      /\ Len(batch) \in Nat /\ Len(Behind) \in Nat
      /\ \A i \in 1 .. Len(batch) : InMemory[i] = batch[i]
  BY <1>1, <1>2, JoinIs, Zenon
<1>6. Behind = SubSeq(InMemory, Len(batch) + 1, Len(InMemory))
  BY <1>1, <1>2, Dropped, Zenon
<1>. QED
  BY <1>2, <1>3, <1>4, <1>5, <1>6

LEMMA MemoryShapeNext ==
  ASSUME reader' \in Reader, Sequenced'
  PROVE  /\ InMemory' \in Seq(Envelope) /\ Behind' \in Seq(Envelope)
         /\ InMemory' = batch' \o Behind'
         /\ Len(InMemory') = Len(batch') + Len(Behind')
         /\ Len(batch') \in Nat /\ Len(Behind') \in Nat
         /\ \A i \in 1 .. Len(batch') : InMemory'[i] = batch'[i]
         /\ Behind' = SubSeq(InMemory', Len(batch') + 1, Len(InMemory'))
         /\ Range(InMemory') \subseteq Envelope
<1>1. /\ batch' \in Seq(Envelope) /\ deferred' \in Seq(Envelope)
      /\ queue' \in Seq(Envelope) /\ Holding' \in Seq(Envelope)
  BY HoldingNext DEF Sequenced
<1>2. Behind' \in Seq(Envelope) /\ InMemory' = batch' \o Behind'
  <2>1. deferred' \o queue' \in Seq(Envelope)
    BY <1>1, Joins, Zenon
  <2>2. (batch' \o deferred') \o queue' = batch' \o (deferred' \o queue')
    BY <1>1, Associates, Zenon
  <2>3. (batch' \o (deferred' \o queue')) \o Holding' =
          batch' \o ((deferred' \o queue') \o Holding')
    BY <1>1, <2>1, Associates, Zenon
  <2>4. (deferred' \o queue') \o Holding' \in Seq(Envelope)
    BY <1>1, <2>1, Joins, Zenon
  <2>. QED
    BY <2>2, <2>3, <2>4, Zenon DEF InMemory, Behind
<1>3. InMemory' \in Seq(Envelope)
  BY <1>1, <1>2, Joins, Zenon
<1>4. Range(InMemory') \subseteq Envelope
  BY <1>3, RangeOfSeq
<1>5. /\ Len(InMemory') = Len(batch') + Len(Behind')
      /\ Len(batch') \in Nat /\ Len(Behind') \in Nat
      /\ \A i \in 1 .. Len(batch') : InMemory'[i] = batch'[i]
  BY <1>1, <1>2, JoinIs, Zenon
<1>6. Behind' = SubSeq(InMemory', Len(batch') + 1, Len(InMemory'))
  BY <1>1, <1>2, Dropped, Zenon
<1>. QED
  BY <1>2, <1>3, <1>4, <1>5, <1>6

(* What the steps do to it.                                                 *)

\* A new envelope goes to the end, into the queue or into the reader that waits for it.
LEMMA PutGrows ==
  ASSUME reader \in Reader, Sequenced, reader.putting = None, Len(queue) <= QueueCapacity,
         NEW pc \in {"connecting", "connected"}, NEW gap \in 1 .. MaxEnvelopes \cup {None},
         NEW e \in Envelope, Put(pc, gap, e), batch' = batch, deferred' = deferred
  PROVE  /\ InMemory' = Append(InMemory, e) /\ received' = received + 1
         /\ queue' \in Seq(Envelope) /\ Len(queue') <= QueueCapacity
         /\ reader' \in Reader /\ reader'.pc = pc /\ reader'.open_gap = gap
<1>. DEFINE front == batch \o deferred \o queue
<1>1. front \in Seq(Envelope) /\ batch \o deferred \in Seq(Envelope) /\ <<e>> \in Seq(Envelope)
  BY Joins DEF Sequenced
<1>2. InMemory = front
  BY <1>1, HoldingIsSequence, EmptyJoins DEF InMemory
<1>3. Append(front, e) = front \o <<e>>
  BY <1>1, Appends
<1>4. /\ received' = received + 1 /\ reader' \in Reader
      /\ reader'.pc = pc /\ reader'.open_gap = gap
  BY DEF Put, Reader
<1>5. CASE HasRoom
  <2>1. queue' = Append(queue, e) /\ reader'.putting = None
    BY <1>5 DEF Put
  <2>2. /\ queue' = queue \o <<e>> /\ queue' \in Seq(Envelope) /\ Len(queue') = Len(queue) + 1
        /\ Len(queue) \in Nat
    BY <2>1, Appends, AppendProperties, LenProperties DEF Sequenced
  <2>3. batch \o deferred \o queue' = front \o <<e>>
    BY <1>1, <2>2, Associates DEF Sequenced
  <2>4. InMemory' = front \o <<e>>
    <3>1. Holding' = <<>>
      BY <1>4, <2>1, HoldingNext
    <3>2. front \o <<e>> \in Seq(Envelope)
      BY <1>1, Joins
    <3>. HIDE DEF front
    <3>. QED
      BY <2>3, <3>1, <3>2, EmptyJoins DEF InMemory
  <2>5. Len(queue') <= QueueCapacity
    BY <1>5, <2>2, DiscoveryAssumption DEF HasRoom
  <2>. QED
    BY <1>2, <1>3, <1>4, <2>2, <2>4, <2>5
<1>6. CASE ~HasRoom
  <2>1. queue' = queue /\ reader'.putting = e
    BY <1>6 DEF Put
  <2>2. Holding' = <<e>>
    BY <1>4, <2>1, HoldingNext, NoneIsNoEnvelope
  <2>. QED
    BY <1>2, <1>3, <1>4, <2>1, <2>2 DEF InMemory, Sequenced
<1>. QED
  BY <1>5, <1>6

LEMMA UnblockMoves ==
  ASSUME reader \in Reader, Sequenced, Len(queue) <= QueueCapacity, Unblock
  PROVE  /\ InMemory' = InMemory /\ queue' \in Seq(Envelope) /\ Len(queue') <= QueueCapacity
         /\ reader' \in Reader /\ reader'.pc = reader.pc /\ reader'.open_gap = reader.open_gap
<1>. DEFINE e == reader.putting
<1>1. e \in Envelope /\ Holding = <<e>> /\ queue' = Append(queue, e)
  BY HoldingIsSequence DEF Unblock
<1>2. /\ reader' \in Reader /\ reader'.pc = reader.pc /\ reader'.open_gap = reader.open_gap
      /\ reader'.putting = None
  BY DEF Unblock, Reader
<1>. HIDE DEF e
<1>a. queue \in Seq(Envelope) /\ <<e>> \in Seq(Envelope)
  BY <1>1 DEF Sequenced
<1>b. queue' \in Seq(Envelope) /\ Len(queue') = Len(queue) + 1 /\ Len(queue) \in Nat
  BY <1>1, <1>a, AppendProperties, LenProperties
<1>c. queue' = queue \o <<e>>
  BY <1>1, <1>a, Appends, Zenon
<1>3. /\ queue' = queue \o <<e>> /\ queue' \in Seq(Envelope) /\ Len(queue') = Len(queue) + 1
      /\ <<e>> \in Seq(Envelope) /\ Len(queue) \in Nat
  BY <1>a, <1>b, <1>c
<1>4. Len(queue') <= QueueCapacity
  BY <1>3, DiscoveryAssumption DEF Unblock, HasRoom
<1>5. batch \o deferred \in Seq(Envelope) /\ batch \o deferred \o queue' \in Seq(Envelope)
  BY <1>3, Joins DEF Sequenced
<1>6. batch \o deferred \o queue' = InMemory
  BY <1>1, <1>3, <1>5, Associates DEF Sequenced, InMemory
<1>7. Holding' = <<>>
  BY <1>2, HoldingNext
<1>8. InMemory' = batch \o deferred \o queue'
  BY <1>5, <1>7, EmptyJoins DEF InMemory, Unblock
<1>. QED
  BY <1>2, <1>3, <1>4, <1>6, <1>8

\* A fetch takes the first envelopes that wait, all that were put off among them.
LEMMA TakenSplits ==
  ASSUME Sequenced, Waiting # <<>>,
         NEW rest, rest = SubSeq(queue, Len(Taken) - Len(deferred) + 1, Len(queue))
  PROVE  /\ Taken \in Seq(Envelope) /\ Len(Taken) \in 1 .. BatchSize
         /\ rest \in Seq(Envelope) /\ Len(rest) <= Len(queue)
         /\ Taken \o rest = deferred \o queue
         /\ StillDeferred = <<>>
<1>. DEFINE k == Min({BatchSize, Len(Waiting)})
<1>1. /\ Waiting \in Seq(Envelope) /\ Len(Waiting) = Len(deferred) + Len(queue)
      /\ Len(deferred) \in Nat /\ Len(queue) \in Nat
  BY Joins, JoinIs, Zenon DEF Sequenced, Waiting
<1>2. Len(Waiting) \in Nat \ {0}
  BY <1>1, EmptySeq
<1>3. k \in 1 .. BatchSize /\ k \in Len(deferred) .. Len(Waiting)
  <2>. DEFINE S == {BatchSize, Len(Waiting)}
  <2>1. S \in SUBSET Nat /\ S # {}
    BY <1>2, DiscoveryAssumption
  <2>2. BatchSize \in S /\ Len(Waiting) \in S /\ \A x \in S : x = BatchSize \/ x = Len(Waiting)
    OBVIOUS
  <2>. HIDE DEF S
  <2>3. Min(S) \in S /\ \A x \in S : Min(S) <= x
    BY <2>1, MinIsLeast
  <2>4. k = Min(S)
    BY DEF S
  <2>. HIDE DEF k
  <2>5. k = BatchSize \/ k = Len(Waiting)
    BY <2>2, <2>3, <2>4, Zenon
  <2>6. k <= BatchSize /\ k <= Len(Waiting)
    BY <2>2, <2>3, <2>4, Zenon
  <2>7. Len(deferred) < BatchSize /\ BatchSize \in Nat \ {0}
    BY DiscoveryAssumption DEF Sequenced
  <2>. QED
    BY <1>1, <1>2, <2>5, <2>6, <2>7
<1>. HIDE DEF k
<1>4. Taken = SubSeq(Waiting, 1, k)
  BY DEF Taken, k
<1>5. Taken \in Seq(Envelope) /\ Len(Taken) = k
  <2>1. 1 \in 1 .. Len(Waiting) + 1 /\ k \in 0 .. Len(Waiting)
    BY <1>2, <1>3
  <2>2. Taken \in Seq(Envelope) /\ Len(Taken) = IF 1 <= k THEN k - 1 + 1 ELSE 0
    BY <1>1, <1>4, <2>1, Cuts, Zenon
  <2>. QED
    BY <1>3, <2>2
<1>6. rest = SubSeq(Waiting, k + 1, Len(Waiting))
  <2>1. k \in Len(deferred) .. Len(deferred) + Len(queue)
    BY <1>1, <1>3
  <2>2. SubSeq(deferred \o queue, k + 1, Len(deferred \o queue)) =
          SubSeq(queue, k - Len(deferred) + 1, Len(queue))
    BY <2>1, CutBehind, Zenon DEF Sequenced
  <2>. QED
    BY <1>5, <2>2, Zenon DEF Waiting
<1>7. Taken \o rest = deferred \o queue
  <2>1. k \in 0 .. Len(Waiting)
    BY <1>2, <1>3
  <2>2. SubSeq(Waiting, 1, k) \o SubSeq(Waiting, k + 1, Len(Waiting)) = Waiting
    BY <1>1, <2>1, SplitJoins, Zenon
  <2>. QED
    BY <1>4, <1>6, <2>2, Zenon DEF Waiting
<1>8. rest \in Seq(Envelope) /\ Len(rest) <= Len(queue)
  <2>1. k - Len(deferred) + 1 \in 1 .. Len(queue) + 1 /\ Len(queue) \in 0 .. Len(queue)
    BY <1>1, <1>3
  <2>2. /\ rest \in Seq(Envelope)
        /\ Len(rest) = IF k - Len(deferred) + 1 <= Len(queue)
                         THEN Len(queue) - (k - Len(deferred) + 1) + 1 ELSE 0
    BY <1>5, <2>1, Cuts, Zenon DEF Sequenced
  <2>. QED
    BY <1>1, <1>3, <2>2
<1>9. StillDeferred = <<>>
  <2>1. Len(deferred) \in Int /\ Len(Taken) + 1 \in Int /\ Len(deferred) < Len(Taken) + 1
    BY <1>1, <1>3, <1>5
  <2>. QED
    BY <2>1, SubSeqEmpty DEF StillDeferred
<1>. QED
  BY <1>3, <1>5, <1>7, <1>8, <1>9

LEMMA FirstFailureIs ==
  ASSUME Taken \in Seq(Envelope)
  PROVE  /\ FirstFailure \in 0 .. Len(Taken)
         /\ FirstFailure # 0 => Taken[FirstFailure].kind = "malformed"
<1>. DEFINE S == {i \in 1 .. Len(Taken) : Taken[i].kind = "malformed"}
<1>1. FirstFailure = IF S # {} THEN Min(S) ELSE 0
  BY DEF FirstFailure, SelectInSeq
<1>2. S \in SUBSET Nat /\ Len(Taken) \in Nat
  BY LenProperties
<1>3. S # {} => Min(S) \in S
  <2>. HIDE DEF S
  <2>. QED
    BY <1>2, MinIsLeast
<1>. QED
  BY <1>1, <1>2, <1>3

\* A failure that comes first is raised and gone.
LEMMA FetchRaisesDrops ==
  ASSUME reader \in Reader, Sequenced, FetchRaises
  PROVE  /\ deferred' \in Seq(Envelope) /\ Len(deferred') < BatchSize
         /\ queue' \in Seq(Envelope) /\ Len(queue') <= Len(queue)
         /\ Len(InMemory) = 1 + Len(InMemory') /\ Len(InMemory') \in Nat
         /\ \A i \in 1 .. Len(InMemory') : InMemory'[i] = InMemory[1 + i]
         /\ InMemory[1].kind = "malformed" /\ settled' = InMemory[1].n
         /\ InMemory' \in Seq(Envelope)
<1>1. /\ batch = <<>> /\ Waiting # <<>> /\ FirstFailure = 1
      /\ queue' = SubSeq(queue, Len(Taken) - Len(deferred) + 1, Len(queue))
      /\ deferred' = SubSeq(Taken, 2, Len(Taken)) \o StillDeferred
      /\ batch' = batch /\ reader' = reader /\ settled' = Taken[1].n
  BY DEF FetchRaises, TakeEnvelopes, PutBack
<1>2. /\ Taken \in Seq(Envelope) /\ Len(Taken) \in 1 .. BatchSize
      /\ queue' \in Seq(Envelope) /\ Len(queue') <= Len(queue)
      /\ Taken \o queue' = deferred \o queue /\ StillDeferred = <<>>
  BY <1>1, TakenSplits
<1>3. Taken[1].kind = "malformed"
  BY <1>1, <1>2, FirstFailureIs
<1>. DEFINE x == SubSeq(Taken, 1, 1)
            y == SubSeq(Taken, 1 + 1, Len(Taken))
<1>4. /\ 1 \in 1 .. Len(Taken) + 1 /\ 1 \in 0 .. Len(Taken)
      /\ 1 + 1 \in 1 .. Len(Taken) + 1 /\ Len(Taken) \in 0 .. Len(Taken)
      /\ 1 \in 1 .. 1 - 1 + 1
  BY <1>2, DiscoveryAssumption
<1>5. /\ x \in Seq(Envelope) /\ Len(x) = IF 1 <= 1 THEN 1 - 1 + 1 ELSE 0
      /\ x[1] = Taken[1 + 1 - 1]
  BY <1>2, <1>4, Cuts, Zenon
<1>6. /\ y \in Seq(Envelope)
      /\ Len(y) = IF 1 + 1 <= Len(Taken) THEN Len(Taken) - (1 + 1) + 1 ELSE 0
  BY <1>2, <1>4, Cuts, Zenon
<1>7. x \o y = Taken
  BY <1>2, <1>4, SplitJoins, Zenon
<1>8. deferred' = y
  <2>1. deferred' = y \o <<>>
    BY <1>1, <1>2
  <2>. HIDE DEF y
  <2>. QED
    BY <1>6, <2>1, EmptyJoins, Zenon
<1>. HIDE DEF x, y
<1>9. Holding \in Seq(Envelope) /\ Holding' = Holding
  BY <1>1, HoldingIsSequence DEF Holding
<1>. DEFINE r == queue' \o Holding
<1>10. InMemory = Taken \o r /\ r \in Seq(Envelope)
  <2>1. <<>> \o deferred = deferred
    BY EmptyJoins, Zenon DEF Sequenced
  <2>2. (Taken \o queue') \o Holding = Taken \o (queue' \o Holding)
    BY <1>2, <1>9, Associates, Zenon
  <2>3. queue' \o Holding \in Seq(Envelope)
    BY <1>2, <1>9, Joins, Zenon
  <2>. QED
    BY <1>1, <1>2, <2>1, <2>2, <2>3, Zenon DEF InMemory
<1>11. InMemory' = y \o r
  <2>1. <<>> \o y = y
    BY <1>6, EmptyJoins, Zenon
  <2>2. (y \o queue') \o Holding = y \o (queue' \o Holding)
    BY <1>2, <1>6, <1>9, Associates, Zenon
  <2>. QED
    BY <1>1, <1>8, <1>9, <2>1, <2>2, Zenon DEF InMemory
<1>. HIDE DEF r
<1>12. InMemory = x \o InMemory' /\ InMemory' \in Seq(Envelope)
  <2>1. (x \o y) \o r = x \o (y \o r)
    BY <1>5, <1>6, <1>10, Associates, Zenon
  <2>2. y \o r \in Seq(Envelope)
    BY <1>6, <1>10, Joins, Zenon
  <2>. QED
    BY <1>7, <1>10, <1>11, <2>1, <2>2, Zenon
<1>13. /\ Len(InMemory) = Len(x) + Len(InMemory') /\ Len(InMemory') \in Nat
       /\ \A i \in 1 .. Len(x) : InMemory[i] = x[i]
       /\ \A i \in 1 .. Len(InMemory') : InMemory[Len(x) + i] = InMemory'[i]
  BY <1>5, <1>12, JoinIs, Zenon
<1>14. Len(x) = 1 /\ x[1] = Taken[1] /\ 1 \in 1 .. 1
  BY <1>5
<1>15. InMemory[1] = Taken[1]
  BY <1>13, <1>14, Zenon
<1>16. Len(deferred') < BatchSize
  BY <1>2, <1>6, <1>8, DiscoveryAssumption
<1>. QED
  BY <1>1, <1>2, <1>3, <1>6, <1>8, <1>12, <1>13, <1>14, <1>15, <1>16

\* A batch is fetched without a change of what is in memory.
LEMMA FetchKeeps ==
  ASSUME reader \in Reader, Sequenced, FetchBatch
  PROVE  /\ batch' \in Seq(Envelope) /\ Len(batch') \in 1 .. BatchSize
         /\ deferred' \in Seq(Envelope) /\ Len(deferred') < BatchSize
         /\ queue' \in Seq(Envelope) /\ Len(queue') <= Len(queue)
         /\ InMemory' = InMemory
<1>. DEFINE f == FirstFailure
            k == IF f = 0 THEN Len(Taken) ELSE f - 1
            y == SubSeq(Taken, k + 1, Len(Taken))
<1>1. /\ batch = <<>> /\ Waiting # <<>> /\ f # 1
      /\ queue' = SubSeq(queue, Len(Taken) - Len(deferred) + 1, Len(queue))
      /\ deferred' = PutBack(f) \o StillDeferred /\ reader' = reader
      /\ batch' = IF f = 0 THEN Taken ELSE SubSeq(Taken, 1, f - 1)
  BY DEF FetchBatch, TakeEnvelopes
<1>2. /\ Taken \in Seq(Envelope) /\ Len(Taken) \in 1 .. BatchSize
      /\ queue' \in Seq(Envelope) /\ Len(queue') <= Len(queue)
      /\ Taken \o queue' = deferred \o queue /\ StillDeferred = <<>>
  BY <1>1, TakenSplits
<1>3. f \in 0 .. Len(Taken)
  BY <1>2, FirstFailureIs
<1>. HIDE DEF f
<1>4. /\ k \in 1 .. Len(Taken) /\ k \in 0 .. Len(Taken) /\ 1 \in 1 .. Len(Taken) + 1
      /\ k + 1 \in 1 .. Len(Taken) + 1 /\ Len(Taken) \in 0 .. Len(Taken)
      /\ f # 0 => k + 1 = f
  BY <1>1, <1>2, <1>3, DiscoveryAssumption
<1>5. PutBack(f) = y
  <2>1. CASE f = 0
    <3>1. Len(Taken) + 1 \in Int /\ Len(Taken) \in Int /\ Len(Taken) < Len(Taken) + 1
      BY <1>2
    <3>2. y = <<>>
      BY <2>1, <3>1, SubSeqEmpty
    <3>. QED
      BY <2>1, <3>2 DEF PutBack
  <2>2. CASE f # 0
    <3>. QED
      BY <1>1, <1>4, <2>2, Zenon DEF PutBack
  <2>. QED
    BY <2>1, <2>2
<1>6. batch' = SubSeq(Taken, 1, k)
  <2>1. CASE f = 0
    <3>1. k = Len(Taken)
      BY <2>1
    <3>2. SubSeq(Taken, 1, Len(Taken)) \o SubSeq(Taken, Len(Taken) + 1, Len(Taken)) = Taken
      BY <1>2, <1>4, SplitJoins, Zenon
    <3>3. SubSeq(Taken, Len(Taken) + 1, Len(Taken)) = <<>>
      <4>1. Len(Taken) + 1 \in Int /\ Len(Taken) \in Int /\ Len(Taken) < Len(Taken) + 1
        BY <1>2
      <4>. QED
        BY <4>1, SubSeqEmpty
    <3>4. SubSeq(Taken, 1, Len(Taken)) \in Seq(Envelope)
      BY <1>2, <1>4, Cuts, Zenon
    <3>5. SubSeq(Taken, 1, Len(Taken)) = Taken
      BY <3>2, <3>3, <3>4, EmptyJoins, Zenon
    <3>. QED
      BY <1>1, <2>1, <3>1, <3>5, Zenon
  <2>2. CASE f # 0
    <3>1. k = f - 1
      BY <2>2
    <3>. QED
      BY <1>1, <2>2, <3>1, Zenon
  <2>. QED
    BY <2>1, <2>2
<1>. HIDE DEF k
<1>7. batch' \in Seq(Envelope) /\ Len(batch') = IF 1 <= k THEN k - 1 + 1 ELSE 0
  BY <1>2, <1>4, <1>6, Cuts, Zenon
<1>8. /\ y \in Seq(Envelope)
      /\ Len(y) = IF k + 1 <= Len(Taken) THEN Len(Taken) - (k + 1) + 1 ELSE 0
  BY <1>2, <1>4, Cuts, Zenon
<1>9. batch' \o y = Taken
  BY <1>2, <1>4, <1>6, SplitJoins, Zenon
<1>. HIDE DEF y
<1>10. deferred' = y
  <2>1. deferred' = y \o <<>>
    BY <1>1, <1>2, <1>5
  <2>. QED
    BY <1>8, <2>1, EmptyJoins, Zenon
<1>11. Len(batch') \in 1 .. BatchSize /\ Len(y) < BatchSize
  BY <1>2, <1>4, <1>7, <1>8, DiscoveryAssumption
<1>12. Holding' = Holding
  BY <1>1 DEF Holding
<1>13. InMemory' = InMemory
  <2>1. <<>> \o deferred = deferred
    BY EmptyJoins, Zenon DEF Sequenced
  <2>. QED
    BY <1>1, <1>2, <1>9, <1>10, <1>12, <2>1, Zenon DEF InMemory
<1>. QED
  BY <1>2, <1>7, <1>8, <1>10, <1>11, <1>13

\* A batch that leaves the memory leaves what is behind it, and a stopped process nothing.
LEMMA AcknowledgeLeaves ==
  ASSUME reader \in Reader, Sequenced, batch' = <<>>, deferred' = deferred, queue' = queue,
         reader' = reader
  PROVE  InMemory' = Behind
<1>1. Holding' = Holding
  BY DEF Holding
<1>2. <<>> \o deferred = deferred
  BY EmptyJoins, Zenon DEF Sequenced
<1>. QED
  BY <1>1, <1>2, Zenon DEF InMemory, Behind

LEMMA ForgetEmpties ==
  ASSUME Forget
  PROVE  /\ InMemory' = <<>> /\ batch' = <<>> /\ deferred' = <<>> /\ queue' = <<>>
         /\ reader' = NoReader /\ reader' \in Reader /\ up' = FALSE /\ storing' = FALSE
<1>1. /\ batch' = <<>> /\ deferred' = <<>> /\ queue' = <<>>
      /\ reader' = NoReader /\ up' = FALSE /\ storing' = FALSE
  BY DEF Forget
<1>2. reader' \in Reader /\ reader'.putting = None
  BY <1>1 DEF Reader, NoReader
<1>3. Holding' = <<>>
  BY <1>2, HoldingNext
<1>4. <<>> \in Seq(Envelope)
  BY EmptySeq
<1>5. <<>> \o <<>> = <<>>
  BY <1>4, EmptyJoins, Zenon
<1>. QED
  BY <1>1, <1>2, <1>3, <1>5, Zenon DEF InMemory
-----------------------------------------------------------------------------
(* Numbers stay unbroken.                                                   *)

LEMMA Counted ==
  ASSUME Typed
  PROVE  /\ Len(InMemory) \in Nat /\ Len(batch) \in Nat /\ Len(batch) <= Len(InMemory)
         /\ received \in Nat /\ settled \in Nat
         /\ InMemory \in Seq(Envelope) /\ batch \in Seq(Envelope)
<1>1. reader \in Reader /\ Sequenced
  BY DEF Typed
<1>. QED
  BY <1>1, MemoryShape DEF Sequenced

\* Only a running process holds something.
LEMMA HolderRuns ==
  ASSUME Typed, batch # <<>> \/ reader.putting # None
  PROVE  up = TRUE
<1>1. reader \in Reader /\ Sequenced /\ up \in BOOLEAN
  BY DEF Typed
<1>2. NoReader.putting = None
  BY DEF NoReader
<1>3. batch # <<>> => InMemory # <<>>
  BY <1>1, MemoryShape, EmptySeq DEF Sequenced
<1>. QED
  BY <1>1, <1>2, <1>3 DEF Typed

LEMMA InvIsConsistent == MemoryInv => MemoryConsistent
<1>. SUFFICES ASSUME MemoryInv PROVE MemoryConsistent
  OBVIOUS
<1>1. Typed /\ MemoryUnbroken /\ SettledBehind /\ reader \in Reader /\ Sequenced
  BY DEF MemoryInv, Typed
<1>2. settled <= received
  BY <1>1, Counted DEF SettledBehind
<1>3. Range(InMemory) \subseteq Envelope
  BY <1>1, MemoryShape
<1>. QED
  BY <1>1, <1>2, <1>3 DEF MemoryConsistent, TypeOK, Typed

\* The numbers of a step that keeps memory and evidence.
LEMMA KeptUnbroken ==
  ASSUME MemoryInv, Typed', InMemory' = InMemory, UNCHANGED <<stored, received, settled>>,
         Len(batch) <= Len(batch')
  PROVE  MemoryUnbroken' /\ SettledBehind'
<1>1. Len(InMemory) \in Nat /\ Len(batch) \in Nat /\ received \in Nat /\ settled \in Nat
  BY Counted DEF MemoryInv
<1>2. Len(batch') \in Nat
  BY MemoryShapeNext DEF Typed
<1>3. MemoryUnbroken'
  BY DEF MemoryInv, MemoryUnbroken
<1>4. SettledBehind'
  BY <1>1, <1>2 DEF MemoryInv, SettledBehind
<1>. QED
  BY <1>3, <1>4

LEMMA GrownUnbroken ==
  ASSUME MemoryInv, NEW e \in Envelope, e.n = received + 1, InMemory' = Append(InMemory, e),
         received' = received + 1, UNCHANGED <<stored, settled, batch>>
  PROVE  MemoryUnbroken' /\ SettledBehind'
<1>1. /\ Len(InMemory) \in Nat /\ Len(batch) \in Nat /\ received \in Nat /\ settled \in Nat
      /\ InMemory \in Seq(Envelope)
  BY Counted DEF MemoryInv
<1>2. /\ Len(InMemory') = Len(InMemory) + 1 /\ InMemory'[Len(InMemory) + 1] = e
      /\ \A i \in 1 .. Len(InMemory) : InMemory'[i] = InMemory[i]
  BY <1>1, AppendProperties
<1>3. /\ \A i \in 1 .. Len(InMemory) : InMemory[i].n = received - Len(InMemory) + i
      /\ settled >= received - Len(InMemory) /\ \A x \in stored : x.n <= settled
      /\ settled <= received - Len(InMemory) + Len(batch)
  BY DEF MemoryInv, MemoryUnbroken, SettledBehind
<1>4. ASSUME NEW i \in 1 .. Len(InMemory')
      PROVE  InMemory'[i].n = received' - Len(InMemory') + i
  <2>1. CASE i \in 1 .. Len(InMemory)
    <3>1. InMemory'[i].n = received - Len(InMemory) + i
      BY <1>2, <1>3, <2>1
    <3>. QED
      BY <1>1, <1>2, <2>1, <3>1
  <2>2. CASE i = Len(InMemory) + 1
    BY <1>1, <1>2, <2>2
  <2>. QED
    BY <1>1, <1>2, <2>1, <2>2
<1>5. MemoryUnbroken'
  <2>1. settled' >= received' - Len(InMemory') /\ \A x \in stored' : x.n <= settled'
    BY <1>1, <1>2, <1>3
  <2>. QED
    BY <1>4, <2>1 DEF MemoryUnbroken
<1>6. SettledBehind'
  BY <1>1, <1>2, <1>3 DEF SettledBehind
<1>. QED
  BY <1>5, <1>6

LEMMA DroppedUnbroken ==
  ASSUME MemoryInv, batch = <<>>, Len(InMemory) = 1 + Len(InMemory'), Len(InMemory') \in Nat,
         \A i \in 1 .. Len(InMemory') : InMemory'[i] = InMemory[1 + i],
         settled' = InMemory[1].n, UNCHANGED <<stored, received, batch>>
  PROVE  MemoryUnbroken' /\ SettledBehind' /\ settled' \in Nat
<1>1. /\ Len(InMemory) \in Nat /\ Len(batch) = 0 /\ received \in Nat /\ settled \in Nat
      /\ InMemory \in Seq(Envelope)
  BY Counted, EmptySeq DEF MemoryInv
<1>2. /\ \A i \in 1 .. Len(InMemory) : InMemory[i].n = received - Len(InMemory) + i
      /\ settled >= received - Len(InMemory) /\ \A x \in stored : x.n <= settled
      /\ settled <= received - Len(InMemory) + Len(batch)
  BY DEF MemoryInv, MemoryUnbroken, SettledBehind
<1>3. 1 \in 1 .. Len(InMemory) /\ InMemory[1] \in Envelope
  BY <1>1, ElementOfSeq
<1>4. settled' = received - Len(InMemory) + 1 /\ settled' \in Nat
  BY <1>2, <1>3, EnvelopeFields, DiscoveryAssumption
<1>5. ASSUME NEW i \in 1 .. Len(InMemory')
      PROVE  InMemory'[i].n = received' - Len(InMemory') + i
  <2>1. 1 + i \in 1 .. Len(InMemory)
    OBVIOUS
  <2>2. InMemory[1 + i].n = received - Len(InMemory) + (1 + i)
    BY <1>2, <2>1
  <2>. QED
    BY <1>1, <2>2
<1>6. \A x \in stored : x.n \in Nat
  BY EnvelopeFields, DiscoveryAssumption DEF MemoryInv, Typed
<1>7. settled' >= received' - Len(InMemory') /\ \A x \in stored' : x.n <= settled'
  BY <1>1, <1>2, <1>4, <1>6
<1>8. SettledBehind'
  BY <1>1, <1>4 DEF SettledBehind
<1>. QED
  BY <1>4, <1>5, <1>7, <1>8 DEF MemoryUnbroken

\* What a transaction stores is of the batch, and settles it.
NewlyStored == {batch[i] : i \in Fresh}

LEMMA BatchNumbers ==
  ASSUME MemoryInv
  PROVE  /\ \A i \in 1 .. Len(batch) :
              batch[i] \in Envelope /\ batch[i] = InMemory[i]
                /\ batch[i].n = received - Len(InMemory) + i
         /\ NewlyStored \subseteq Envelope
         /\ \A e \in NewlyStored : e.n \in Nat /\ e.n <= received - Len(InMemory) + Len(batch)
<1>1. reader \in Reader /\ Sequenced
  BY DEF MemoryInv, Typed
<1>2. /\ Len(InMemory) \in Nat /\ Len(batch) \in Nat /\ Len(batch) <= Len(InMemory)
      /\ received \in Nat /\ batch \in Seq(Envelope)
  BY Counted DEF MemoryInv
<1>3. \A i \in 1 .. Len(batch) : InMemory[i] = batch[i]
  BY <1>1, MemoryShape
<1>4. ASSUME NEW i \in 1 .. Len(batch)
      PROVE  /\ batch[i] \in Envelope /\ batch[i] = InMemory[i]
             /\ batch[i].n = received - Len(InMemory) + i
  <2>1. i \in 1 .. Len(InMemory)
    BY <1>2
  <2>2. batch[i] \in Envelope
    BY <1>2, ElementOfSeq
  <2>. QED
    BY <1>3, <2>1, <2>2 DEF MemoryInv, MemoryUnbroken
<1>5. ASSUME NEW e \in NewlyStored
      PROVE  /\ e \in Envelope /\ e.n \in Nat
             /\ e.n <= received - Len(InMemory) + Len(batch)
  <2>1. PICK i \in 1 .. Len(batch) : e = batch[i]
    BY DEF NewlyStored, Fresh
  <2>2. e \in Envelope /\ e.n = received - Len(InMemory) + i
    BY <1>4, <2>1
  <2>3. e.n \in Nat
    BY <2>2, EnvelopeFields, DiscoveryAssumption
  <2>. QED
    BY <1>2, <2>2, <2>3
<1>. QED
  BY <1>4, <1>5

LEMMA BatchSettles ==
  ASSUME MemoryInv, batch # <<>>, StoreBatch
  PROVE  /\ stored' = stored \cup NewlyStored /\ stored' \subseteq Envelope
         /\ settled' = received - Len(InMemory) + Len(batch) /\ settled' \in Nat
         /\ \A e \in stored' : e.n <= settled'
<1>1. Len(batch) \in 1 .. Len(batch) /\ Len(batch) \in Nat
  BY Counted, EmptySeq DEF MemoryInv
<1>2. /\ batch[Len(batch)] \in Envelope
      /\ batch[Len(batch)].n = received - Len(InMemory) + Len(batch)
  BY <1>1, BatchNumbers
<1>3. settled' = received - Len(InMemory) + Len(batch) /\ settled' \in Nat
  BY <1>2, EnvelopeFields, DiscoveryAssumption DEF StoreBatch
<1>4. stored' = stored \cup NewlyStored
  BY DEF StoreBatch, NewlyStored
<1>5. stored' \subseteq Envelope
  BY <1>4, BatchNumbers DEF MemoryInv, Typed
<1>6. ASSUME NEW e \in stored'
      PROVE  e.n <= settled'
  <2>1. CASE e \in stored
    <3>1. e.n <= settled /\ settled <= received - Len(InMemory) + Len(batch)
      BY <2>1 DEF MemoryInv, MemoryUnbroken, SettledBehind
    <3>2. e.n \in Nat /\ settled \in Nat
      BY <2>1, EnvelopeFields, DiscoveryAssumption, Counted DEF MemoryInv, Typed
    <3>. QED
      BY <1>3, <3>1, <3>2
  <2>2. CASE e \in NewlyStored
    BY <1>3, <2>2, BatchNumbers
  <2>. QED
    BY <1>4, <2>1, <2>2
<1>. QED
  BY <1>3, <1>4, <1>5, <1>6

LEMMA StoredUnbroken ==
  ASSUME MemoryInv, batch # <<>>, StoreBatch, InMemory' = InMemory, UNCHANGED <<received, batch>>
  PROVE  MemoryUnbroken' /\ SettledBehind'
<1>1. /\ Len(InMemory) \in Nat /\ Len(batch) \in Nat /\ received \in Nat
      /\ settled' = received - Len(InMemory) + Len(batch) /\ settled' \in Nat
      /\ \A e \in stored' : e.n <= settled'
  BY Counted, BatchSettles DEF MemoryInv
<1>2. settled' >= received - Len(InMemory)
  BY <1>1
<1>. QED
  BY <1>1, <1>2 DEF MemoryInv, MemoryUnbroken, SettledBehind

LEMMA AcknowledgedUnbroken ==
  ASSUME MemoryInv, batch # <<>>, StoreBatch, InMemory' = Behind, batch' = <<>>,
         received' = received
  PROVE  MemoryUnbroken' /\ SettledBehind'
<1>1. /\ Len(InMemory) \in Nat /\ Len(batch) \in Nat /\ received \in Nat
      /\ settled' = received - Len(InMemory) + Len(batch) /\ settled' \in Nat
      /\ \A e \in stored' : e.n <= settled'
  BY Counted, BatchSettles DEF MemoryInv
<1>2. reader \in Reader /\ Sequenced
  BY DEF MemoryInv, Typed
<1>3. /\ InMemory = batch \o Behind /\ batch \in Seq(Envelope) /\ Behind \in Seq(Envelope)
      /\ Len(InMemory) = Len(batch) + Len(Behind) /\ Len(Behind) \in Nat
  BY <1>2, MemoryShape DEF Sequenced
<1>4. \A i \in 1 .. Len(Behind) : InMemory[Len(batch) + i] = Behind[i]
  BY <1>3, JoinIs, Zenon
<1>5. ASSUME NEW i \in 1 .. Len(InMemory')
      PROVE  InMemory'[i].n = received' - Len(InMemory') + i
  <2>1. Len(batch) + i \in 1 .. Len(InMemory)
    BY <1>1, <1>3
  <2>2. InMemory[Len(batch) + i].n = received - Len(InMemory) + (Len(batch) + i)
    BY <2>1 DEF MemoryInv, MemoryUnbroken
  <2>3. InMemory'[i] = InMemory[Len(batch) + i]
    BY <1>4
  <2>. QED
    BY <1>1, <1>3, <2>2, <2>3
<1>6. settled' = received' - Len(InMemory') /\ Len(batch') = 0
  BY <1>1, <1>3, EmptySeq
<1>. QED
  BY <1>1, <1>5, <1>6 DEF MemoryUnbroken, SettledBehind

LEMMA EmptiedUnbroken ==
  ASSUME MemoryInv, InMemory' = <<>>, batch' = <<>>, received' = received,
         settled' = received, stored' \subseteq stored \cup NewlyStored
  PROVE  MemoryUnbroken' /\ SettledBehind'
<1>1. /\ Len(InMemory) \in Nat /\ Len(batch) \in Nat /\ received \in Nat /\ settled \in Nat
      /\ Len(batch) <= Len(InMemory) /\ Len(InMemory') = 0 /\ Len(batch') = 0
  BY Counted, EmptySeq DEF MemoryInv
<1>2. ASSUME NEW e \in stored'
      PROVE  e.n <= settled'
  <2>1. CASE e \in stored
    <3>1. e.n <= settled /\ settled <= received - Len(InMemory) + Len(batch)
      BY <2>1 DEF MemoryInv, MemoryUnbroken, SettledBehind
    <3>2. e.n \in Nat
      BY <2>1, EnvelopeFields, DiscoveryAssumption DEF MemoryInv, Typed
    <3>. QED
      BY <1>1, <3>1, <3>2
  <2>2. CASE e \in NewlyStored
    <3>1. e.n \in Nat /\ e.n <= received - Len(InMemory) + Len(batch)
      BY <2>2, BatchNumbers
    <3>. QED
      BY <1>1, <3>1
  <2>. QED
    BY <2>1, <2>2
<1>. QED
  BY <1>1, <1>2 DEF MemoryUnbroken, SettledBehind
-----------------------------------------------------------------------------
(* One step of a process.                                                   *)

LEMMA PutKeepsInv ==
  ASSUME MemoryInv, MayPut, NEW pc \in {"connecting", "connected"},
         NEW gap \in 1 .. MaxEnvelopes \cup {None}, NEW m \in Message \cup Connectivity,
         Put(pc, gap, Numbered(m.kind, m.of)),
         UNCHANGED <<up, deferred, batch, storing, stored, settled>>
  PROVE  /\ MemoryInv'
         /\ InMemory' = Append(InMemory, Numbered(m.kind, m.of))
         /\ reader'.pc = pc /\ reader'.open_gap = gap
         /\ Numbered(m.kind, m.of) \in Envelope
<1>. DEFINE e == Numbered(m.kind, m.of)
<1>1. /\ reader \in Reader /\ Sequenced /\ Len(queue) <= QueueCapacity /\ up = TRUE
      /\ reader.putting = None /\ received \in Nat /\ received < MaxEnvelopes
  BY DEF MemoryInv, Typed, Sequenced, MayPut
<1>2. e \in Envelope /\ e.n = received + 1
  BY <1>1, NumberedIsEnvelope
<1>3. Put(pc, gap, e) /\ batch' = batch /\ deferred' = deferred
  OBVIOUS
<1>. HIDE DEF e
<1>4. /\ InMemory' = Append(InMemory, e) /\ received' = received + 1
      /\ queue' \in Seq(Envelope) /\ Len(queue') <= QueueCapacity
      /\ reader' \in Reader /\ reader'.pc = pc /\ reader'.open_gap = gap
  BY <1>1, <1>2, <1>3, PutGrows
<1>5. received' \in Nat /\ received' <= MaxEnvelopes
  BY <1>1, <1>4, DiscoveryAssumption
<1>6. Typed'
  <2>1. reader'.pc # "none" /\ up' = TRUE
    BY <1>1, <1>4
  <2>. QED
    BY <1>3, <1>4, <1>5, <2>1 DEF MemoryInv, Typed, Sequenced
<1>7. MemoryUnbroken' /\ SettledBehind'
  BY <1>2, <1>4, GrownUnbroken
<1>. QED
  BY <1>2, <1>4, <1>6, <1>7 DEF MemoryInv, e

LEMMA UnblockKeepsInv ==
  ASSUME MemoryInv, Unblock
  PROVE  /\ MemoryInv' /\ InMemory' = InMemory
         /\ reader'.pc = reader.pc /\ reader'.open_gap = reader.open_gap
<1>1. /\ Typed /\ reader \in Reader /\ Sequenced /\ Len(queue) <= QueueCapacity
  BY DEF MemoryInv, Typed
<1>2. /\ InMemory' = InMemory /\ queue' \in Seq(Envelope) /\ Len(queue') <= QueueCapacity
      /\ reader' \in Reader /\ reader'.pc = reader.pc /\ reader'.open_gap = reader.open_gap
  BY <1>1, UnblockMoves
<1>3. /\ reader.putting # None
      /\ UNCHANGED <<up, deferred, batch, storing, stored, received, settled>>
  BY DEF Unblock
<1>4. up = TRUE /\ reader.pc # "none"
  <2>1. up = TRUE
    BY <1>1, <1>3, HolderRuns
  <2>. QED
    BY <1>1, <1>3, <2>1 DEF Typed, NoReader
<1>5. Typed'
  BY <1>2, <1>3, <1>4 DEF MemoryInv, Typed, Sequenced
<1>6. Len(batch) <= Len(batch')
  BY <1>1, <1>3, Counted
<1>7. MemoryUnbroken' /\ SettledBehind'
  BY <1>2, <1>3, <1>5, <1>6, KeptUnbroken
<1>. QED
  BY <1>2, <1>5, <1>7 DEF MemoryInv

\* Steps that leave the sequences and the reader's envelope alone.
LEMMA SameMemory ==
  ASSUME UNCHANGED <<batch, deferred, queue>>, reader'.putting = reader.putting
  PROVE  InMemory' = InMemory
  BY DEF InMemory, Holding

LEMMA IdleKeepsInv ==
  ASSUME MemoryInv, reader' \in Reader, reader'.putting = reader.putting,
         reader'.pc = "none" => reader' = NoReader, up' \in BOOLEAN, storing' \in BOOLEAN,
         storing' => batch # <<>>, ~up' => ~up /\ reader' = reader,
         UNCHANGED <<batch, deferred, queue, stored, received, settled>>
  PROVE  MemoryInv' /\ InMemory' = InMemory
<1>1. InMemory' = InMemory
  BY SameMemory
<1>2. Typed'
  BY <1>1 DEF MemoryInv, Typed, Sequenced
<1>3. Len(batch) <= Len(batch')
  BY Counted DEF MemoryInv
<1>4. MemoryUnbroken' /\ SettledBehind'
  BY <1>1, <1>2, <1>3, KeptUnbroken
<1>. QED
  BY <1>1, <1>2, <1>4 DEF MemoryInv

LEMMA FetchRaisesKeepsInv ==
  ASSUME MemoryInv, FetchRaises
  PROVE  MemoryInv'
<1>1. /\ Typed /\ reader \in Reader /\ Sequenced
  BY DEF MemoryInv, Typed
<1>2. /\ deferred' \in Seq(Envelope) /\ Len(deferred') < BatchSize
      /\ queue' \in Seq(Envelope) /\ Len(queue') <= Len(queue)
      /\ Len(InMemory) = 1 + Len(InMemory') /\ Len(InMemory') \in Nat
      /\ \A i \in 1 .. Len(InMemory') : InMemory'[i] = InMemory[1 + i]
      /\ settled' = InMemory[1].n
  BY <1>1, FetchRaisesDrops
<1>3. /\ batch = <<>> /\ up /\ ~storing
      /\ UNCHANGED <<up, reader, batch, storing, stored, received>>
  BY DEF FetchRaises
<1>4. MemoryUnbroken' /\ SettledBehind' /\ settled' \in Nat
  BY <1>2, <1>3, DroppedUnbroken
<1>5. Len(queue') <= QueueCapacity
  <2>1. Len(queue') \in Nat /\ Len(queue) \in Nat /\ Len(queue) <= QueueCapacity
    BY <1>1, <1>2, LenProperties DEF Typed, Sequenced
  <2>. QED
    BY <1>2, <2>1, DiscoveryAssumption
<1>6. Typed'
  BY <1>1, <1>2, <1>3, <1>4, <1>5 DEF Typed, Sequenced
<1>. QED
  BY <1>4, <1>6 DEF MemoryInv

LEMMA FetchBatchKeepsInv ==
  ASSUME MemoryInv, FetchBatch
  PROVE  MemoryInv' /\ InMemory' = InMemory
<1>1. /\ Typed /\ reader \in Reader /\ Sequenced
  BY DEF MemoryInv, Typed
<1>2. /\ batch' \in Seq(Envelope) /\ Len(batch') \in 1 .. BatchSize
      /\ deferred' \in Seq(Envelope) /\ Len(deferred') < BatchSize
      /\ queue' \in Seq(Envelope) /\ Len(queue') <= Len(queue)
      /\ InMemory' = InMemory
  BY <1>1, FetchKeeps
<1>3. /\ batch = <<>> /\ up /\ storing' = TRUE
      /\ UNCHANGED <<up, reader, stored, received, settled>>
  BY DEF FetchBatch
<1>4. Len(queue') <= QueueCapacity
  <2>1. Len(queue') \in Nat /\ Len(queue) \in Nat /\ Len(queue) <= QueueCapacity
    BY <1>1, <1>2, LenProperties DEF Typed, Sequenced
  <2>. QED
    BY <1>2, <2>1, DiscoveryAssumption
<1>5. batch' # <<>> /\ Len(batch) <= Len(batch') /\ Len(batch') <= BatchSize
  BY <1>2, <1>3, EmptySeq, DiscoveryAssumption
<1>6. Typed'
  BY <1>1, <1>2, <1>3, <1>4, <1>5 DEF Typed, Sequenced
<1>7. MemoryUnbroken' /\ SettledBehind'
  BY <1>2, <1>3, <1>5, <1>6, KeptUnbroken
<1>. QED
  BY <1>2, <1>6, <1>7 DEF MemoryInv

LEMMA CommitKeepsInv ==
  ASSUME MemoryInv, Commit
  PROVE  MemoryInv' /\ InMemory' = Behind /\ stored' = stored \cup NewlyStored
<1>1. /\ Typed /\ reader \in Reader /\ Sequenced /\ batch # <<>>
  BY DEF MemoryInv, Typed, Commit
<1>2. /\ StoreBatch /\ storing' = FALSE /\ batch' = <<>>
      /\ UNCHANGED <<up, reader, queue, deferred, received>>
  BY DEF Commit
<1>3. /\ stored' = stored \cup NewlyStored /\ stored' \subseteq Envelope /\ settled' \in Nat
  BY <1>1, <1>2, BatchSettles
<1>4. InMemory' = Behind
  BY <1>1, <1>2, AcknowledgeLeaves
<1>5. up = TRUE
  BY <1>1, HolderRuns
<1>6. Len(batch') <= BatchSize /\ batch' \in Seq(Envelope)
  BY <1>2, EmptySeq, DiscoveryAssumption
<1>7. Typed'
  BY <1>1, <1>2, <1>3, <1>5, <1>6 DEF Typed, Sequenced
<1>8. MemoryUnbroken' /\ SettledBehind'
  BY <1>1, <1>2, <1>4, AcknowledgedUnbroken
<1>. QED
  BY <1>3, <1>4, <1>7, <1>8 DEF MemoryInv

LEMMA CommitFailsKeepsInv ==
  ASSUME MemoryInv, CommitFails
  PROVE  /\ MemoryInv' /\ InMemory' = InMemory
         /\ stored' = stored \/ stored' = stored \cup NewlyStored
<1>1. /\ Typed /\ reader \in Reader /\ Sequenced /\ batch # <<>>
  BY DEF MemoryInv, Typed, CommitFails
<1>2. /\ storing' = FALSE /\ UNCHANGED <<up, batch, reader, queue, deferred, received>>
      /\ StoreBatch \/ UNCHANGED <<stored, settled>>
  BY DEF CommitFails, CommitUnknown, KeepsBatch
<1>3. InMemory' = InMemory
  BY <1>2, SameMemory
<1>4. CASE UNCHANGED <<stored, settled>>
  <2>1. MemoryInv'
    BY <1>1, <1>2, <1>4, IdleKeepsInv DEF Typed
  <2>. QED
    BY <1>3, <1>4, <2>1
<1>5. CASE StoreBatch
  <2>1. stored' = stored \cup NewlyStored /\ stored' \subseteq Envelope /\ settled' \in Nat
    BY <1>1, <1>5, BatchSettles
  <2>2. Typed'
    BY <1>1, <1>2, <1>3, <2>1 DEF Typed, Sequenced
  <2>3. MemoryUnbroken' /\ SettledBehind'
    BY <1>1, <1>2, <1>3, <1>5, StoredUnbroken
  <2>. QED
    BY <1>3, <2>1, <2>2, <2>3 DEF MemoryInv
<1>. QED
  BY <1>2, <1>4, <1>5

LEMMA ForgetKeepsInv ==
  ASSUME MemoryInv, Forget, settled' = received, received' = received,
         stored' \subseteq stored \cup NewlyStored
  PROVE  MemoryInv' /\ InMemory' = <<>> /\ reader' = NoReader
<1>1. /\ Typed /\ reader \in Reader /\ Sequenced
  BY DEF MemoryInv, Typed
<1>2. /\ InMemory' = <<>> /\ batch' = <<>> /\ deferred' = <<>> /\ queue' = <<>>
      /\ reader' = NoReader /\ reader' \in Reader /\ up' = FALSE /\ storing' = FALSE
  BY ForgetEmpties
<1>3. <<>> \in Seq(Envelope) /\ Len(<<>>) = 0
  BY EmptySeq
<1>4. stored' \subseteq Envelope
  BY <1>1, BatchNumbers DEF Typed
<1>5. /\ Len(deferred') < BatchSize /\ Len(queue') <= QueueCapacity
      /\ Len(batch') <= BatchSize
  BY <1>2, <1>3, DiscoveryAssumption
<1>6. Typed'
  BY <1>1, <1>2, <1>3, <1>4, <1>5 DEF Typed, Sequenced
<1>7. MemoryUnbroken' /\ SettledBehind'
  BY <1>2, EmptiedUnbroken
<1>. QED
  BY <1>2, <1>6, <1>7 DEF MemoryInv

\* The steps that change no sequence, and the three ways in which a process ends.
LEMMA QuietKeepsInv ==
  ASSUME MemoryInv,
         \/ StartProcess \/ EnsureReader \/ FetchAgain
         \/ (Connect /\ reader.open_gap = None)
  PROVE  /\ MemoryInv' /\ InMemory' = InMemory /\ stored' = stored
         /\ reader'.open_gap = reader.open_gap /\ received' = received
         /\ reader'.pc = reader.pc \/ reader'.open_gap = None
<1>1. /\ Typed /\ reader \in Reader /\ up \in BOOLEAN /\ storing \in BOOLEAN
      /\ storing => batch # <<>>
      /\ reader.pc = "none" => reader = NoReader
  BY DEF MemoryInv, Typed
<1>2. /\ UNCHANGED <<batch, deferred, queue, stored, received, settled>>
      /\ reader' \in Reader /\ reader'.putting = reader.putting
      /\ reader'.open_gap = reader.open_gap
      /\ reader'.pc = reader.pc \/ reader'.open_gap = None
      /\ reader'.pc = "none" => reader' = NoReader
      /\ up' = TRUE /\ storing' \in BOOLEAN
      /\ storing' => batch # <<>>
  <2>1. CASE StartProcess
    BY <1>1, <2>1 DEF StartProcess
  <2>2. CASE EnsureReader
    BY <1>1, <2>2 DEF EnsureReader, NoReader, Reader
  <2>3. CASE FetchAgain
    BY <1>1, <2>3 DEF FetchAgain
  <2>4. CASE Connect /\ reader.open_gap = None
    BY <1>1, <2>4 DEF Connect, Connected, MayPut, Reader
  <2>. QED
    BY <2>1, <2>2, <2>3, <2>4
<1>3. up' \in BOOLEAN /\ up'
  BY <1>2
<1>4. MemoryInv' /\ InMemory' = InMemory
  BY <1>2, <1>3, IdleKeepsInv
<1>. QED
  BY <1>2, <1>4

LEMMA StopKeepsInv ==
  ASSUME MemoryInv, Stops
  PROVE  /\ MemoryInv' /\ InMemory' = <<>> /\ reader' = NoReader
         /\ stored' = stored \/ stored' = stored \cup NewlyStored
<1>1. Forget /\ settled' = received /\ received' = received
  BY DEF Stops, Kill, Stop, CommitFailureStops
<1>2. stored' = stored \/ stored' = stored \cup NewlyStored
  BY DEF Stops, Kill, Stop, CommitFailureStops, NewlyStored
<1>3. stored' \subseteq stored \cup NewlyStored
  BY <1>2
<1>. QED
  BY <1>1, <1>2, <1>3, ForgetKeepsInv

LEMMA MemoryInit == Init => MemoryInv
<1>. SUFFICES ASSUME Init PROVE MemoryInv
  OBVIOUS
<1>1. /\ up = FALSE /\ reader = NoReader /\ storing = FALSE /\ stored = {}
      /\ queue = <<>> /\ deferred = <<>> /\ batch = <<>> /\ received = 0 /\ settled = 0
  BY DEF Init
<1>2. <<>> \in Seq(Envelope) /\ Len(<<>>) = 0
  BY EmptySeq
<1>3. reader \in Reader /\ reader.putting = None
  BY <1>1 DEF Reader, NoReader
<1>4. Holding = <<>>
  BY <1>3, HoldingIsSequence
<1>5. <<>> \o <<>> = <<>>
  BY <1>2, EmptyJoins, Zenon
<1>6. InMemory = <<>>
  BY <1>1, <1>4, <1>5, Zenon DEF InMemory
<1>7. Typed
  <2>1. /\ Len(deferred) < BatchSize /\ Len(queue) <= QueueCapacity
        /\ Len(batch) <= BatchSize /\ received \in Nat /\ settled \in Nat
        /\ received <= MaxEnvelopes
    BY <1>1, <1>2, DiscoveryAssumption
  <2>2. up \in BOOLEAN /\ storing \in BOOLEAN /\ ~storing /\ stored \subseteq Envelope
    BY <1>1
  <2>3. batch \in Seq(Envelope) /\ deferred \in Seq(Envelope) /\ queue \in Seq(Envelope)
    BY <1>1, <1>2
  <2>. QED
    BY <1>1, <1>3, <1>6, <2>1, <2>2, <2>3 DEF Typed, Sequenced
<1>8. MemoryUnbroken /\ SettledBehind
  BY <1>1, <1>2, <1>6 DEF MemoryUnbroken, SettledBehind
<1>. QED
  BY <1>7, <1>8 DEF MemoryInv

\* The envelopes the reader puts.
LEMMA ReaderPuts ==
  ASSUME MemoryInv,
         \/ (Connect /\ reader.open_gap # None) \/ Disconnect
         \/ \E message \in Message : Receive(message)
  PROVE  \E pc \in {"connecting", "connected"}, gap \in 1 .. MaxEnvelopes \cup {None},
            m \in Message \cup Connectivity :
           /\ MayPut /\ Put(pc, gap, Numbered(m.kind, m.of))
           /\ UNCHANGED <<up, deferred, batch, storing, stored, settled>>
           /\ \/ /\ Connect /\ pc = "connected" /\ gap = None
                 /\ m.kind = "reconnected" /\ m.of = reader.open_gap
              \/ /\ Disconnect /\ pc = "connecting" /\ gap = received + 1
                 /\ m.kind = "disconnected" /\ m.of = received + 1
              \/ /\ pc = "connected" /\ gap = None /\ reader.pc = "connected"
                 /\ m \in Message
<1>1. /\ reader \in Reader /\ received \in Nat
  BY DEF MemoryInv, Typed, Sequenced
<1>2. CASE Connect /\ reader.open_gap # None
  <2>. DEFINE m == [kind |-> "reconnected", of |-> reader.open_gap]
  <2>1. m \in Connectivity /\ m.kind = "reconnected" /\ m.of = reader.open_gap
    BY <1>1, <1>2 DEF Reader, Connectivity
  <2>. HIDE DEF m
  <2>2. /\ MayPut /\ Put("connected", None, Numbered(m.kind, m.of))
        /\ UNCHANGED <<up, deferred, batch, storing, stored, settled>>
    BY <1>2, <2>1 DEF Connect, Connected
  <2>. QED
    BY <1>2, <2>1, <2>2
<1>3. CASE Disconnect
  <2>. DEFINE m == [kind |-> "disconnected", of |-> received + 1]
  <2>1. received + 1 \in 1 .. MaxEnvelopes
    BY <1>1, <1>3, DiscoveryAssumption DEF Disconnect, MayPut
  <2>2. m \in Connectivity /\ m.kind = "disconnected" /\ m.of = received + 1
    BY <2>1 DEF Connectivity
  <2>. HIDE DEF m
  <2>3. /\ MayPut /\ Put("connecting", received + 1, Numbered(m.kind, m.of))
        /\ UNCHANGED <<up, deferred, batch, storing, stored, settled>>
    BY <1>3, <2>2 DEF Disconnect
  <2>. QED
    BY <1>3, <2>1, <2>2, <2>3
<1>4. CASE \E message \in Message : Receive(message)
  <2>1. PICK m \in Message : Receive(m)
    BY <1>4
  <2>. QED
    BY <2>1 DEF Receive
<1>. QED
  BY <1>2, <1>3, <1>4

LEMMA MemoryStep == MemoryInv /\ [Next]_vars => MemoryInv'
<1>. SUFFICES ASSUME MemoryInv, [Next]_vars PROVE MemoryInv'
  OBVIOUS
<1>1. CASE ReaderStep
  <2>1. CASE Unblock
    BY <2>1, UnblockKeepsInv
  <2>2. CASE Connect /\ reader.open_gap = None
    BY <2>2, QuietKeepsInv
  <2>3. CASE \/ (Connect /\ reader.open_gap # None) \/ Disconnect
             \/ \E message \in Message : Receive(message)
    <3>1. PICK pc \in {"connecting", "connected"}, gap \in 1 .. MaxEnvelopes \cup {None},
               m \in Message \cup Connectivity :
            /\ MayPut /\ Put(pc, gap, Numbered(m.kind, m.of))
            /\ UNCHANGED <<up, deferred, batch, storing, stored, settled>>
      BY <2>3, ReaderPuts
    <3>. QED
      BY <3>1, PutKeepsInv
  <2>. QED
    BY <1>1, <2>1, <2>2, <2>3 DEF ReaderStep
<1>2. CASE StartProcess
  BY <1>2, QuietKeepsInv
<1>3. CASE Fetch
  BY <1>3, QuietKeepsInv, FetchRaisesKeepsInv, FetchBatchKeepsInv DEF Fetch
<1>4. CASE Commit
  BY <1>4, CommitKeepsInv
<1>5. CASE CommitFails
  BY <1>5, CommitFailsKeepsInv
<1>6. CASE Stops
  BY <1>6, StopKeepsInv
<1>7. CASE UNCHANGED vars
  <2>1. UNCHANGED <<up, reader, queue, deferred, batch, storing, stored, received, settled>>
    BY <1>7 DEF vars
  <2>2. MemoryInv' = MemoryInv
    BY <2>1 DEF MemoryInv, Typed, Sequenced, MemoryUnbroken, SettledBehind, InMemory, Holding
  <2>. QED
    BY <2>2
<1>. QED
  BY <1>1, <1>2, <1>3, <1>4, <1>5, <1>6, <1>7 DEF Next

LEMMA MemoryAlways == Spec => []MemoryInv
<1>. QED
  BY MemoryInit, MemoryStep, PTL DEF Spec

\* What a living process received and has not settled is in its memory, complete and in
\* order, whatever failed, was put off or was fetched again.
THEOREM MemoryStaysConsistent == Spec => []MemoryConsistent
<1>. QED
  BY MemoryAlways, InvIsConsistent, PTL
-----------------------------------------------------------------------------
(* Outages.                                                                 *)

Evidence == stored \cup Range(InMemory)
MarkedIn(S, kind, gap) == \E e \in S : e.kind = kind /\ e.of = gap

\* An outage has the number of its start, its end comes later and its start is known.
EndsFollowStarts ==
  \A e \in Evidence :
    /\ e.kind = "disconnected" => e.of = e.n
    /\ e.kind = "reconnected" => e.of < e.n /\ MarkedIn(Evidence, "disconnected", e.of)
OpenGapMarked ==
  /\ reader.open_gap # None =>
       reader.open_gap \in 1 .. received /\ MarkedIn(Evidence, "disconnected", reader.open_gap)
  /\ reader.pc # "connecting" => reader.open_gap = None
\* Only the outage that is open has a start without an end.
GapsClosed ==
  \A e \in Range(InMemory) : e.kind = "disconnected" =>
    MarkedIn(Evidence, "reconnected", e.of) \/ reader.open_gap = e.of
StoredInPairs ==
  \A e \in stored : e.kind = "reconnected" => MarkedIn(stored, "disconnected", e.of)

OutageInv == EndsFollowStarts /\ OpenGapMarked /\ GapsClosed /\ StoredInPairs

LEMMA Members ==
  \A s \in Seq(Envelope) : \A e : e \in Range(s) <=> \E i \in 1 .. Len(s) : e = s[i]
<1>. SUFFICES ASSUME NEW s \in Seq(Envelope), NEW e
              PROVE  e \in Range(s) <=> \E i \in 1 .. Len(s) : e = s[i]
  OBVIOUS
<1>1. DOMAIN s = 1 .. Len(s)
  BY LenProperties
<1>. QED
  BY <1>1, Zenon DEF Range

LEMMA EvidenceIsEnvelopes ==
  ASSUME MemoryInv
  PROVE  \A e \in Evidence : e \in Envelope /\ e.n \in 1 .. MaxEnvelopes
<1>1. Range(InMemory) \subseteq Envelope /\ stored \subseteq Envelope
  BY MemoryShape DEF MemoryInv, Typed
<1>. QED
  BY <1>1, EnvelopeFields DEF Evidence

\* The first record of a key that a transaction meets is stored.
LEMMA FirstIsStored ==
  ASSUME MemoryInv, NEW i \in 1 .. Len(batch)
  PROVE  \E d \in stored \cup NewlyStored : Key(d) = Key(batch[i])
<1>. DEFINE S == {j \in 1 .. Len(batch) : Key(batch[j]) = Key(batch[i])}
<1>1. S \in SUBSET Nat /\ i \in S
  BY Counted DEF MemoryInv
<1>2. \A j : j \in S <=> j \in 1 .. Len(batch) /\ Key(batch[j]) = Key(batch[i])
  OBVIOUS
<1>. HIDE DEF S
<1>3. PICK j \in S : \A k \in S : j <= k
  BY <1>1, LeastExists
<1>4. j \in 1 .. Len(batch) /\ Key(batch[j]) = Key(batch[i])
  BY <1>2
<1>5. \A k \in 1 .. j - 1 : Key(batch[k]) # Key(batch[j])
  <2>. SUFFICES ASSUME NEW k \in 1 .. j - 1 PROVE k \notin S
    BY <1>2, <1>4
  <2>. QED
    BY <1>1, <1>3, <1>4
<1>6. CASE Key(batch[j]) \in KnownKeys
  BY <1>4, <1>6 DEF KnownKeys
<1>7. CASE Key(batch[j]) \notin KnownKeys
  <2>1. j \in Fresh
    BY <1>4, <1>5, <1>7 DEF Fresh
  <2>2. batch[j] \in NewlyStored
    BY <2>1 DEF NewlyStored
  <2>. QED
    BY <1>4, <2>2, Zenon
<1>. QED
  BY <1>6, <1>7

LEMMA SameKey ==
  ASSUME NEW a \in Envelope, NEW b \in Envelope, Key(a) = Key(b),
         a.kind \in {"disconnected", "reconnected"}
  PROVE  b.kind = a.kind /\ b.of = a.of
<1>1. Key(a) = <<a.kind, a.of>>
  BY DEF Key
<1>2. b.kind \in Kinds
  BY EnvelopeFields
<1>3. \/ b.kind = "token" /\ Key(b) = <<"token", b.of>>
      \/ b.kind = "rejected" /\ Key(b) = <<"rejected", b.n>>
      \/ Key(b) = <<b.kind, b.of>>
  BY <1>2 DEF Key, Kinds
<1>. QED
  BY <1>1, <1>3

LEMMA BatchIsMarked ==
  ASSUME MemoryInv, NEW i \in 1 .. Len(batch),
         batch[i].kind \in {"disconnected", "reconnected"}
  PROVE  MarkedIn(stored \cup NewlyStored, batch[i].kind, batch[i].of)
<1>1. PICK d \in stored \cup NewlyStored : Key(d) = Key(batch[i])
  BY FirstIsStored
<1>2. d \in Envelope /\ batch[i] \in Envelope
  BY BatchNumbers DEF MemoryInv, Typed
<1>3. d.kind = batch[i].kind /\ d.of = batch[i].of
  BY <1>1, <1>2, SameKey
<1>. QED
  BY <1>3, Zenon DEF MarkedIn

LEMMA NewIsEvidence ==
  ASSUME MemoryInv
  PROVE  /\ NewlyStored \subseteq Evidence
         /\ \A i \in 1 .. Len(batch) : batch[i] \in Range(InMemory)
<1>1. InMemory \in Seq(Envelope) /\ Len(batch) \in Nat /\ Len(InMemory) \in Nat
      /\ Len(batch) <= Len(InMemory)
  BY Counted DEF MemoryInv
<1>2. ASSUME NEW i \in 1 .. Len(batch)
      PROVE  batch[i] \in Range(InMemory)
  <2>1. i \in 1 .. Len(InMemory) /\ batch[i] = InMemory[i]
    BY <1>1, BatchNumbers
  <2>. QED
    BY <1>1, <2>1, Members, Zenon
<1>. QED
  BY <1>2 DEF NewlyStored, Fresh, Evidence

\* The end of an outage is stored with its start or after it.
LEMMA StoredWithStart ==
  ASSUME MemoryInv, OutageInv
  PROVE  \A e \in stored \cup NewlyStored : e.kind = "reconnected" =>
           MarkedIn(stored \cup NewlyStored, "disconnected", e.of)
<1>. SUFFICES ASSUME NEW e \in stored \cup NewlyStored, e.kind = "reconnected"
              PROVE  MarkedIn(stored \cup NewlyStored, "disconnected", e.of)
  OBVIOUS
<1>1. CASE e \in stored
  BY <1>1, Zenon DEF OutageInv, StoredInPairs, MarkedIn
<1>2. CASE e \in NewlyStored
  <2>1. PICK i \in 1 .. Len(batch) : e = batch[i]
    BY <1>2 DEF NewlyStored, Fresh
  <2>2. e \in Evidence
    BY <1>2, NewIsEvidence
  <2>3. e.of < e.n /\ MarkedIn(Evidence, "disconnected", e.of)
    BY <2>2 DEF OutageInv, EndsFollowStarts
  <2>4. PICK d \in Evidence : d.kind = "disconnected" /\ d.of = e.of
    BY <2>3 DEF MarkedIn
  <2>5. d.n = e.of
    BY <2>4 DEF OutageInv, EndsFollowStarts
  <2>6. CASE d \in stored
    BY <2>4, <2>6, Zenon DEF MarkedIn
  <2>7. CASE d \in Range(InMemory)
    <3>1. /\ InMemory \in Seq(Envelope) /\ Len(batch) \in Nat /\ Len(InMemory) \in Nat
          /\ received \in Nat /\ Len(batch) <= Len(InMemory)
      BY Counted DEF MemoryInv
    <3>2. PICK j \in 1 .. Len(InMemory) : d = InMemory[j]
      BY <2>7, <3>1, Members, Zenon
    <3>3. d.n = received - Len(InMemory) + j
      BY <3>2 DEF MemoryInv, MemoryUnbroken
    <3>4. e.n = received - Len(InMemory) + i
      BY <2>1, BatchNumbers
    <3>5. j \in 1 .. Len(batch)
      BY <2>3, <2>5, <3>1, <3>3, <3>4
    <3>6. d = batch[j]
      BY <3>2, <3>5, BatchNumbers
    <3>7. MarkedIn(stored \cup NewlyStored, batch[j].kind, batch[j].of)
      BY <2>4, <3>5, <3>6, BatchIsMarked
    <3>. QED
      BY <2>4, <3>6, <3>7
  <2>. QED
    BY <2>6, <2>7 DEF Evidence
<1>. QED
  BY <1>1, <1>2

LEMMA MarkedGrows ==
  ASSUME NEW S, NEW T, S \subseteq T, NEW kind, NEW gap, MarkedIn(S, kind, gap)
  PROVE  MarkedIn(T, kind, gap)
  BY DEF MarkedIn

\* A step after which the same outages are marked.
LEMMA SameMarks ==
  ASSUME OutageInv, Evidence' \subseteq Evidence, Range(InMemory') \subseteq Range(InMemory),
         \A e \in Evidence : e.kind \in {"disconnected", "reconnected"} =>
           MarkedIn(Evidence', e.kind, e.of),
         StoredInPairs', received' = received,
         reader'.open_gap = reader.open_gap, reader'.pc = reader.pc \/ reader'.open_gap = None
  PROVE  OutageInv'
<1>1. \A kind \in {"disconnected", "reconnected"} : \A gap :
        MarkedIn(Evidence, kind, gap) => MarkedIn(Evidence', kind, gap)
  <2>. SUFFICES ASSUME NEW kind \in {"disconnected", "reconnected"}, NEW gap,
                       MarkedIn(Evidence, kind, gap)
                PROVE  MarkedIn(Evidence', kind, gap)
    OBVIOUS
  <2>1. PICK e \in Evidence : e.kind = kind /\ e.of = gap
    BY DEF MarkedIn
  <2>2. MarkedIn(Evidence', e.kind, e.of)
    BY <2>1
  <2>. QED
    BY <2>1, <2>2
<1>2. /\ \A gap : MarkedIn(Evidence, "disconnected", gap)
                    => MarkedIn(Evidence', "disconnected", gap)
      /\ \A gap : MarkedIn(Evidence, "reconnected", gap)
                    => MarkedIn(Evidence', "reconnected", gap)
  BY <1>1
<1>3. EndsFollowStarts'
  <2>. SUFFICES ASSUME NEW e \in Evidence'
                PROVE  /\ e.kind = "disconnected" => e.of = e.n
                       /\ e.kind = "reconnected" =>
                            e.of < e.n /\ MarkedIn(Evidence', "disconnected", e.of)
    BY DEF EndsFollowStarts
  <2>1. /\ e.kind = "disconnected" => e.of = e.n
        /\ e.kind = "reconnected" => e.of < e.n /\ MarkedIn(Evidence, "disconnected", e.of)
    BY DEF OutageInv, EndsFollowStarts
  <2>. QED
    BY <1>2, <2>1
<1>4. OpenGapMarked'
  BY <1>2 DEF OutageInv, OpenGapMarked
<1>5. GapsClosed'
  BY <1>2 DEF OutageInv, GapsClosed
<1>. QED
  BY <1>3, <1>4, <1>5 DEF OutageInv

LEMMA KeptOutages ==
  ASSUME OutageInv, InMemory' = InMemory, stored' = stored, received' = received,
         reader'.open_gap = reader.open_gap, reader'.pc = reader.pc \/ reader'.open_gap = None
  PROVE  OutageInv'
<1>1. Evidence' = Evidence
  BY DEF Evidence
<1>2. StoredInPairs'
  BY DEF OutageInv, StoredInPairs
<1>3. \A e \in Evidence : MarkedIn(Evidence', e.kind, e.of)
  BY <1>1, Zenon DEF MarkedIn
<1>4. Range(InMemory') = Range(InMemory)
  OBVIOUS
<1>. QED
  BY <1>1, <1>2, <1>3, <1>4, SameMarks

LEMMA RaisedOutages ==
  ASSUME MemoryInv, OutageInv, FetchRaises
  PROVE  OutageInv'
<1>1. /\ reader \in Reader /\ Sequenced
  BY DEF MemoryInv, Typed
<1>2. /\ Len(InMemory) = 1 + Len(InMemory') /\ Len(InMemory') \in Nat
      /\ \A i \in 1 .. Len(InMemory') : InMemory'[i] = InMemory[1 + i]
      /\ InMemory[1].kind = "malformed" /\ InMemory' \in Seq(Envelope)
  BY <1>1, FetchRaisesDrops
<1>3. InMemory \in Seq(Envelope)
  BY Counted DEF MemoryInv
<1>4. UNCHANGED <<reader, stored, received>>
  BY DEF FetchRaises
<1>5. Range(InMemory') \subseteq Range(InMemory)
  <2>. SUFFICES ASSUME NEW e \in Range(InMemory') PROVE e \in Range(InMemory)
    OBVIOUS
  <2>1. PICK i \in 1 .. Len(InMemory') : e = InMemory'[i]
    BY <1>2, Members, Zenon
  <2>2. 1 + i \in 1 .. Len(InMemory) /\ e = InMemory[1 + i]
    BY <1>2, <2>1
  <2>. QED
    BY <1>3, <2>2, Members, Zenon
<1>6. \A e \in Range(InMemory) : e.kind # "malformed" => e \in Range(InMemory')
  <2>. SUFFICES ASSUME NEW e \in Range(InMemory), e.kind # "malformed"
                PROVE  e \in Range(InMemory')
    OBVIOUS
  <2>1. PICK i \in 1 .. Len(InMemory) : e = InMemory[i]
    BY <1>3, Members, Zenon
  <2>2. i # 1
    BY <1>2, <2>1
  <2>. DEFINE k == i - 1
  <2>3. k \in 1 .. Len(InMemory') /\ 1 + k = i
    BY <1>2, <2>2
  <2>. HIDE DEF k
  <2>4. e = InMemory'[k]
    BY <1>2, <2>1, <2>3
  <2>. QED
    BY <1>2, <2>3, <2>4, Members, Zenon
<1>7. Evidence' \subseteq Evidence
  BY <1>4, <1>5 DEF Evidence
<1>8. ASSUME NEW e \in Evidence, e.kind \in {"disconnected", "reconnected"}
      PROVE  MarkedIn(Evidence', e.kind, e.of)
  <2>1. e \in Evidence'
    BY <1>4, <1>6, <1>8 DEF Evidence
  <2>. QED
    BY <2>1, Zenon DEF MarkedIn
<1>9. StoredInPairs'
  BY <1>4 DEF OutageInv, StoredInPairs
<1>. QED
  BY <1>4, <1>5, <1>7, <1>8, <1>9, SameMarks

\* A transaction stores marks of the outages that its batch marks.
LEMMA StoredOutages ==
  ASSUME MemoryInv, OutageInv, stored' = stored \cup NewlyStored,
         Range(InMemory') \subseteq Range(InMemory),
         \A e \in Range(InMemory) :
           e \in Range(InMemory') \/ \E i \in 1 .. Len(batch) : e = batch[i],
         UNCHANGED <<reader, received>>
  PROVE  OutageInv'
<1>1. Evidence' \subseteq Evidence
  BY NewIsEvidence DEF Evidence
<1>2. ASSUME NEW e \in Evidence, e.kind \in {"disconnected", "reconnected"}
      PROVE  MarkedIn(Evidence', e.kind, e.of)
  <2>1. CASE e \in Evidence'
    BY <2>1, Zenon DEF MarkedIn
  <2>2. CASE \E i \in 1 .. Len(batch) : e = batch[i]
    <3>1. PICK i \in 1 .. Len(batch) : e = batch[i]
      BY <2>2
    <3>2. MarkedIn(stored \cup NewlyStored, e.kind, e.of)
      BY <1>2, <3>1, BatchIsMarked
    <3>3. stored \cup NewlyStored \subseteq Evidence'
      BY DEF Evidence
    <3>. QED
      BY <3>2, <3>3, MarkedGrows
  <2>. QED
    BY <2>1, <2>2 DEF Evidence
<1>3. StoredInPairs'
  BY StoredWithStart DEF StoredInPairs
<1>. QED
  BY <1>1, <1>2, <1>3, SameMarks

LEMMA StoppedOutages ==
  ASSUME MemoryInv, OutageInv, InMemory' = <<>>, reader' = NoReader,
         stored' = stored \/ stored' = stored \cup NewlyStored
  PROVE  OutageInv'
<1>1. Range(InMemory') = {} /\ Evidence' = stored'
  BY DEF Range, Evidence
<1>2. stored' \subseteq Evidence
  BY NewIsEvidence DEF Evidence
<1>3. StoredInPairs'
  BY StoredWithStart DEF StoredInPairs, OutageInv
<1>4. EndsFollowStarts'
  <2>. SUFFICES ASSUME NEW e \in stored'
                PROVE  /\ e.kind = "disconnected" => e.of = e.n
                       /\ e.kind = "reconnected" =>
                            e.of < e.n /\ MarkedIn(stored', "disconnected", e.of)
    BY <1>1 DEF EndsFollowStarts
  <2>1. /\ e.kind = "disconnected" => e.of = e.n
        /\ e.kind = "reconnected" => e.of < e.n
    BY <1>2 DEF OutageInv, EndsFollowStarts
  <2>. QED
    BY <1>3, <2>1 DEF StoredInPairs
<1>5. reader'.open_gap = None
  BY DEF NoReader
<1>6. OpenGapMarked' /\ GapsClosed'
  BY <1>1, <1>5 DEF OpenGapMarked, GapsClosed
<1>. QED
  BY <1>3, <1>4, <1>6 DEF OutageInv

\* A new envelope opens an outage, ends the one that is open, or comes outside of any.
LEMMA PutOutages ==
  ASSUME MemoryInv, OutageInv,
         NEW e \in Envelope, e.n = received + 1, Range(InMemory') = Range(InMemory) \cup {e},
         stored' = stored, received' = received + 1,
         \/ /\ e.kind = "reconnected" /\ e.of = reader.open_gap /\ reader.open_gap # None
            /\ reader'.open_gap = None
         \/ /\ e.kind = "disconnected" /\ e.of = received + 1 /\ reader.open_gap = None
            /\ reader'.open_gap = received + 1 /\ reader'.pc = "connecting"
         \/ /\ e.kind \notin {"disconnected", "reconnected"}
            /\ reader.open_gap = None /\ reader'.open_gap = None
  PROVE  OutageInv'
<1>1. Evidence' = Evidence \cup {e}
  BY DEF Evidence
<1>2. received \in Nat /\ None \notin Nat
  BY Counted, DiscoveryAssumption DEF MemoryInv
<1>3. \A kind, gap : MarkedIn(Evidence, kind, gap) => MarkedIn(Evidence', kind, gap)
  BY <1>1 DEF MarkedIn
<1>4. MarkedIn(Evidence', e.kind, e.of)
  BY <1>1, Zenon DEF MarkedIn
<1>5. \A x \in Evidence :
        /\ x.kind = "disconnected" => x.of = x.n
        /\ x.kind = "reconnected" => x.of < x.n /\ MarkedIn(Evidence, "disconnected", x.of)
  BY DEF OutageInv, EndsFollowStarts
<1>6. reader.open_gap # None =>
        /\ reader.open_gap \in 1 .. received
        /\ MarkedIn(Evidence, "disconnected", reader.open_gap)
  BY DEF OutageInv, OpenGapMarked
<1>7. EndsFollowStarts'
  <2>1. /\ e.kind = "disconnected" => e.of = e.n
        /\ e.kind = "reconnected" => e.of < e.n /\ MarkedIn(Evidence', "disconnected", e.of)
    BY <1>2, <1>3, <1>6
  <2>2. ASSUME NEW x \in Evidence
        PROVE  /\ x.kind = "disconnected" => x.of = x.n
               /\ x.kind = "reconnected" =>
                    x.of < x.n /\ MarkedIn(Evidence', "disconnected", x.of)
    BY <1>3, <1>5
  <2>. QED
    BY <1>1, <2>1, <2>2 DEF EndsFollowStarts
<1>8. OpenGapMarked'
  <2>1. CASE reader'.open_gap = None
    BY <2>1 DEF OpenGapMarked
  <2>2. CASE reader'.open_gap # None
    <3>1. /\ e.kind = "disconnected" /\ e.of = received + 1
          /\ reader'.open_gap = received + 1 /\ reader'.pc = "connecting"
      BY <2>2
    <3>2. received + 1 \in 1 .. received'
      BY <1>2
    <3>. QED
      BY <1>4, <3>1, <3>2 DEF OpenGapMarked
  <2>. QED
    BY <2>1, <2>2
<1>9. GapsClosed'
  <2>1. ASSUME NEW x \in Range(InMemory), x.kind = "disconnected"
        PROVE  MarkedIn(Evidence', "reconnected", x.of) \/ reader'.open_gap = x.of
    <3>1. MarkedIn(Evidence, "reconnected", x.of) \/ reader.open_gap = x.of
      BY <2>1 DEF OutageInv, GapsClosed
    <3>2. x \in Evidence
      BY DEF Evidence
    <3>3. x.of \in Nat
      BY <1>5, <2>1, <3>2, EvidenceIsEnvelopes, DiscoveryAssumption
    <3>4. reader.open_gap = x.of => MarkedIn(Evidence', "reconnected", x.of)
      BY <1>2, <1>4, <3>3
    <3>. QED
      BY <1>3, <3>1, <3>4
  <2>2. e.kind = "disconnected" => reader'.open_gap = e.of
    OBVIOUS
  <2>. QED
    BY <2>1, <2>2 DEF GapsClosed
<1>10. StoredInPairs'
  BY DEF OutageInv, StoredInPairs
<1>. QED
  BY <1>7, <1>8, <1>9, <1>10 DEF OutageInv

LEMMA AppendedRange ==
  ASSUME NEW s \in Seq(Envelope), NEW e \in Envelope, NEW t, t = Append(s, e)
  PROVE  Range(t) = Range(s) \cup {e}
<1>1. /\ t \in Seq(Envelope) /\ Len(t) = Len(s) + 1 /\ Len(s) \in Nat
      /\ t[Len(s) + 1] = e /\ \A i \in 1 .. Len(s) : t[i] = s[i]
  BY AppendProperties, LenProperties
<1>2. ASSUME NEW x \in Range(t)
      PROVE  x \in Range(s) \cup {e}
  <2>1. PICK i \in 1 .. Len(t) : x = t[i]
    BY <1>1, Members, Zenon
  <2>2. CASE i = Len(s) + 1
    BY <1>1, <2>1, <2>2
  <2>3. CASE i \in 1 .. Len(s)
    <3>1. x = s[i]
      BY <1>1, <2>1, <2>3
    <3>. QED
      BY <2>3, <3>1, Members, Zenon
  <2>. QED
    BY <1>1, <2>2, <2>3
<1>3. ASSUME NEW x \in Range(s)
      PROVE  x \in Range(t)
  <2>1. PICK i \in 1 .. Len(s) : x = s[i]
    BY Members, Zenon
  <2>2. i \in 1 .. Len(t) /\ x = t[i]
    BY <1>1, <2>1
  <2>. QED
    BY <1>1, <2>2, Members, Zenon
<1>4. e \in Range(t)
  <2>1. Len(s) + 1 \in 1 .. Len(t) /\ e = t[Len(s) + 1]
    BY <1>1
  <2>. QED
    BY <1>1, <2>1, Members, Zenon
<1>. QED
  BY <1>2, <1>3, <1>4

LEMMA ReaderOutages ==
  ASSUME MemoryInv, OutageInv,
         \/ (Connect /\ reader.open_gap # None) \/ Disconnect
         \/ \E message \in Message : Receive(message)
  PROVE  OutageInv'
<1>1. PICK pc \in {"connecting", "connected"}, gap \in 1 .. MaxEnvelopes \cup {None},
           m \in Message \cup Connectivity :
        /\ MayPut /\ Put(pc, gap, Numbered(m.kind, m.of))
        /\ UNCHANGED <<up, deferred, batch, storing, stored, settled>>
        /\ \/ /\ Connect /\ pc = "connected" /\ gap = None
              /\ m.kind = "reconnected" /\ m.of = reader.open_gap
           \/ /\ Disconnect /\ pc = "connecting" /\ gap = received + 1
              /\ m.kind = "disconnected" /\ m.of = received + 1
           \/ /\ pc = "connected" /\ gap = None /\ reader.pc = "connected"
              /\ m \in Message
  BY ReaderPuts
<1>. DEFINE e == Numbered(m.kind, m.of)
<1>2. /\ InMemory' = Append(InMemory, e) /\ reader'.pc = pc /\ reader'.open_gap = gap
      /\ e \in Envelope
  BY <1>1, PutKeepsInv
<1>3. e.n = received + 1 /\ e.kind = m.kind /\ e.of = m.of
  BY DEF Numbered
<1>4. received' = received + 1 /\ stored' = stored
  BY <1>1 DEF Put
<1>. HIDE DEF e
<1>5. InMemory \in Seq(Envelope)
  BY Counted DEF MemoryInv
<1>6. Range(InMemory') = Range(InMemory) \cup {e}
  BY <1>2, <1>5, AppendedRange
<1>7. m \in Message => m.kind \notin {"disconnected", "reconnected"}
  BY DEF Message
<1>8. reader.pc = "connected" => reader.open_gap = None
  BY DEF OutageInv, OpenGapMarked
<1>9. \/ /\ e.kind = "reconnected" /\ e.of = reader.open_gap /\ reader'.open_gap = None
      \/ /\ e.kind = "disconnected" /\ e.of = received + 1 /\ reader.open_gap = None
         /\ reader'.open_gap = received + 1 /\ reader'.pc = "connecting"
      \/ /\ e.kind \notin {"disconnected", "reconnected"}
         /\ reader.open_gap = None /\ reader'.open_gap = None
  BY <1>1, <1>2, <1>3, <1>7, <1>8 DEF Disconnect
<1>10. e.kind = "reconnected" => e.of \in 1 .. MaxEnvelopes
  BY <1>2, EnvelopeFields
<1>11. None \notin 1 .. MaxEnvelopes
  BY DiscoveryAssumption
<1>. QED
  BY <1>2, <1>3, <1>4, <1>6, <1>9, <1>10, <1>11, PutOutages

LEMMA OutageInit == Init => OutageInv
<1>. SUFFICES ASSUME Init PROVE OutageInv
  OBVIOUS
<1>1. MemoryInv /\ stored = {} /\ reader = NoReader /\ ~up
  BY MemoryInit DEF Init
<1>2. InMemory = <<>>
  BY <1>1 DEF MemoryInv, Typed
<1>3. Range(InMemory) = {} /\ Evidence = {}
  BY <1>1, <1>2 DEF Range, Evidence
<1>4. reader.open_gap = None
  BY <1>1 DEF NoReader
<1>. QED
  BY <1>1, <1>3, <1>4
     DEF OutageInv, EndsFollowStarts, OpenGapMarked, GapsClosed, StoredInPairs

LEMMA OutageStep == MemoryInv /\ OutageInv /\ [Next]_vars => OutageInv'
<1>. SUFFICES ASSUME MemoryInv, OutageInv, [Next]_vars PROVE OutageInv'
  OBVIOUS
<1>0. /\ InMemory \in Seq(Envelope) /\ reader \in Reader /\ Sequenced
  BY Counted DEF MemoryInv, Typed
<1>1. CASE ReaderStep
  <2>1. CASE Unblock
    <3>1. stored' = stored /\ received' = received
      BY <2>1 DEF Unblock
    <3>. QED
      BY <2>1, <3>1, UnblockKeepsInv, KeptOutages
  <2>2. CASE Connect /\ reader.open_gap = None
    BY <2>2, QuietKeepsInv, KeptOutages
  <2>3. CASE \/ (Connect /\ reader.open_gap # None) \/ Disconnect
             \/ \E message \in Message : Receive(message)
    BY <2>3, ReaderOutages
  <2>. QED
    BY <1>1, <2>1, <2>2, <2>3 DEF ReaderStep
<1>2. CASE StartProcess \/ EnsureReader \/ FetchAgain
  BY <1>2, QuietKeepsInv, KeptOutages
<1>3. CASE FetchRaises
  BY <1>3, RaisedOutages
<1>4. CASE FetchBatch
  <2>1. UNCHANGED <<stored, received, reader>>
    BY <1>4 DEF FetchBatch
  <2>. QED
    BY <1>4, <2>1, FetchBatchKeepsInv, KeptOutages
<1>5. CASE Commit
  <2>1. InMemory' = Behind /\ stored' = stored \cup NewlyStored
    BY <1>5, CommitKeepsInv
  <2>2. UNCHANGED <<reader, received>>
    BY <1>5 DEF Commit
  <2>3. /\ Behind \in Seq(Envelope) /\ batch \in Seq(Envelope) /\ InMemory = batch \o Behind
        /\ Len(InMemory) = Len(batch) + Len(Behind)
        /\ Len(batch) \in Nat /\ Len(Behind) \in Nat
    BY <1>0, MemoryShape DEF Sequenced
  <2>4. /\ \A i \in 1 .. Len(batch) : InMemory[i] = batch[i]
        /\ \A i \in 1 .. Len(Behind) : InMemory[Len(batch) + i] = Behind[i]
    BY <2>3, JoinIs, Zenon
  <2>5. Range(Behind) \subseteq Range(InMemory)
    <3>. SUFFICES ASSUME NEW e \in Range(Behind) PROVE e \in Range(InMemory)
      OBVIOUS
    <3>1. PICK i \in 1 .. Len(Behind) : e = Behind[i]
      BY <2>3, Members, Zenon
    <3>2. Len(batch) + i \in 1 .. Len(InMemory) /\ e = InMemory[Len(batch) + i]
      BY <2>3, <2>4, <3>1
    <3>. QED
      BY <1>0, <3>2, Members, Zenon
  <2>6. ASSUME NEW e \in Range(InMemory)
        PROVE  e \in Range(Behind) \/ \E i \in 1 .. Len(batch) : e = batch[i]
    <3>1. PICK i \in 1 .. Len(InMemory) : e = InMemory[i]
      BY <1>0, Members, Zenon
    <3>2. CASE i \in 1 .. Len(batch)
      BY <2>4, <3>1, <3>2
    <3>3. CASE i \notin 1 .. Len(batch)
      <4>. DEFINE k == i - Len(batch)
      <4>1. k \in 1 .. Len(Behind) /\ Len(batch) + k = i
        BY <2>3, <3>3
      <4>. HIDE DEF k
      <4>2. e = Behind[k]
        BY <2>4, <3>1, <4>1
      <4>. QED
        BY <2>3, <4>1, <4>2, Members, Zenon
    <3>. QED
      BY <3>2, <3>3
  <2>. QED
    BY <2>1, <2>2, <2>5, <2>6, StoredOutages
<1>6. CASE CommitFails
  <2>1. /\ InMemory' = InMemory
        /\ stored' = stored \/ stored' = stored \cup NewlyStored
    BY <1>6, CommitFailsKeepsInv
  <2>2. UNCHANGED <<reader, received>>
    BY <1>6 DEF CommitFails
  <2>3. Range(InMemory') = Range(InMemory)
    BY <2>1
  <2>. QED
    BY <2>1, <2>2, <2>3, KeptOutages, StoredOutages
<1>7. CASE Stops
  BY <1>7, StopKeepsInv, StoppedOutages
<1>8. CASE UNCHANGED vars
  <2>1. UNCHANGED <<reader, queue, deferred, batch, stored, received>>
    BY <1>8 DEF vars
  <2>2. InMemory' = InMemory
    BY <2>1 DEF InMemory, Holding
  <2>. QED
    BY <2>1, <2>2, KeptOutages
<1>. QED
  BY <1>1, <1>2, <1>3, <1>4, <1>5, <1>6, <1>7, <1>8 DEF Next, Fetch

LEMMA OutagesAre == MemoryInv /\ OutageInv => OutagesMarked
<1>. SUFFICES ASSUME MemoryInv, OutageInv PROVE OutagesMarked
  OBVIOUS
<1>1. \A kind, gap : Marked(kind, gap) <=> MarkedIn(Evidence, kind, gap)
  BY DEF Marked, MarkedIn, Evidence
<1>2. reader.open_gap # None => MarkedIn(Evidence, "disconnected", reader.open_gap)
  BY DEF OutageInv, OpenGapMarked
<1>3. reader.pc = "connected" => reader.open_gap = None
  BY DEF OutageInv, OpenGapMarked
<1>4. ASSUME NEW gap \in 1 .. received, MarkedIn(Evidence, "reconnected", gap)
      PROVE  MarkedIn(Evidence, "disconnected", gap)
  BY <1>4 DEF MarkedIn, OutageInv, EndsFollowStarts
<1>5. ASSUME reader.pc = "connected", NEW e \in Range(InMemory), e.kind = "disconnected"
      PROVE  MarkedIn(Evidence, "reconnected", e.of)
  <2>1. e \in Evidence
    BY DEF Evidence
  <2>2. e.of = e.n
    BY <1>5, <2>1 DEF OutageInv, EndsFollowStarts
  <2>3. e.of # None
    BY <2>1, <2>2, EvidenceIsEnvelopes, DiscoveryAssumption
  <2>. QED
    BY <1>3, <1>5, <2>3 DEF OutageInv, GapsClosed
<1>6. ASSUME NEW e \in stored, e.kind = "reconnected"
      PROVE  \E d \in stored : d.kind = "disconnected" /\ d.of = e.of /\ d.n < e.n
  <2>1. PICK d \in stored : d.kind = "disconnected" /\ d.of = e.of
    BY <1>6 DEF OutageInv, StoredInPairs, MarkedIn
  <2>2. d.of = d.n /\ e.of < e.n
    BY <1>6, <2>1 DEF OutageInv, EndsFollowStarts, Evidence
  <2>. QED
    BY <2>1, <2>2
<1>. QED
  BY <1>1, <1>2, <1>3, <1>4, <1>5, <1>6 DEF OutagesMarked

\* Whatever is lost or stored twice, the stored events bracket every outage: none starts
\* or ends unmarked, and the end of one is never stored before its start.
THEOREM OutagesStayMarked == Spec => []OutagesMarked
<1>1. MemoryInv /\ OutageInv /\ [Next]_vars => (MemoryInv /\ OutageInv)'
  BY MemoryStep, OutageStep
<1>2. Spec => [](MemoryInv /\ OutageInv)
  BY MemoryInit, OutageInit, <1>1, PTL DEF Spec
<1>. QED
  BY <1>2, OutagesAre, PTL
=============================================================================
