--------------------------- MODULE UploadLinkProofs ---------------------------
(***************************************************************************)
(* The safety properties of UploadLink, for any number of segments,        *)
(* readers and slots, any window and either limit.                         *)
(*                                                                         *)
(* The sender's helpers are described first, each by what it may do to the *)
(* demands, to the flights and to what backs off: a segment is taken only  *)
(* if it is not in flight, and if it was not demanded only while nothing   *)
(* backs off.  IInv then counts, for every segment, its messages and       *)
(* answers under way.  Nothing is assumed of the read-ahead's order or of  *)
(* the baseline's value.                                                   *)
(*                                                                         *)
(* Last, the session that UploadLink is built on is shown to be the        *)
(* SegmentStore that LiveStream implements, and what SegmentStoreProofs    *)
(* proves of the store is carried over.                                    *)
(***************************************************************************)
EXTENDS UploadLink, FiniteSetTheorems, TLAPS

\* The members of a queue, and that none is in it twice.
Elems(q) == {q[i] : i \in DOMAIN q}
Once(q) == \A i, h \in DOMAIN q : q[i] = q[h] => i = h

\* A sender as its callbacks leave it.
Sender(j) ==
  /\ DOMAIN j = {"demands", "ahead", "sent", "reading", "retry", "baseline", "acked"}
  /\ j.demands \in Seq(Segs) /\ Once(j.demands)
  /\ j.sent \in SUBSET Segs
  /\ j.reading \in Segs \cup {NoSeg} /\ j.reading \notin j.sent
  /\ j.retry \in [Segs -> {"none", "waiting", "due"}]

\* What was asked for and is neither acknowledged nor queued.
Unanswered(j) == Backoff(j) \cup Flights(j)

\* A demand was sought, in K, or backs off; of the rest no more is unanswered
\* than may be in flight.
Spoken(j, K) ==
  /\ Elems(j.demands) \subseteq K \cup Backoff(j)
  /\ Cardinality(Unanswered(j) \ K) <= limit

\* The segments are finitely many integers.
LEMMA SegsFinite == IsFiniteSet(Segs) /\ NoSeg \notin Segs /\ Segs \subseteq Int /\ 0 \in Segs
  BY LinkAssumption, FS_Interval DEF Segs, NoSeg

\* Set.add and Set.delete.
LEMMA AddedFacts ==
  ASSUME NEW q \in Seq(Segs), Once(q), NEW s \in Segs
  PROVE  Added(q, s) \in Seq(Segs) /\ Once(Added(q, s)) /\ Elems(Added(q, s)) = Elems(q) \cup {s}
<1>1. CASE Has(q, s)
  BY <1>1 DEF Has, Added, Elems
<1>2. CASE ~Has(q, s)
  <2> DEFINE a == Append(q, s)
  <2>1. a \in Seq(Segs) /\ DOMAIN a = DOMAIN q \cup {Len(q) + 1} /\ a[Len(q) + 1] = s
        /\ Len(q) + 1 \notin DOMAIN q /\ \A i \in DOMAIN q : a[i] = q[i]
    OBVIOUS
  <2> HIDE DEF a
  <2>2. Once(a)
    BY <1>2, <2>1 DEF Has, Once
  <2>3. Elems(a) = Elems(q) \cup {s}
    BY <2>1 DEF Elems
  <2>4. QED
    BY <1>2, <2>1, <2>2, <2>3 DEF Added, a
<1>3. QED
  BY <1>1, <1>2

LEMMA WithoutFacts ==
  ASSUME NEW q \in Seq(Segs), Once(q), NEW s
  PROVE  /\ Without(q, s) \in Seq(Segs) /\ Once(Without(q, s))
         /\ Elems(Without(q, s)) = Elems(q) \ {s}
<1>1. CASE ~Has(q, s)
  BY <1>1 DEF Has, Without, Elems
<1>2. CASE Has(q, s)
  <2>1. PICK k \in DOMAIN q : q[k] = s /\ Without(q, s) = [i \in 1 .. Len(q) - 1 |-> q[IF i < k THEN i ELSE i + 1]]
    BY <1>2 DEF Has, Without
  <2> DEFINE w == [i \in 1 .. Len(q) - 1 |-> q[IF i < k THEN i ELSE i + 1]]
  <2>2. Len(q) \in Nat /\ DOMAIN q = 1 .. Len(q) /\ k \in 1 .. Len(q) /\ Len(q) - 1 \in Nat
    BY <2>1
  <2>3. \A i \in 1 .. Len(q) - 1 : w[i] \in Segs
    BY <2>2
  <2>4. w \in Seq(Segs) /\ DOMAIN w = 1 .. Len(q) - 1
    BY <2>2, <2>3
  <2>5. Once(w)
    BY <2>2, <2>4 DEF Once
  <2>6. ASSUME NEW x \in Elems(w) PROVE x \in Elems(q) \ {s}
    BY <2>1, <2>2, <2>4, <2>6 DEF Elems, Once
  <2>7. ASSUME NEW h \in DOMAIN q, q[h] # s PROVE q[h] \in Elems(w)
    <3>1. CASE h < k
      BY <3>1, <2>2, <2>4 DEF Elems
    <3>2. CASE h > k
      <4>1. h - 1 \in DOMAIN w /\ w[h - 1] = q[h]
        BY <3>2, <2>2, <2>4
      <4>2. QED
        BY <4>1 DEF Elems
    <3>3. QED
      BY <3>1, <3>2, <2>7, <2>1, <2>2
  <2>8. Elems(q) \ {s} \subseteq Elems(w)
    BY <2>7 DEF Elems
  <2>9. Elems(w) = Elems(q) \ {s}
    BY <2>6, <2>8
  <2> HIDE DEF w
  <2>10. QED
    BY <2>1, <2>4, <2>5, <2>9 DEF w
<1>3. QED
  BY <1>1, <1>2

\* What a sender has in flight or backing off is a finite set of segments.
LEMMA SenderSets ==
  ASSUME NEW j, Sender(j)
  PROVE  /\ Flights(j) \in SUBSET Segs /\ Backoff(j) \in SUBSET Segs
         /\ IsFiniteSet(Unanswered(j)) /\ IsFiniteSet(j.sent) /\ IsFiniteSet(Flights(j))
<1>1. Flights(j) \in SUBSET Segs /\ Backoff(j) \in SUBSET Segs
  BY DEF Flights, Backoff, Sender
<1>2. QED
  BY <1>1, SegsFinite, FS_Subset DEF Unanswered, Sender

\* A place that is found is one of the queue's and holds a member of S.
LEMMA PlaceFacts ==
  ASSUME NEW q, NEW S, Place(q, S) # 0
  PROVE  Place(q, S) \in DOMAIN q /\ q[Place(q, S)] \in S
<1>1. \E i \in DOMAIN q : First(q, S, i)
  BY DEF Place
<1>2. Place(q, S) = CHOOSE i \in DOMAIN q : First(q, S, i)
  BY <1>1 DEF Place
<1>3. Place(q, S) \in DOMAIN q /\ First(q, S, Place(q, S))
  BY <1>1, <1>2
<1>4. QED
  BY <1>3 DEF First

\* A segment that is found is one, and not in S.
LEMMA FirstFromFacts ==
  ASSUME NEW b, NEW S, FirstFrom(b, S) < NSegs
  PROVE  FirstFrom(b, S) \in Segs \ S
<1>1. \E s \in Segs : After(b, S, s)
  BY LinkAssumption DEF FirstFrom
<1>2. FirstFrom(b, S) = CHOOSE s \in Segs : After(b, S, s)
  BY <1>1 DEF FirstFrom
<1>3. FirstFrom(b, S) \in Segs /\ After(b, S, FirstFrom(b, S))
  BY <1>1, <1>2
<1>4. QED
  BY <1>3 DEF After

\* The two differ in the read-ahead and the baseline at most.
Alike(j, k) ==
  /\ k.demands = j.demands /\ k.sent = j.sent /\ k.reading = j.reading
  /\ k.retry = j.retry /\ k.acked = j.acked

\* nextSegment names no segment in flight, and, while one backs off, only a
\* demanded one.
LEMMA NextFacts ==
  ASSUME NEW j, Sender(j)
  PROVE  LET n == NextSegment(j) IN
         /\ Sender(n.j) /\ Alike(j, n.j)
         /\ n.seg \in Segs \cup {NoSeg}
         /\ n.seg # NoSeg => /\ n.seg \notin Flights(j)
                             /\ n.seg \in Elems(j.demands) \/ Backoff(j) = {}
<1> DEFINE n == NextSegment(j)
           Good(m) == /\ Sender(m.j) /\ Alike(j, m.j)
                      /\ m.seg \in Segs \cup {NoSeg}
                      /\ m.seg # NoSeg => /\ m.seg \notin Flights(j)
                                          /\ m.seg \in Elems(j.demands) \/ Backoff(j) = {}
<1>1. CASE NextDemand(j) # NoSeg
  <2> DEFINE k == Place(j.demands, Ready(j))
  <2>1. k # 0 /\ NextDemand(j) = j.demands[k]
    BY <1>1 DEF NextDemand
  <2>2. k \in DOMAIN j.demands /\ j.demands[k] \in Ready(j)
    BY <2>1, PlaceFacts
  <2>3. n = [seg |-> j.demands[k], j |-> j]
    BY <1>1, <2>1 DEF NextSegment
  <2>4. j.demands[k] \in Segs \ Flights(j) /\ j.demands[k] \in Elems(j.demands)
    BY <2>2 DEF Ready, Elems
  <2>5. Good(n)
    BY <2>3, <2>4 DEF Alike
  <2>6. QED
    BY <2>5
<1>2. CASE NextDemand(j) = NoSeg /\ Held(j)
  <2>1. n = [seg |-> NoSeg, j |-> j]
    BY <1>2 DEF NextSegment
  <2>2. Good(n)
    BY <2>1 DEF Alike
  <2>3. QED
    BY <2>2
<1>3. CASE NextDemand(j) = NoSeg /\ ~Held(j) /\ window > 0
  <2> DEFINE k == Place(j.ahead, Fresh(j))
             y == SubSeq(j.ahead, k, Len(j.ahead))
  <2>1. Backoff(j) = {} /\ n = NextAhead(j)
    BY <1>3 DEF NextSegment, Held
  <2>2. CASE k = 0
    <3>1. n = [seg |-> NoSeg, j |-> [j EXCEPT !.ahead = <<>>]]
      BY <2>1, <2>2 DEF NextAhead
    <3>2. Good(n)
      BY <3>1 DEF Alike, Sender
    <3>3. QED
      BY <3>2
  <2>3. CASE k # 0
    <3>1. j.ahead[k] \in Segs \ Flights(j)
      BY <2>3, PlaceFacts DEF Fresh
    <3>2. n = [seg |-> j.ahead[k], j |-> [j EXCEPT !.ahead = y]]
      BY <2>1, <2>3 DEF NextAhead
    <3> HIDE DEF y, k
    <3>3. Good(n)
      BY <2>1, <3>1, <3>2 DEF Alike, Sender
    <3>4. QED
      BY <3>3
  <2>4. QED
    BY <2>2, <2>3
<1>4. CASE NextDemand(j) = NoSeg /\ ~Held(j) /\ ~(window > 0)
  <2> DEFINE b == Advanced(j)
  <2>1. Backoff(j) = {} /\ n = [seg |-> IF b < NSegs THEN b ELSE NoSeg, j |-> [j EXCEPT !.baseline = b]]
    BY <1>4 DEF NextSegment, Held, NextOfBaseline
  <2>2. b < NSegs => b \in Segs \ Flights(j)
    BY FirstFromFacts DEF Advanced
  <2> HIDE DEF b
  <2>3. Good(n)
    BY <2>1, <2>2 DEF Alike, Sender
  <2>4. QED
    BY <2>3
<1>5. QED
  BY <1>1, <1>2, <1>3, <1>4

\* Neither the read-ahead nor the baseline matters to the bound.
LEMMA AlikeSpoken ==
  ASSUME NEW j, NEW k, NEW K, Alike(j, k), Spoken(j, K)
  PROVE  Spoken(k, K) /\ Flights(k) = Flights(j) /\ Backoff(k) = Backoff(j)
  BY DEF Alike, Spoken, Unanswered, Flights, Backoff

\* Fewer unanswered segments keep the bound.
LEMMA FewerUnanswered ==
  ASSUME NEW j, NEW K, Sender(j), NEW U \in SUBSET Unanswered(j), limit \in {1, 2},
         Cardinality(Unanswered(j) \ K) <= limit
  PROVE  Cardinality(U \ K) <= limit
<1>1. IsFiniteSet(Unanswered(j) \ K)
  BY SenderSets, FS_Subset
<1>2. Cardinality(U \ K) <= Cardinality(Unanswered(j) \ K) /\ IsFiniteSet(U \ K)
  BY <1>1, FS_Subset
<1>3. QED
  BY <1>1, <1>2, FS_CardinalityType

\* A segment that may be taken keeps the bound.
LEMMA TakenFacts ==
  ASSUME NEW j, NEW K, Sender(j), Spoken(j, K), limit \in {1, 2},
         j.reading = NoSeg, Cardinality(j.sent) < limit,
         NEW s \in Segs, s \notin Flights(j), s \in Elems(j.demands) \/ Backoff(j) = {}
  PROVE  /\ Sender(Taken(j, s)) /\ Spoken(Taken(j, s), K)
         /\ Taken(j, s).sent = j.sent /\ Taken(j, s).acked = j.acked
<1> DEFINE t == Taken(j, s)
<1>1. /\ DOMAIN t = DOMAIN j
      /\ t.demands = Without(j.demands, s) /\ t.sent = j.sent /\ t.acked = j.acked
      /\ t.reading = s /\ t.retry = [j.retry EXCEPT ![s] = "none"]
  BY DEF Taken, Sender
<1> HIDE DEF t
<1>2. /\ Without(j.demands, s) \in Seq(Segs) /\ Once(Without(j.demands, s))
      /\ Elems(Without(j.demands, s)) = Elems(j.demands) \ {s}
  BY WithoutFacts DEF Sender
<1>3. Sender(t)
  BY <1>1, <1>2 DEF Sender, Flights
<1>4. Backoff(t) = Backoff(j) \ {s}
  BY <1>1 DEF Backoff, Sender
<1>5. Flights(t) = j.sent \cup {s} /\ Flights(j) = j.sent
  BY <1>1, SegsFinite DEF Flights
<1>6. Elems(t.demands) \subseteq K \cup Backoff(t)
  BY <1>1, <1>2, <1>4 DEF Spoken
<1>7. CASE s \in Elems(j.demands)
  <2>1. Unanswered(t) \ {s} \subseteq Unanswered(j) /\ s \in K \cup Backoff(j)
    BY <1>4, <1>5, <1>7 DEF Unanswered, Spoken
  <2>2. Unanswered(t) \ K = (Unanswered(t) \cap Unanswered(j)) \ K
    BY <2>1 DEF Unanswered
  <2>3. Cardinality(Unanswered(t) \ K) <= limit
    BY <2>2, FewerUnanswered DEF Spoken
  <2>4. QED
    BY <1>1, <1>3, <1>6, <2>3 DEF Spoken, t
<1>8. CASE Backoff(j) = {}
  <2>1. Unanswered(t) = j.sent \cup {s}
    BY <1>4, <1>5, <1>8 DEF Unanswered
  <2>2. IsFiniteSet(j.sent) /\ s \notin j.sent
    BY SenderSets, <1>5
  <2>3. IsFiniteSet(j.sent \cup {s}) /\ Cardinality(j.sent \cup {s}) = Cardinality(j.sent) + 1
    BY <2>2, FS_AddElement
  <2>4. IsFiniteSet(Unanswered(t) \ K) /\ Cardinality(Unanswered(t) \ K) <= Cardinality(j.sent \cup {s})
    BY <2>1, <2>3, FS_Subset
  <2>5. Cardinality(Unanswered(t) \ K) <= limit
    BY <2>2, <2>3, <2>4, FS_CardinalityType
  <2>6. QED
    BY <1>1, <1>3, <1>6, <2>5 DEF Spoken, t
<1>9. QED
  BY <1>7, <1>8

\* pump() keeps the bound, the sent segments and the acknowledged ones.
LEMMA PumpFacts ==
  ASSUME NEW j, NEW K, Sender(j), Spoken(j, K), limit \in {1, 2}, NEW k \in Pump(j)
  PROVE  Sender(k) /\ Spoken(k, K) /\ k.sent = j.sent /\ k.acked = j.acked
<1>1. CASE j.reading # NoSeg \/ Cardinality(j.sent) >= limit
  BY <1>1 DEF Pump
<1>2. CASE j.reading = NoSeg /\ ~(Cardinality(j.sent) >= limit)
  <2> DEFINE n == NextSegment(j)
  <2>1. k = IF n.seg = NoSeg THEN n.j ELSE Taken(n.j, n.seg)
    BY <1>2 DEF Pump
  <2>2. /\ Sender(n.j) /\ Alike(j, n.j)
        /\ n.seg \in Segs \cup {NoSeg}
        /\ n.seg # NoSeg => /\ n.seg \notin Flights(j)
                            /\ n.seg \in Elems(j.demands) \/ Backoff(j) = {}
    BY NextFacts
  <2> HIDE DEF n
  <2>3. Spoken(n.j, K) /\ Flights(n.j) = Flights(j) /\ Backoff(n.j) = Backoff(j)
    BY <2>2, AlikeSpoken
  <2>4. Cardinality(j.sent) \in Nat
    BY SenderSets, FS_CardinalityType
  <2>5. n.j.reading = NoSeg /\ Cardinality(n.j.sent) < limit /\ n.j.demands = j.demands
        /\ n.j.sent = j.sent /\ n.j.acked = j.acked
    BY <1>2, <2>2, <2>4 DEF Alike
  <2>6. CASE n.seg = NoSeg
    BY <2>1, <2>2, <2>3, <2>5, <2>6
  <2>7. CASE n.seg # NoSeg
    <3> DEFINE h == n.j
               s == n.seg
    <3>1. s \in Segs /\ s \notin Flights(h) /\ (s \in Elems(h.demands) \/ Backoff(h) = {})
      BY <2>2, <2>3, <2>5, <2>7
    <3>2. Sender(h) /\ Spoken(h, K) /\ h.reading = NoSeg /\ Cardinality(h.sent) < limit
          /\ h.sent = j.sent /\ h.acked = j.acked /\ k = Taken(h, s)
      BY <2>1, <2>2, <2>3, <2>5, <2>7
    <3> HIDE DEF h, s
    <3>3. QED
      BY <3>1, <3>2, TakenFacts
  <2>8. QED
    BY <2>6, <2>7
<1>3. QED
  BY <1>1, <1>2

\* The same, where the sender is written as a set of one.
LEMMA PumpedFacts ==
  ASSUME NEW j, NEW K, Sender(j), Spoken(j, K), limit \in {1, 2}, NEW k \in Pumped({j})
  PROVE  Sender(k) /\ Spoken(k, K) /\ k.sent = j.sent /\ k.acked = j.acked
<1>1. k \in Pump(j)
  BY DEF Pumped
<1>2. QED
  BY <1>1, PumpFacts

\* The bound is kept when more was sought.
LEMMA MoreSought ==
  ASSUME NEW j, NEW K, NEW s, Sender(j), Spoken(j, K), limit \in {1, 2}
  PROVE  Spoken(j, K \cup {s})
<1>1. IsFiniteSet(Unanswered(j) \ K)
  BY SenderSets, FS_Subset
<1>2. Cardinality(Unanswered(j) \ (K \cup {s})) <= Cardinality(Unanswered(j) \ K)
      /\ IsFiniteSet(Unanswered(j) \ (K \cup {s}))
  BY <1>1, FS_Subset
<1>3. QED
  BY <1>1, <1>2, FS_CardinalityType DEF Spoken

\* The callbacks: what each does to the flights, and that it keeps the bound.
LEMMA RequestFacts ==
  ASSUME NEW j, NEW K, Sender(j), Spoken(j, K), limit \in {1, 2}, NEW s \in Segs,
         NEW k \in Request(j, s)
  PROVE  Sender(k) /\ Spoken(k, K \cup {s}) /\ k.sent = j.sent /\ k.acked = j.acked
<1> DEFINE a == Ahead(j, s)
           d == Demand(j, s)
           m == [j EXCEPT !.ahead = a, !.demands = d]
<1>1. d \in Seq(Segs) /\ Once(d) /\ Elems(d) \subseteq Elems(j.demands) \cup {s}
  BY AddedFacts DEF Demand, Sender
<1>2. k \in Pumped({m})
  BY DEF Request
<1> HIDE DEF a, d
<1>3. /\ DOMAIN m = DOMAIN j /\ m.demands = d /\ m.sent = j.sent /\ m.acked = j.acked
      /\ m.reading = j.reading /\ m.retry = j.retry
  BY DEF Sender
<1> HIDE DEF m
<1>4. Sender(m)
  BY <1>1, <1>3 DEF Sender
<1>5. Flights(m) = Flights(j) /\ Backoff(m) = Backoff(j) /\ Spoken(j, K \cup {s})
  BY <1>3, MoreSought DEF Flights, Backoff
<1>6. Spoken(m, K \cup {s})
  BY <1>1, <1>3, <1>5 DEF Spoken, Unanswered
<1>7. QED
  BY <1>2, <1>3, <1>4, <1>6, PumpedFacts

LEMMA AckFacts ==
  ASSUME NEW j, NEW K, Sender(j), Spoken(j, K), limit \in {1, 2}, NEW s \in j.sent,
         NEW k \in Ack(j, s)
  PROVE  /\ Sender(k) /\ Spoken(k, K)
         /\ k.sent = j.sent \ {s} /\ k.acked = j.acked \cup {s}
<1> DEFINE h == [j EXCEPT !.acked = @ \cup {s}]
           m == [h EXCEPT !.demands = Without(@, s), !.sent = @ \ {s}]
           w == Without(j.demands, s)
<1>1. w \in Seq(Segs) /\ Once(w) /\ Elems(w) = Elems(j.demands) \ {s}
  BY WithoutFacts DEF Sender
<1>2. /\ DOMAIN m = DOMAIN j /\ m.demands = w /\ m.sent = j.sent \ {s}
      /\ m.acked = j.acked \cup {s} /\ m.reading = j.reading /\ m.retry = j.retry
      /\ h.sent = j.sent
  BY DEF Sender
<1>3. k \in Pumped({m})
  BY <1>2 DEF Ack
<1> HIDE DEF m, w
<1>4. Sender(m)
  BY <1>1, <1>2 DEF Sender
<1>5. Backoff(m) = Backoff(j) /\ Unanswered(m) \subseteq Unanswered(j)
  BY <1>2 DEF Flights, Backoff, Unanswered
<1>6. Spoken(m, K)
  BY <1>1, <1>2, <1>5, FewerUnanswered DEF Spoken
<1>7. QED
  BY <1>2, <1>3, <1>4, <1>6, PumpedFacts

LEMMA BusyFacts ==
  ASSUME NEW j, NEW K, Sender(j), Spoken(j, K), limit \in {1, 2}, NEW s \in j.sent,
         NEW k \in Busy(j, s)
  PROVE  Sender(k) /\ Spoken(k, K) /\ k.sent = j.sent \ {s} /\ k.acked = j.acked
<1> DEFINE m == [j EXCEPT !.sent = @ \ {s}, !.demands = Added(@, s), !.retry[s] = "waiting"]
           d == Added(j.demands, s)
<1>1. s \in Segs
  BY DEF Sender
<1>2. d \in Seq(Segs) /\ Once(d) /\ Elems(d) = Elems(j.demands) \cup {s}
  BY <1>1, AddedFacts DEF Sender
<1>3. k \in Pumped({m})
  BY DEF Busy
<1>4. /\ DOMAIN m = DOMAIN j /\ m.demands = d /\ m.sent = j.sent \ {s}
      /\ m.acked = j.acked /\ m.reading = j.reading
      /\ m.retry = [j.retry EXCEPT ![s] = "waiting"]
  BY DEF Sender
<1> HIDE DEF m, d
<1>5. Sender(m)
  BY <1>1, <1>2, <1>4 DEF Sender
<1>6. Backoff(m) = Backoff(j) \cup {s}
  BY <1>1, <1>4 DEF Backoff, Sender
<1>7. Unanswered(m) \subseteq Unanswered(j)
  BY <1>4, <1>6 DEF Flights, Unanswered
<1>8. Spoken(m, K)
  BY <1>2, <1>4, <1>6, <1>7, FewerUnanswered DEF Spoken
<1>9. QED
  BY <1>3, <1>4, <1>5, <1>8, PumpedFacts

LEMMA TimerFacts ==
  ASSUME NEW j, NEW K, Sender(j), Spoken(j, K), limit \in {1, 2},
         NEW s \in Segs, j.retry[s] = "waiting",
         NEW k \in Pumped({[j EXCEPT !.retry[s] = Due]})
  PROVE  Sender(k) /\ Spoken(k, K) /\ k.sent = j.sent /\ k.acked = j.acked
<1> DEFINE m == [j EXCEPT !.retry[s] = Due]
<1>1. /\ DOMAIN m = DOMAIN j /\ m.demands = j.demands /\ m.sent = j.sent
      /\ m.acked = j.acked /\ m.reading = j.reading
      /\ m.retry = [j.retry EXCEPT ![s] = "due"]
  BY DEF Sender, Due
<1>2. k \in Pumped({m})
  OBVIOUS
<1> HIDE DEF m
<1>3. Sender(m)
  BY <1>1 DEF Sender
<1>4. Backoff(m) = Backoff(j)
  BY <1>1 DEF Backoff, Sender
<1>5. Spoken(m, K)
  BY <1>1, <1>4 DEF Spoken, Unanswered, Flights
<1>6. QED
  BY <1>1, <1>2, <1>3, <1>5, PumpedFacts

LEMMA ReadFacts ==
  ASSUME NEW j, NEW K, Sender(j), Spoken(j, K), limit \in {1, 2}, j.reading # NoSeg,
         NEW k \in Pumped({NextSegment(m).j :
                             m \in {[j EXCEPT !.sent = @ \cup {j.reading}, !.reading = NoSeg]}})
  PROVE  Sender(k) /\ Spoken(k, K) /\ k.sent = j.sent \cup {j.reading} /\ k.acked = j.acked
<1> DEFINE m == [j EXCEPT !.sent = @ \cup {j.reading}, !.reading = NoSeg]
           n == NextSegment(m).j
<1>1. k \in Pumped({n})
  OBVIOUS
<1>2. /\ DOMAIN m = DOMAIN j /\ m.demands = j.demands /\ m.sent = j.sent \cup {j.reading}
      /\ m.acked = j.acked /\ m.reading = NoSeg /\ m.retry = j.retry
  BY DEF Sender
<1> HIDE DEF m
<1>3. Sender(m)
  BY <1>2, SegsFinite DEF Sender
<1>4. Flights(m) = Flights(j) /\ Backoff(m) = Backoff(j)
  BY <1>2 DEF Flights, Backoff
<1>5. Spoken(m, K)
  BY <1>2, <1>4 DEF Spoken, Unanswered
<1>6. Sender(n) /\ Alike(m, n)
  BY <1>3, NextFacts
<1> HIDE DEF n
<1>7. Spoken(n, K)
  BY <1>5, <1>6, AlikeSpoken
<1>8. QED
  BY <1>1, <1>2, <1>6, <1>7, PumpedFacts DEF Alike

LEMMA EmptiedFacts ==
  ASSUME NEW j, NEW K, Sender(j), limit \in {1, 2}
  PROVE  Sender(Emptied(j)) /\ Spoken(Emptied(j), K) /\ Emptied(j).acked = j.acked
<1> DEFINE m == Emptied(j)
<1>1. /\ DOMAIN m = DOMAIN j /\ m.demands = <<>> /\ m.sent = {}
      /\ m.acked = j.acked /\ m.reading = NoSeg /\ m.retry = [s \in Segs |-> "none"]
  BY DEF Sender, Emptied
<1> HIDE DEF m
<1>2. Sender(m)
  BY <1>1 DEF Sender, Once
<1>3. Unanswered(m) = {} /\ Elems(m.demands) = {}
  BY <1>1 DEF Unanswered, Flights, Backoff, Elems
<1>4. Spoken(m, K)
  BY <1>3, FS_EmptySet DEF Spoken
<1>5. QED
  BY <1>1, <1>2, <1>4 DEF m
-----------------------------------------------------------------------------
\* The messages of M in a queue are counted.
Idx(q, M) == {i \in DOMAIN q : q[i] \in M}
Count(q, M) == Cardinality(Idx(q, M))

\* A count is a number; it grows at the end of the queue, shrinks at its head.
LEMMA CountType ==
  ASSUME NEW T, NEW q \in Seq(T), NEW M
  PROVE  IsFiniteSet(Idx(q, M)) /\ Count(q, M) \in Nat
<1>1. DOMAIN q = 1 .. Len(q) /\ Len(q) \in Nat
  OBVIOUS
<1>2. IsFiniteSet(1 .. Len(q))
  BY <1>1, FS_Interval
<1>3. IsFiniteSet(Idx(q, M))
  BY <1>1, <1>2, FS_Subset DEF Idx
<1>4. QED
  BY <1>3, FS_CardinalityType DEF Count

LEMMA CountAppend ==
  ASSUME NEW T, NEW q \in Seq(T), NEW x \in T, NEW M
  PROVE  Count(Append(q, x), M) = Count(q, M) + (IF x \in M THEN 1 ELSE 0)
<1> DEFINE a == Append(q, x)
<1>1. /\ DOMAIN a = DOMAIN q \cup {Len(q) + 1} /\ a[Len(q) + 1] = x
      /\ Len(q) + 1 \notin DOMAIN q /\ \A i \in DOMAIN q : a[i] = q[i]
  OBVIOUS
<1>2. IsFiniteSet(Idx(q, M)) /\ Count(q, M) \in Nat
  BY CountType
<1> HIDE DEF a
<1>3. Idx(a, M) = IF x \in M THEN Idx(q, M) \cup {Len(q) + 1} ELSE Idx(q, M)
  BY <1>1 DEF Idx
<1>4. Len(q) + 1 \notin Idx(q, M)
  BY <1>1 DEF Idx
<1>5. CASE x \in M
  BY <1>2, <1>3, <1>4, <1>5, FS_AddElement DEF Count, a
<1>6. CASE x \notin M
  <2>1. Count(a, M) = Count(q, M) + 0
    BY <1>2, <1>3, <1>6 DEF Count
  <2>2. QED
    BY <2>1, <1>6 DEF a
<1>7. QED
  BY <1>5, <1>6

LEMMA CountTail ==
  ASSUME NEW T, NEW q \in Seq(T), q # <<>>, NEW M
  PROVE  Count(q, M) = Count(Tail(q), M) + (IF Head(q) \in M THEN 1 ELSE 0)
<1> DEFINE t == Tail(q)
           U == {i \in Idx(q, M) : i # 1}
           f == [i \in Idx(t, M) |-> i + 1]
<1>1. /\ t \in Seq(T) /\ DOMAIN t = 1 .. Len(q) - 1 /\ DOMAIN q = 1 .. Len(q)
      /\ Len(q) \in Nat \ {0} /\ \A i \in DOMAIN t : t[i] = q[i + 1]
  OBVIOUS
<1>2. Head(q) = q[1]
  OBVIOUS
<1> HIDE DEF t
<1>3. IsFiniteSet(Idx(q, M)) /\ Count(q, M) \in Nat /\ IsFiniteSet(Idx(t, M)) /\ Count(t, M) \in Nat
  BY <1>1, CountType
<1>4. f \in Bijection(Idx(t, M), U)
  <2>1. \A i \in Idx(t, M) : i \in Int /\ i + 1 \in U
    BY <1>1 DEF Idx
  <2>2. \A k \in U : k - 1 \in Idx(t, M) /\ k = (k - 1) + 1
    BY <1>1 DEF Idx
  <2>3. f \in [Idx(t, M) -> U] /\ \A i, k \in Idx(t, M) : f[i] = f[k] => i = k
    BY <2>1
  <2>4. \A k \in U : \E i \in Idx(t, M) : f[i] = k
    BY <2>2
  <2>5. QED
    BY <2>3, <2>4 DEF Bijection, Injection, Surjection, IsInjective
<1>5. IsFiniteSet(U) /\ Cardinality(U) = Cardinality(Idx(t, M))
  BY <1>3, <1>4, FS_Bijection DEF ExistsBijection
<1>6. CASE Head(q) \in M
  <2>1. Idx(q, M) = U \cup {1} /\ 1 \notin U
    BY <1>1, <1>2, <1>6 DEF Idx
  <2>2. Cardinality(Idx(q, M)) = Cardinality(U) + 1
    BY <2>1, <1>5, FS_AddElement
  <2>3. QED
    BY <2>2, <1>5, <1>6 DEF Count, t
<1>7. CASE Head(q) \notin M
  <2>1. Idx(q, M) = U
    BY <1>1, <1>2, <1>7 DEF Idx
  <2>2. Cardinality(Idx(q, M)) = Cardinality(Idx(t, M)) /\ Count(t, M) \in Nat
    BY <2>1, <1>3, <1>5
  <2>3. QED
    BY <2>2, <1>7 DEF Count, t
<1>8. QED
  BY <1>6, <1>7
-----------------------------------------------------------------------------
\* The messages of either direction, and the answers about one segment.
UpMsgs == {Msg("seg", s) : s \in Segs} \cup {Msg("finish", NoSeg)}
DownMsgs == {Msg(o, s) : o \in {"ack", "busy", "seek", "error"}, s \in Segs}
            \cup {Msg("error", NoSeg), Msg("complete", NoSeg)}
Answers(s) == {m \in DownMsgs : m.seg = s /\ m.op # "seek"}

\* The parts of the invariant: types, the sender, a reader that is about to seek
\* names a segment.
Types ==
  /\ limit \in {1, 2} /\ stopped \in BOOLEAN
  /\ up \in Seq(UpMsgs) /\ down \in Seq(DownMsgs)
  /\ hand \in DownMsgs \cup {NoMsg} /\ hand.op # "seek"
  /\ received \in SUBSET Segs
  /\ waiting \in [Readers -> Segs \cup {NoSeg}] /\ emit \in [Readers -> BOOLEAN]

SenderOK == Sender(snd) /\ Spoken(snd, sought)

EmitOK == \A r \in Readers : emit[r] => waiting[r] \in Segs

\* Acknowledged segments were received, whoever holds the acknowledgement.
Told(m) == (m.op = "ack" => m.seg \in received) /\ (m.op = "complete" => stopped)
AckOK ==
  /\ snd.acked \subseteq received
  /\ \A i \in DOMAIN down : Told(down[i])
  /\ Told(hand)

\* "finish" is under way only when all is received and the sender is done.
FinishOK ==
  /\ \A i \in DOMAIN up : up[i].op = "finish" => stopped /\ received = Segs
  /\ incomplete = FALSE

\* A segment in flight has one message or answer under way, any other none.
Flown(s) ==
  Count(up, {Msg("seg", s)}) + Count(down, Answers(s)) + (IF hand.seg = s THEN 1 ELSE 0)
  = (IF s \in snd.sent THEN 1 ELSE 0)
FlightsOK == ~stopped => \A s \in Segs : Flown(s)

IInv == Types /\ SenderOK /\ EmitOK /\ AckOK /\ FinishOK /\ FlightsOK

\* What the messages carry.
LEMMA MsgFacts ==
  /\ \A m \in UpMsgs : /\ m.op \in {"seg", "finish"}
                       /\ m.op = "seg" => m.seg \in Segs /\ m = Msg("seg", m.seg)
                       /\ m.op = "finish" => m = Msg("finish", NoSeg)
  /\ \A m \in DownMsgs : /\ m.op \in {"ack", "busy", "seek", "error", "complete"}
                         /\ m.op \in {"ack", "busy", "seek"} => m.seg \in Segs
                         /\ m.seg \in Segs \cup {NoSeg}
  /\ \A s \in Segs : /\ \A o \in {"ack", "busy", "seek", "error"} : Msg(o, s) \in DownMsgs
                     /\ Msg("seg", s) \in UpMsgs
  /\ Msg("finish", NoSeg) \in UpMsgs /\ Msg("error", NoSeg) \in DownMsgs
  /\ Msg("complete", NoSeg) \in DownMsgs
  /\ \A o, s : Msg(o, s).op = o /\ Msg(o, s).seg = s
  /\ NoMsg.op = "none" /\ NoMsg.seg = NoSeg /\ NoMsg \notin DownMsgs
<1>1. \A o, s : Msg(o, s).op = o /\ Msg(o, s).seg = s
  BY DEF Msg
<1>2. NoMsg.op = "none" /\ NoMsg.seg = NoSeg
  BY DEF NoMsg
<1>3. \A m \in DownMsgs : /\ m.op \in {"ack", "busy", "seek", "error", "complete"}
                          /\ m.op \in {"ack", "busy", "seek"} => m.seg \in Segs
                          /\ m.seg \in Segs \cup {NoSeg}
  BY <1>1 DEF DownMsgs
<1>4. \A m \in UpMsgs : /\ m.op \in {"seg", "finish"}
                        /\ m.op = "seg" => m.seg \in Segs /\ m = Msg("seg", m.seg)
                        /\ m.op = "finish" => m = Msg("finish", NoSeg)
  BY <1>1 DEF UpMsgs
<1>5. QED
  BY <1>1, <1>2, <1>3, <1>4 DEF DownMsgs, UpMsgs

\* A new or resumed upload; with a window the header is taken at once.
LEMMA LinkInit == Init => IInv
<1> SUFFICES ASSUME Init PROVE IInv
  OBVIOUS
<1> DEFINE j == [demands |-> IF window > 0 THEN <<0>> ELSE <<>>,
                 ahead |-> <<>>, sent |-> {}, reading |-> NoSeg,
                 retry |-> [s \in Segs |-> "none"],
                 baseline |-> Prefix(received),
                 acked |-> {s \in Segs : 0 .. s \subseteq received}]
<1>1. snd \in Pump(j) /\ limit \in {1, 2}
  BY LinkAssumption DEF Init
<1>2. Sender(j) /\ Unanswered(j) = {} /\ j.sent = {} /\ j.acked \subseteq received
  <2>1. j.demands \in Seq(Segs) /\ Once(j.demands)
    BY SegsFinite DEF Once
  <2>2. \A s \in Segs : s \in 0 .. s
    BY DEF Segs
  <2>3. QED
    BY <2>1, <2>2 DEF Sender, Unanswered, Backoff, Flights
<1>3. Cardinality(j.sent) = 0 /\ j.reading = NoSeg
  BY <1>2, FS_EmptySet
<1> DEFINE Begun == Sender(snd) /\ Spoken(snd, {}) /\ snd.sent = {} /\ snd.acked = j.acked
<1>4. ASSUME window > 0 PROVE Begun
  <2>1. j.demands = <<0>> /\ Ready(j) = Segs
    BY <1>4, <1>2 DEF Ready, Flights
  <2>2. Place(j.demands, Ready(j)) # 0
    <3>1. DOMAIN <<0>> = {1} /\ <<0>>[1] = 0
      OBVIOUS
    <3>2. First(<<0>>, Segs, 1)
      BY <3>1, SegsFinite DEF First
    <3>3. Place(<<0>>, Segs) \in {1}
      BY <3>1, <3>2 DEF Place
    <3>4. QED
      BY <2>1, <3>3
  <2>3. NextDemand(j) \in Elems(j.demands)
    BY <2>2, PlaceFacts DEF NextDemand, Elems
  <2>4. NextDemand(j) = 0 /\ NextDemand(j) # NoSeg
    BY <2>1, <2>3 DEF Elems, NoSeg
  <2>5. NextSegment(j) = [seg |-> 0, j |-> j]
    BY <2>4 DEF NextSegment
  <2>6. ~(j.reading # NoSeg \/ Cardinality(j.sent) >= limit)
    BY <1>1, <1>3
  <2>7. snd = Taken(j, 0)
    <3> DEFINE n == NextSegment(j)
    <3>1. snd = IF n.seg = NoSeg THEN n.j ELSE Taken(n.j, n.seg)
      BY <1>1, <2>6 DEF Pump
    <3> HIDE DEF j
    <3>2. n.seg = 0 /\ n.j = j
      BY <2>5
    <3> HIDE DEF n
    <3>3. 0 # NoSeg
      BY DEF NoSeg
    <3>4. QED
      BY <3>1, <3>2, <3>3
  <2> DEFINE w == Without(j.demands, 0)
  <2>8. w \in Seq(Segs) /\ Once(w) /\ Elems(w) = {}
    BY <2>1, <1>2, WithoutFacts DEF Elems, Sender
  <2>9. /\ DOMAIN snd = DOMAIN j /\ snd.demands = w /\ snd.sent = {} /\ snd.acked = j.acked
        /\ snd.reading = 0 /\ snd.retry = [j.retry EXCEPT ![0] = "none"]
    BY <2>7, <1>2 DEF Taken, Sender
  <2> HIDE DEF w
  <2>10. Sender(snd)
    BY <2>8, <2>9, <1>2, SegsFinite DEF Sender
  <2>11. Backoff(j) = {}
    BY <1>2 DEF Unanswered
  <2>12. Backoff(snd) = {}
    BY <2>9, <2>11, <1>2 DEF Backoff, Sender
  <2>13. Unanswered(snd) \ {} = {0}
    BY <2>9, <2>12 DEF Unanswered, Flights, NoSeg
  <2>14. Spoken(snd, {})
    <3>1. Cardinality(Unanswered(snd) \ {}) = 1
      BY <2>13, FS_Singleton
    <3>2. QED
      BY <2>8, <2>9, <3>1, <1>1 DEF Spoken
  <2>15. QED
    BY <2>9, <2>10, <2>14
<1>5. ASSUME ~(window > 0) PROVE Begun
  <2>1. Spoken(j, {})
    <3>1. j.demands = <<>>
      BY <1>5
    <3>2. Elems(j.demands) = {} /\ Unanswered(j) \ {} = {}
      BY <3>1, <1>2 DEF Elems
    <3>3. Cardinality(Unanswered(j) \ {}) = 0
      BY <3>2, FS_EmptySet
    <3>4. QED
      BY <3>2, <3>3, <1>1 DEF Spoken
  <2>2. Sender(j) /\ snd \in Pump(j) /\ limit \in {1, 2}
    BY <1>1, <1>2
  <2>3. QED
    BY <2>1, <2>2, <1>2, PumpFacts
<1>6. Sender(snd) /\ Spoken(snd, {}) /\ snd.sent = {} /\ snd.acked \subseteq received
  <2>1. Begun
    BY <1>4, <1>5
  <2>2. QED
    BY <2>1, <1>2
<1>7. SenderOK
  BY <1>6 DEF SenderOK, Init
<1>8. Types
  <2>1. received \in SUBSET Segs
    BY LinkAssumption DEF Init
  <2>2. hand \in DownMsgs \cup {NoMsg} /\ hand.op # "seek"
    BY MsgFacts DEF Init
  <2>3. waiting \in [Readers -> Segs \cup {NoSeg}] /\ emit \in [Readers -> BOOLEAN]
    BY DEF Init
  <2>4. <<>> \in Seq(UpMsgs) /\ <<>> \in Seq(DownMsgs)
    OBVIOUS
  <2>5. QED
    BY <1>1, <2>1, <2>2, <2>3, <2>4 DEF Types, Init
<1>9. EmitOK /\ AckOK /\ FinishOK
  BY <1>6, MsgFacts DEF EmitOK, AckOK, FinishOK, Told, Init
<1>10. FlightsOK
  <2>1. \A M : Count(<<>>, M) = 0
    BY FS_EmptySet DEF Count, Idx
  <2>2. QED
    BY <2>1, <1>6, SegsFinite, MsgFacts DEF FlightsOK, Flown, Init
<1>11. QED
  BY <1>7, <1>8, <1>9, <1>10 DEF IInv
-----------------------------------------------------------------------------
\* The reader's actions leave the browser, the socket and the store alone.
LEMMA Apart ==
  ASSUME IInv, UNCHANGED <<browserVars, up, down, hand, storeVars, incomplete, sought>>,
         waiting' \in [Readers -> Segs \cup {NoSeg}], emit' \in [Readers -> BOOLEAN], EmitOK'
  PROVE  IInv'
<1>1. Types' /\ SenderOK'
  BY DEF IInv, Types, SenderOK, Spoken, browserVars, storeVars
<1>2. AckOK' /\ FinishOK'
  BY DEF IInv, AckOK, FinishOK, Told, browserVars, storeVars
<1>3. FlightsOK'
  BY DEF IInv, FlightsOK, Flown, browserVars
<1>4. QED
  BY <1>1, <1>2, <1>3 DEF IInv

LEMMA ReaderStep ==
  ASSUME IInv, NEW r \in Readers,
         (\E s \in Segs : Miss(r, s)) \/ Tick(r) \/ Deliver(r) \/ GiveUp(r)
  PROVE  IInv'
<1>1. UNCHANGED <<browserVars, up, down, hand, storeVars, incomplete, sought>>
  BY DEF Miss, Tick, Deliver, GiveUp, Unpark, ghosts
<1>2. /\ waiting' \in [Readers -> Segs \cup {NoSeg}] /\ emit' \in [Readers -> BOOLEAN]
      /\ EmitOK'
  <2>1. CASE \E s \in Segs : Miss(r, s)
    BY <2>1 DEF Miss, Seek, IInv, Types, EmitOK
  <2>2. CASE Tick(r)
    BY <2>2 DEF Tick, Seek, IInv, Types, EmitOK
  <2>3. CASE Deliver(r) \/ GiveUp(r)
    BY <2>3 DEF Deliver, GiveUp, Unpark, IInv, Types, EmitOK
  <2>4. QED
    BY <2>1, <2>2, <2>3
<1>3. QED
  BY <1>1, <1>2, Apart

LEMMA SeekWindowStep == ASSUME IInv, NEW s \in Segs, SeekWindowEnds(s) PROVE IInv'
<1>1. UNCHANGED <<browserVars, up, down, hand, storeVars, incomplete, sought, waiting, emit>>
  BY DEF SeekWindowEnds, ghosts
<1>2. QED
  BY <1>1, Apart DEF IInv, Types, EmitOK

\* One lemma for each of the other actions.
LEMMA ReadDoneStep == ASSUME IInv, ReadDone PROVE IInv'
<1> DEFINE s == snd.reading
<1>1. /\ ~stopped /\ s # NoSeg /\ up' = Append(up, Msg("seg", s))
      /\ UNCHANGED <<limit, stopped, down, hand, received, waiting, emit, incomplete, sought>>
  BY DEF ReadDone, storeVars, readerVars, ghosts
<1>2. Sender(snd) /\ Spoken(snd, sought) /\ limit \in {1, 2}
  BY DEF IInv, SenderOK, Types
<1>3. s \in Segs /\ s \notin snd.sent
  BY <1>1, <1>2 DEF Sender
<1>4. /\ Sender(snd') /\ Spoken(snd', sought)
      /\ snd'.sent = snd.sent \cup {s} /\ snd'.acked = snd.acked
  <2>1. snd' \in Pumped({NextSegment(m).j :
                           m \in {[snd EXCEPT !.sent = @ \cup {snd.reading}, !.reading = NoSeg]}})
    BY DEF ReadDone
  <2>2. QED
    BY <1>1, <1>2, <2>1, ReadFacts
<1>5. SenderOK' /\ EmitOK'
  BY <1>1, <1>4 DEF IInv, SenderOK, Spoken, EmitOK
<1>6. Types'
  <2>1. up' \in Seq(UpMsgs)
    BY <1>1, <1>3, MsgFacts DEF IInv, Types
  <2>2. QED
    BY <1>1, <2>1 DEF IInv, Types
<1>7. AckOK'
  BY <1>1, <1>4 DEF IInv, AckOK, Told
<1>8. FinishOK'
  <2>1. \A i \in DOMAIN up' : up'[i] = Msg("seg", s) \/ (i \in DOMAIN up /\ up'[i] = up[i])
    BY <1>1 DEF IInv, Types
  <2>2. \A i \in DOMAIN up' : up'[i].op = "finish" => i \in DOMAIN up /\ up'[i] = up[i]
    BY <2>1, MsgFacts
  <2>3. QED
    BY <1>1, <2>2 DEF IInv, FinishOK
<1>9. FlightsOK'
  <2>1. ASSUME NEW t \in Segs PROVE Flown(t)'
    <3>1. Count(up', {Msg("seg", t)}) = Count(up, {Msg("seg", t)}) + (IF t = s THEN 1 ELSE 0)
      <4>1. Msg("seg", s) \in UpMsgs /\ (Msg("seg", s) \in {Msg("seg", t)} <=> t = s)
        BY <1>3, MsgFacts
      <4>2. QED
        BY <4>1, <1>1, CountAppend DEF IInv, Types
    <3>2. Flown(t)
      BY <1>1 DEF IInv, FlightsOK
    <3>3. Count(up, {Msg("seg", t)}) \in Nat /\ Count(down, Answers(t)) \in Nat
      BY CountType DEF IInv, Types
    <3>4. t \in snd'.sent <=> t \in snd.sent \/ t = s
      BY <1>4
    <3>5. CASE t = s
      BY <1>1, <1>3, <3>1, <3>2, <3>3, <3>4, <3>5 DEF Flown
    <3>6. CASE t # s
      BY <1>1, <3>1, <3>2, <3>3, <3>4, <3>6 DEF Flown
    <3>7. QED
      BY <3>5, <3>6
  <2>2. QED
    BY <2>1 DEF FlightsOK
<1>10. QED
  BY <1>5, <1>6, <1>7, <1>8, <1>9 DEF IInv

LEMMA TimerStep == ASSUME IInv, NEW s \in Segs, RetryTimer(s) PROVE IInv'
<1>1. /\ snd.retry[s] = "waiting"
      /\ UNCHANGED <<limit, stopped, up, down, hand, received, waiting, emit, incomplete, sought>>
  BY DEF RetryTimer, storeVars, readerVars, ghosts
<1>2. /\ Sender(snd') /\ Spoken(snd', sought)
      /\ snd'.sent = snd.sent /\ snd'.acked = snd.acked
  BY <1>1, TimerFacts DEF RetryTimer, IInv, SenderOK, Types
<1>3. Types' /\ SenderOK' /\ EmitOK'
  BY <1>1, <1>2 DEF IInv, Types, SenderOK, Spoken, EmitOK
<1>4. AckOK' /\ FinishOK'
  BY <1>1, <1>2 DEF IInv, AckOK, FinishOK, Told
<1>5. FlightsOK'
  BY <1>1, <1>2 DEF IInv, FlightsOK, Flown
<1>6. QED
  BY <1>3, <1>4, <1>5 DEF IInv

LEMMA OnMessageStep == ASSUME IInv, OnMessage PROVE IInv'
<1> DEFINE m == Head(down)
<1>1. /\ down # <<>> /\ down' = Tail(down)
      /\ UNCHANGED <<limit, up, hand, received, waiting, emit, incomplete>>
  BY DEF OnMessage, storeVars, readerVars
<1>2. /\ m \in DownMsgs /\ m = down[1] /\ down' \in Seq(DownMsgs)
      /\ \A i \in DOMAIN down' : i + 1 \in DOMAIN down /\ down'[i] = down[i + 1]
      /\ 1 \in DOMAIN down
  BY <1>1 DEF IInv, Types
<1>3. Sender(snd) /\ Spoken(snd, sought) /\ limit \in {1, 2} /\ stopped \in BOOLEAN
  BY DEF IInv, SenderOK, Types
<1>4. sought' = IF m.op = "seek" THEN sought \cup {m.seg} ELSE sought
  BY DEF OnMessage
<1>5. m.op = "seek" => m.seg \in Segs
  BY <1>2, MsgFacts
<1>6. \A s \in Segs : /\ Count(down, Answers(s)) =
                          Count(down', Answers(s)) + (IF m \in Answers(s) THEN 1 ELSE 0)
                      /\ Count(down', Answers(s)) \in Nat
                      /\ Count(up, {Msg("seg", s)}) \in Nat
  BY <1>1, <1>2, CountTail, CountType DEF IInv, Types
<1>7. \A s \in Segs : m \in Answers(s) <=> m.seg = s /\ m.op # "seek"
  BY <1>2 DEF Answers
<1> DEFINE Heard == /\ Sender(snd') /\ Spoken(snd', sought') /\ stopped' \in BOOLEAN
                    /\ stopped => stopped'
                    /\ snd'.acked \subseteq received
                    /\ ~stopped' => \A s \in Segs : Flown(s)'
<1>8. m.op = "ack" => m.seg \in received
  BY <1>2 DEF IInv, AckOK, Told
<1>9. ASSUME stopped PROVE Heard
  <2>1. snd' = snd /\ stopped' = stopped
    BY <1>9 DEF OnMessage
  <2>2. QED
    BY <2>1, <1>3, <1>4, <1>9, MoreSought DEF IInv, AckOK
<1>10. ASSUME ~stopped, m.op = "error" PROVE Heard
  <2>1. snd' = Emptied(snd) /\ stopped' = TRUE /\ sought' = sought
    BY <1>10, <1>4 DEF OnMessage
  <2>2. QED
    BY <2>1, <1>3, EmptiedFacts DEF IInv, AckOK
<1>11. ASSUME ~stopped, m.op # "error" PROVE Heard
  <2>1. /\ stopped' = stopped
        /\ snd' \in CASE m.op = "ack"  -> Ack(snd, m.seg)
                      [] m.op = "busy" -> Busy(snd, m.seg)
                      [] m.op = "seek" -> Request(snd, m.seg)
    BY <1>11 DEF OnMessage
  <2>2. m.op \in {"ack", "busy", "seek"} /\ m.seg \in Segs
    <3>1. m.op # "complete"
      BY <1>2, <1>11 DEF IInv, AckOK, Told
    <3>2. QED
      BY <3>1, <1>2, <1>11, MsgFacts
  <2>3. \A s \in Segs : Flown(s)
    BY <1>11 DEF IInv, FlightsOK
  <2>4. ASSUME m.op = "seek" PROVE Heard
    <3>1. Sender(snd') /\ Spoken(snd', sought') /\ snd'.sent = snd.sent /\ snd'.acked = snd.acked
      BY <2>1, <2>2, <2>4, <1>3, <1>4, RequestFacts
    <3>2. \A s \in Segs : Count(down', Answers(s)) = Count(down, Answers(s))
      <4>1. ASSUME NEW s \in Segs PROVE Count(down', Answers(s)) = Count(down, Answers(s))
        <5>1. m \notin Answers(s)
          BY <2>4, <1>7
        <5> DEFINE c == Count(down, Answers(s))
                   d == Count(down', Answers(s))
        <5>2. c = d + (IF m \in Answers(s) THEN 1 ELSE 0) /\ d \in Nat
          BY <1>6
        <5> HIDE DEF c, d
        <5>3. c = d
          BY <5>1, <5>2
        <5>4. QED
          BY <5>3 DEF c, d
      <4>2. QED
        BY <4>1
    <3>3. \A s \in Segs : Flown(s)'
      BY <2>3, <3>1, <3>2, <1>1 DEF Flown
    <3>4. QED
      BY <2>1, <3>1, <3>3, <1>3 DEF IInv, AckOK
  <2>5. ASSUME m.op \in {"ack", "busy"} PROVE Heard
    <3> DEFINE s == m.seg
    <3>1. s \in snd.sent
      <4>1. Count(down, Answers(s)) = Count(down', Answers(s)) + 1
        BY <2>2, <2>5, <1>6, <1>7
      <4>2. Flown(s) /\ Count(down', Answers(s)) \in Nat /\ Count(up, {Msg("seg", s)}) \in Nat
        BY <2>2, <2>3, <1>6
      <4>3. CASE s \notin snd.sent
        <5>1. Count(up, {Msg("seg", s)}) + Count(down, Answers(s)) + (IF hand.seg = s THEN 1 ELSE 0) = 0
          BY <4>2, <4>3 DEF Flown
        <5> HIDE DEF s
        <5>2. QED
          BY <4>1, <4>2, <5>1
      <4>4. QED
        BY <4>3
    <3>2. /\ Sender(snd') /\ Spoken(snd', sought) /\ snd'.sent = snd.sent \ {s}
          /\ snd'.acked \subseteq snd.acked \cup (IF m.op = "ack" THEN {s} ELSE {})
      <4>1. CASE m.op = "ack"
        BY <4>1, <2>1, <3>1, <1>3, AckFacts
      <4>2. CASE m.op = "busy"
        BY <4>2, <2>1, <3>1, <1>3, BusyFacts
      <4>3. QED
        BY <4>1, <4>2, <2>5
    <3>3. ASSUME NEW t \in Segs PROVE Flown(t)'
      <4>1. m \in Answers(t) <=> t = s
        BY <2>5, <1>7
      <4>2. t \in snd'.sent <=> t \in snd.sent /\ t # s
        BY <3>2
      <4>3. CASE t = s
        BY <4>1, <4>2, <4>3, <2>3, <3>1, <1>1, <1>6 DEF Flown
      <4>4. CASE t # s
        BY <4>1, <4>2, <4>4, <2>3, <1>1, <1>6 DEF Flown
      <4>5. QED
        BY <4>3, <4>4
    <3>4. sought' = sought
      BY <2>5, <1>4
    <3>5. QED
      BY <2>1, <3>2, <3>3, <3>4, <1>3, <1>8 DEF IInv, AckOK
  <2>6. QED
    BY <2>2, <2>4, <2>5
<1>12. Heard
  BY <1>3, <1>9, <1>10, <1>11
<1>13. Types' /\ EmitOK'
  BY <1>1, <1>2, <1>12 DEF IInv, Types, EmitOK
<1>14. SenderOK'
  BY <1>1, <1>12 DEF SenderOK, Spoken
<1>15. AckOK' /\ FinishOK'
  BY <1>1, <1>2, <1>12 DEF IInv, AckOK, FinishOK, Told
<1>16. FlightsOK'
  BY <1>12 DEF FlightsOK
<1>17. QED
  BY <1>13, <1>14, <1>15, <1>16 DEF IInv

LEMMA StopStep == ASSUME IInv, SendFinish \/ Fail PROVE IInv'
<1>1. /\ stopped' = TRUE
      /\ UNCHANGED <<limit, down, hand, received, waiting, emit, incomplete, sought>>
  BY DEF SendFinish, Fail, storeVars, readerVars, ghosts
<1>2. Sender(snd) /\ Spoken(snd, sought) /\ limit \in {1, 2} /\ snd.acked \subseteq received
  BY DEF IInv, SenderOK, Types, AckOK
<1>3. /\ Sender(snd') /\ Spoken(snd', sought) /\ snd'.acked = snd.acked
      /\ up' \in Seq(UpMsgs)
      /\ \A i \in DOMAIN up' : up'[i].op = "finish" => received = Segs
  <2>1. CASE SendFinish
    <3>1. snd' = snd /\ up' = Append(up, Msg("finish", NoSeg)) /\ received = Segs
      BY <2>1, <1>2 DEF SendFinish, IInv, Types
    <3>2. up' \in Seq(UpMsgs)
      BY <3>1, MsgFacts DEF IInv, Types
    <3>3. QED
      BY <3>1, <3>2, <1>2
  <2>2. CASE Fail
    BY <2>2, <1>2, EmptiedFacts DEF Fail, IInv, Types, FinishOK
  <2>3. QED
    BY <2>1, <2>2
<1>4. Types' /\ SenderOK' /\ EmitOK'
  BY <1>1, <1>3 DEF IInv, Types, SenderOK, Spoken, EmitOK
<1>5. AckOK'
  BY <1>1, <1>2, <1>3 DEF IInv, AckOK, Told
<1>6. FinishOK'
  BY <1>1, <1>3 DEF IInv, FinishOK
<1>7. FlightsOK'
  BY <1>1 DEF FlightsOK
<1>8. QED
  BY <1>4, <1>5, <1>6, <1>7 DEF IInv

LEMMA TakeSegmentStep == ASSUME IInv, TakeSegment PROVE IInv'
<1> DEFINE s == Head(up).seg
<1>1. /\ hand = NoMsg /\ up # <<>> /\ Head(up).op = "seg" /\ up' = Tail(up)
      /\ UNCHANGED <<limit, snd, stopped, down, waiting, emit, incomplete, sought>>
  BY DEF TakeSegment, browserVars, readerVars, ghosts
<1>2. /\ Head(up) \in UpMsgs /\ up' \in Seq(UpMsgs)
      /\ \A i \in DOMAIN up' : i + 1 \in DOMAIN up /\ up'[i] = up[i + 1]
  BY <1>1 DEF IInv, Types
<1>3. s \in Segs /\ Head(up) = Msg("seg", s)
  BY <1>1, <1>2, MsgFacts
<1>4. /\ received' \in {received, received \cup {s}}
      /\ \E o \in {"ack", "busy", "error"} :
            hand' = Msg(o, s) /\ (o = "ack" => received' = received \cup {s})
  BY DEF TakeSegment, Stored, Refused, storeVars
<1>5. /\ hand' \in DownMsgs /\ hand'.op \in {"ack", "busy", "error"} /\ hand'.seg = s
      /\ hand'.op = "ack" => s \in received'
  BY <1>3, <1>4, MsgFacts
<1>6. received \subseteq received' /\ received' \in SUBSET Segs
  BY <1>3, <1>4 DEF IInv, Types
<1>7. Types' /\ SenderOK' /\ EmitOK'
  BY <1>1, <1>2, <1>5, <1>6 DEF IInv, Types, SenderOK, Spoken, EmitOK
<1>8. AckOK'
  BY <1>1, <1>5, <1>6 DEF IInv, AckOK, Told
<1>9. FinishOK'
  BY <1>1, <1>2, <1>6 DEF IInv, FinishOK
<1>10. ASSUME ~stopped, NEW t \in Segs PROVE Flown(t)'
  <2> DEFINE c == Count(up, {Msg("seg", t)})
             d == Count(up', {Msg("seg", t)})
  <2>1. c = d + (IF t = s THEN 1 ELSE 0)
    <3>1. Head(up) \in {Msg("seg", t)} <=> t = s
      BY <1>3, MsgFacts
    <3>2. QED
      BY <3>1, <1>1, CountTail DEF IInv, Types
  <2>2. d \in Nat /\ Count(down, Answers(t)) \in Nat
    BY <1>2, CountType DEF IInv, Types
  <2>3. Flown(t) /\ hand.seg # t
    BY <1>1, <1>10, SegsFinite, MsgFacts DEF IInv, FlightsOK
  <2>4. CASE t = s
    BY <2>1, <2>2, <2>3, <2>4, <1>1, <1>5 DEF Flown
  <2>5. CASE t # s
    BY <2>1, <2>2, <2>3, <2>5, <1>1, <1>5 DEF Flown
  <2>6. QED
    BY <2>4, <2>5
<1>11. FlightsOK'
  BY <1>1, <1>10 DEF FlightsOK
<1>12. QED
  BY <1>7, <1>8, <1>9, <1>11 DEF IInv

LEMMA TakeFinishStep == ASSUME IInv, TakeFinish PROVE IInv'
<1>1. /\ up # <<>> /\ Head(up).op = "finish" /\ up' = Tail(up)
      /\ incomplete' = (incomplete \/ received # Segs)
      /\ hand' = Msg(IF received = Segs THEN "complete" ELSE "error", NoSeg)
      /\ UNCHANGED <<limit, snd, stopped, down, received, waiting, emit, sought>>
  BY DEF TakeFinish, browserVars, storeVars, readerVars
<1>2. /\ Head(up) = up[1] /\ 1 \in DOMAIN up /\ up' \in Seq(UpMsgs)
      /\ \A i \in DOMAIN up' : i + 1 \in DOMAIN up /\ up'[i] = up[i + 1]
  BY <1>1 DEF IInv, Types
<1>3. stopped /\ received = Segs
  BY <1>1, <1>2 DEF IInv, FinishOK
<1>4. hand' = Msg("complete", NoSeg)
  BY <1>1, <1>3
<1>5. hand' \in DownMsgs /\ hand'.op = "complete"
  BY <1>4, MsgFacts
<1>6. Types' /\ SenderOK' /\ EmitOK'
  BY <1>1, <1>2, <1>5 DEF IInv, Types, SenderOK, Spoken, EmitOK
<1>7. AckOK'
  BY <1>1, <1>3, <1>5 DEF IInv, AckOK, Told
<1>8. FinishOK'
  BY <1>1, <1>2, <1>3 DEF IInv, FinishOK
<1>9. FlightsOK'
  BY <1>1, <1>3 DEF FlightsOK
<1>10. QED
  BY <1>6, <1>7, <1>8, <1>9 DEF IInv

\* A message is put on the way down.
LEMMA SentDown ==
  ASSUME IInv, NEW m \in DownMsgs, down' = Append(down, m), Told(m),
         UNCHANGED <<limit, snd, stopped, up, received, sought>>
  PROVE  /\ down' \in Seq(DownMsgs)
         /\ \A i \in DOMAIN down' : Told(down'[i])
         /\ SenderOK'
<1>1. down' \in Seq(DownMsgs)
      /\ \A i \in DOMAIN down' : down'[i] = m \/ (i \in DOMAIN down /\ down'[i] = down[i])
  BY DEF IInv, Types
<1>2. QED
  BY <1>1 DEF IInv, AckOK, SenderOK, Spoken

LEMMA AnswerStep == ASSUME IInv, Answer PROVE IInv'
<1>1. /\ hand # NoMsg /\ down' = Append(down, hand) /\ hand' = NoMsg
      /\ UNCHANGED <<limit, snd, stopped, up, received, waiting, emit, incomplete, sought>>
  BY DEF Answer, browserVars, storeVars, readerVars, ghosts
<1>2. hand \in DownMsgs /\ hand.op # "seek" /\ Told(hand)
  BY <1>1 DEF IInv, Types, AckOK
<1>3. /\ down' \in Seq(DownMsgs) /\ \A i \in DOMAIN down' : Told(down'[i])
      /\ SenderOK'
  BY <1>1, <1>2, SentDown
<1>4. Types' /\ EmitOK' /\ FinishOK'
  BY <1>1, <1>3, MsgFacts DEF IInv, Types, EmitOK, FinishOK
<1>5. AckOK'
  BY <1>1, <1>3, MsgFacts DEF IInv, AckOK, Told
<1>6. ASSUME ~stopped, NEW t \in Segs PROVE Flown(t)'
  <2> DEFINE c == Count(down, Answers(t))
             d == Count(down', Answers(t))
  <2>1. d = c + (IF hand.seg = t THEN 1 ELSE 0)
    <3>1. hand \in Answers(t) <=> hand.seg = t
      BY <1>2 DEF Answers
    <3>2. QED
      BY <3>1, <1>1, <1>2, CountAppend DEF IInv, Types
  <2>2. c \in Nat /\ Count(up, {Msg("seg", t)}) \in Nat
    BY CountType DEF IInv, Types
  <2>3. Flown(t) /\ hand'.seg # t
    BY <1>1, <1>6, SegsFinite, MsgFacts DEF IInv, FlightsOK
  <2>4. QED
    BY <2>1, <2>2, <2>3, <1>1 DEF Flown
<1>7. FlightsOK'
  BY <1>1, <1>6 DEF FlightsOK
<1>8. QED
  BY <1>3, <1>4, <1>5, <1>7 DEF IInv

LEMMA EmitStep == ASSUME IInv, NEW r \in Readers, Emit(r) PROVE IInv'
<1> DEFINE m == Msg("seek", waiting[r])
<1>1. /\ emit[r] /\ emit' = [emit EXCEPT ![r] = FALSE] /\ down' = Append(down, m)
      /\ UNCHANGED <<limit, snd, stopped, up, hand, received, waiting, incomplete, sought>>
  BY DEF Emit, browserVars, storeVars, ghosts
<1>2. m \in DownMsgs /\ m.op = "seek" /\ Told(m)
  BY <1>1, MsgFacts DEF IInv, EmitOK, Told
<1> HIDE DEF m
<1>3. /\ down' \in Seq(DownMsgs) /\ \A i \in DOMAIN down' : Told(down'[i])
      /\ SenderOK'
  BY <1>1, <1>2, SentDown
<1>4. Types' /\ EmitOK' /\ FinishOK'
  BY <1>1, <1>3 DEF IInv, Types, EmitOK, FinishOK
<1>5. AckOK'
  BY <1>1, <1>3 DEF IInv, AckOK, Told
<1>6. ASSUME NEW t \in Segs PROVE Count(down', Answers(t)) = Count(down, Answers(t))
  <2>1. m \notin Answers(t)
    BY <1>2 DEF Answers
  <2>2. /\ Count(down', Answers(t)) = Count(down, Answers(t)) + (IF m \in Answers(t) THEN 1 ELSE 0)
        /\ Count(down, Answers(t)) \in Nat
    BY <1>1, <1>2, CountAppend, CountType DEF IInv, Types
  <2>3. QED
    BY <2>1, <2>2
<1>7. FlightsOK'
  BY <1>1, <1>6 DEF IInv, FlightsOK, Flown
<1>8. QED
  BY <1>3, <1>4, <1>5, <1>7 DEF IInv
-----------------------------------------------------------------------------
\* The invariant the three properties follow from: whatever is acknowledged,
\* in flight or under way, in whatever order callbacks and threads run.
THEOREM LinkInductive == Spec => []IInv
<1>1. Init => IInv
  BY LinkInit
<1>2. ASSUME IInv, [Next]_vars PROVE IInv'
  <2>1. CASE Browser
    BY <2>1, <1>2, ReadDoneStep, OnMessageStep, TimerStep DEF Browser
  <2>2. CASE SendFinish \/ Fail
    BY <2>2, <1>2, StopStep
  <2>3. CASE Connection
    BY <2>3, <1>2, TakeSegmentStep, TakeFinishStep, AnswerStep DEF Connection
  <2>4. CASE \E r \in Readers : Reader(r) \/ GiveUp(r) \/ \E s \in Segs : Miss(r, s)
    BY <2>4, <1>2, EmitStep, ReaderStep DEF Reader
  <2>5. CASE \E s \in Segs : SeekWindowEnds(s)
    BY <2>5, <1>2, SeekWindowStep
  <2>6. CASE UNCHANGED vars
    <3>1. UNCHANGED <<limit, snd, stopped, up, down, hand, received, waiting, emit, incomplete, sought>>
      BY <2>6 DEF vars, browserVars, storeVars, readerVars, ghosts
    <3>2. QED
      BY <3>1, <1>2 DEF IInv, Types, SenderOK, Spoken, EmitOK, AckOK, Told, FinishOK, FlightsOK, Flown
  <2>7. QED
    BY <2>1, <2>2, <2>3, <2>4, <2>5, <2>6, <1>2 DEF Next
<1>3. QED
  BY <1>1, <1>2, PTL DEF Spec

\* FlightsAnswered: of every segment in flight exactly one copy, or answer, is
\* under way, so no answer is taken for that of another copy.
THEOREM FlightsAreAnswered == Spec => []FlightsAnswered
<1>1. ASSUME IInv PROVE FlightsAnswered
  <2>1. ASSUME NEW s \in Segs, ~stopped
        PROVE  Cardinality({i \in DOMAIN up : up[i] = Msg("seg", s)})
               + Cardinality({i \in DOMAIN down : down[i].seg = s /\ down[i].op # "seek"})
               + (IF hand.seg = s THEN 1 ELSE 0)
               = (IF s \in snd.sent THEN 1 ELSE 0)
    <3>1. Flown(s)
      BY <1>1, <2>1 DEF IInv, FlightsOK
    <3>2. Idx(up, {Msg("seg", s)}) = {i \in DOMAIN up : up[i] = Msg("seg", s)}
      BY DEF Idx
    <3>3. \A i \in DOMAIN down : down[i] \in DownMsgs
      BY <1>1 DEF IInv, Types
    <3>4. Idx(down, Answers(s)) = {i \in DOMAIN down : down[i].seg = s /\ down[i].op # "seek"}
      BY <3>3 DEF Idx, Answers
    <3>5. QED
      BY <3>1, <3>2, <3>4 DEF Flown, Count
  <2>2. QED
    BY <2>1 DEF FlightsAnswered
<1>2. QED
  BY <1>1, LinkInductive, PTL

\* AckedWasReceived: what the browser counts as uploaded the console received,
\* so its "finish" is never answered "incomplete".
THEOREM AckedIsReceived == Spec => []AckedWasReceived
<1>1. IInv => AckedWasReceived
  BY DEF IInv, AckOK, FinishOK, AckedWasReceived
<1>2. QED
  BY <1>1, LinkInductive, PTL

\* SpeculationBounded: of the segments nobody sought no more back off than may
\* be in flight together.
THEOREM SpeculationStaysBounded == Spec => []SpeculationBounded
<1>1. ASSUME IInv PROVE SpeculationBounded
  <2>1. Sender(snd) /\ Spoken(snd, sought) /\ limit \in {1, 2}
    BY <1>1 DEF IInv, SenderOK, Types
  <2>2. Backoff(snd) \subseteq Unanswered(snd)
    BY DEF Unanswered
  <2>3. Cardinality(Backoff(snd) \ sought) <= limit
    BY <2>1, <2>2, FewerUnanswered DEF Spoken
  <2>4. QED
    BY <2>3 DEF SpeculationBounded
<1>2. QED
  BY <1>1, LinkInductive, PTL

-----------------------------------------------------------------------------
(* The session as this module takes it.                                    *)

\* The store counts its residents as FiniteSets does.
LEMMA SessionCounts == \A S : Session!Cardinality(S) = Cardinality(S)
  BY DEF Session!Cardinality, Cardinality

\* What is resident was received.
ResidentReceived == present \subseteq received

LEMMA ResidentStep ==
  ASSUME ResidentReceived, [Next]_vars
  PROVE  ResidentReceived'
<1>1. CASE TakeSegment
  BY <1>1 DEF TakeSegment, Stored, ResidentReceived, storeVars
<1>2. CASE UNCHANGED storeVars
  BY <1>2 DEF storeVars, ResidentReceived
<1>3. QED
  BY <1>1, <1>2 DEF Next, Browser, ReadDone, OnMessage, RetryTimer, SendFinish, Fail,
     Connection, TakeFinish, Answer, Reader, Emit, Tick, Deliver, GiveUp, Unpark, Miss,
     SeekWindowEnds, vars, storeVars

THEOREM ResidentsWereReceived == Spec => []ResidentReceived
<1>1. Init => ResidentReceived
  BY DEF Init, ResidentReceived
<1>2. QED
  BY <1>1, ResidentStep, PTL DEF Spec

LEMMA SessionInit == Init => Session!Init
<1> SUFFICES ASSUME Init PROVE Session!Init
  OBVIOUS
<1>1. received \in SUBSET Segs
  BY LinkAssumption DEF Init
<1>2. QED
  BY <1>1, SessionCounts DEF Init, Session!Init

\* A segment taken off the socket is written, refused, or finds the session at
\* its end.
LEMMA SessionTakes ==
  ASSUME IInv, TakeSegment
  PROVE  [Session!Next]_(Session!storeVars)
<1> DEFINE s == Head(up).seg
<1>1. s \in Segs
  <2>1. up \in Seq(UpMsgs) /\ up # <<>> /\ Head(up).op = "seg"
    BY DEF IInv, Types, TakeSegment
  <2>2. Head(up) \in UpMsgs
    BY <2>1
  <2>3. QED
    BY <2>1, <2>2, MsgFacts
<1>2. UNCHANGED <<waiting, emit, seek_sent>>
  BY DEF TakeSegment, readerVars
<1> HIDE DEF s
<1>3. CASE ~over /\ Stored(s)
  <2>1. Session!Write(s)
    BY <1>2, <1>3, SessionCounts
       DEF Stored, Awaited, Session!Write, Session!Fits, Session!Replaces, Session!Awaited
  <2>2. QED
    BY <1>1, <2>1 DEF Session!Next
<1>4. CASE UNCHANGED storeVars
  BY <1>2, <1>4 DEF storeVars, Session!storeVars
<1>5. CASE over' = TRUE /\ UNCHANGED <<present, received>>
  <2>1. over \/ Session!EndStore
    BY <1>2, <1>5 DEF Session!EndStore
  <2>2. over => UNCHANGED Session!storeVars
    BY <1>2, <1>5 DEF Session!storeVars
  <2>3. QED
    BY <2>1, <2>2 DEF Session!Next
<1>6. QED
  BY <1>3, <1>4, <1>5 DEF TakeSegment, s

\* A read that finds its segment missing, or looks again, waits for it; one
\* that is served or gives up leaves.
LEMMA SessionReads ==
  ASSUME IInv, ResidentReceived, NEW r \in Readers,
         Reader(r) \/ GiveUp(r) \/ \E s \in Segs : Miss(r, s)
  PROVE  Session!Next
<1> USE DEF IInv
<1>1. waiting \in [Readers -> Segs \cup {NoSeg}] /\ emit \in [Readers -> BOOLEAN]
  BY DEF Types
<1>2. UNCHANGED <<present, received, over>>
  BY DEF Reader, Emit, Tick, Deliver, GiveUp, Unpark, Miss, storeVars
<1>3. ASSUME NEW s \in Segs, Seek(r, s), ~emit[r], ~over, s \notin present,
             waiting' = [waiting EXCEPT ![r] = s]
      PROVE  Session!Next
  <2> DEFINE asks == s # 0 /\ s \notin seek_sent
  <2>1. s > 0 <=> s # 0
    BY DEF Segs
  <2>2. /\ emit' = [emit EXCEPT ![r] = asks]
        /\ seek_sent' = IF asks THEN seek_sent \cup {s} ELSE seek_sent
    BY <1>1, <1>3, <2>1 DEF Seek
  <2>3. Session!Wait(r, s)
    BY <1>2, <1>3, <2>2 DEF Session!Wait
  <2>4. QED
    BY <2>3 DEF Session!Next
<1>4. ASSUME NEW s \in Segs, Miss(r, s) PROVE Session!Next
  <2>1. ~emit[r]
    BY <1>4, SegsFinite DEF Miss, EmitOK
  <2>2. QED
    BY <1>3, <1>4, <2>1 DEF Miss
<1>5. CASE Tick(r)
  <2>1. waiting[r] \in Segs /\ waiting' = [waiting EXCEPT ![r] = waiting[r]]
    BY <1>1, <1>5 DEF Tick
  <2>2. QED
    BY <1>3, <1>5, <2>1 DEF Tick
<1>6. CASE Emit(r)
  <2>1. Session!Asked(r)
    BY <1>2, <1>6 DEF Emit, Session!Asked
  <2>2. QED
    BY <2>1 DEF Session!Next
<1>7. CASE Deliver(r) \/ GiveUp(r)
  <2>1. waiting[r] # NoSeg
    BY <1>7, SegsFinite DEF Deliver, GiveUp, ResidentReceived, Types
  <2>2. ~emit[r] /\ Unpark(r) /\ seek_sent' = seek_sent
    BY <1>7 DEF Deliver, GiveUp, Unpark
  <2>3. emit' = [emit EXCEPT ![r] = FALSE]
    BY <1>1, <2>2 DEF Unpark
  <2>4. Session!Leave(r)
    BY <1>2, <2>1, <2>2, <2>3 DEF Unpark, Session!Leave
  <2>5. QED
    BY <2>4 DEF Session!Next
<1>8. QED
  BY <1>4, <1>5, <1>6, <1>7 DEF Reader

LEMMA SessionNext ==
  ASSUME IInv, ResidentReceived, [Next]_vars
  PROVE  [Session!Next]_(Session!storeVars)
<1>1. CASE UNCHANGED <<storeVars, readerVars>>
  BY <1>1 DEF storeVars, readerVars, Session!storeVars
<1>2. CASE Browser \/ SendFinish \/ Fail \/ TakeFinish \/ Answer
  BY <1>1, <1>2 DEF Browser, ReadDone, OnMessage, RetryTimer, SendFinish, Fail, TakeFinish, Answer
<1>3. ASSUME NEW s \in Segs, SeekWindowEnds(s) PROVE Session!Next
  <2>1. Session!AskAgain(s)
    BY <1>3 DEF SeekWindowEnds, storeVars, Session!AskAgain
  <2>2. QED
    BY <2>1 DEF Session!Next
<1>4. CASE UNCHANGED vars
  BY <1>1, <1>4 DEF vars
<1>5. QED
  BY <1>2, <1>3, <1>4, SessionTakes, SessionReads DEF Next, Connection

\* The session that the connection writes to and the readers wait on here is
\* the bounded store of SegmentStore, the one LiveStream implements.
THEOREM StoreAssumed == Spec => ImplementsStore
  BY SessionInit, SessionNext, LinkInductive, ResidentsWereReceived, PTL
     DEF Spec, ImplementsStore, Session!Spec

-----------------------------------------------------------------------------
(* What the store is proved to promise holds of the link.                  *)
Store == INSTANCE SegmentStoreProofs WITH
  phase <- IF over THEN "over" ELSE "live"

\* The store of the proofs is the one above.
LEMMA StoreIsSession == Session!Spec => Store!Spec
<1>1. \A S : Store!Cardinality(S) = Session!Cardinality(S)
  BY DEF Store!Cardinality, Session!Cardinality
<1>2. Session!Init => Store!Init
  BY <1>1 DEF Session!Init, Store!Init
<1>3. [Session!Next]_(Session!storeVars) => [Store!Next]_(Store!storeVars)
  BY <1>1 DEF Session!Next, Session!storeVars, Session!Begin, Session!EndStore,
     Session!Clear, Session!Write, Session!Fits, Session!Replaces, Session!Awaited,
     Session!AskAgain, Session!Asked, Session!Leave, Session!Wait, Store!Next, Store!storeVars,
     Store!Begin, Store!EndStore, Store!Clear, Store!Write, Store!Fits, Store!Replaces,
     Store!Awaited, Store!AskAgain, Store!Asked, Store!Leave, Store!Wait
<1>4. QED
  BY <1>2, <1>3, PTL DEF Session!Spec, Store!Spec

\* Room for s: it is stored, a slot is free, or a segment may be replaced.
Room(s) ==
  \/ s \in present \/ Cardinality(present) < Capacity
  \/ \E v \in present \ {0} : ~Awaited(v)

LEMMA StoreFits == Store!Sized /\ Store!IsFiniteSet(Segs)
<1>1. Cardinality(Readers) \in Nat /\ Capacity \in Nat \ {0}
  BY LinkAssumption, FS_CardinalityType
<1>2. Store!Sized
  BY <1>1, SegsFinite DEF Store!Sized, Segs
<1>3. Store!IsFiniteSet(Segs)
  BY SegsFinite DEF Store!IsFiniteSet, IsFiniteSet
<1>4. QED
  BY <1>2, <1>3

\* ws_live_try_write, called by the socket's thread: it always finds room for a
\* segment that somebody waits for, so the guard of "busy" in TakeSegment leaves
\* no awaited write without an answer.
THEOREM AwaitedIsTaken == Spec => [](\A s \in Segs : Awaited(s) => Room(s))
<1>1. Store!IsFiniteSet(Readers) /\ Store!Cardinality(Readers) < Capacity
  BY LinkAssumption
  DEF Store!IsFiniteSet, IsFiniteSet, Store!Cardinality, Cardinality
<1>2. Store!Spec => []Store!AwaitedFindsRoom
  BY <1>1, StoreFits, Store!RoomForAwaited
<1>3. \A S : Store!Cardinality(S) = Cardinality(S)
  BY DEF Store!Cardinality, Cardinality
<1>4. Store!AwaitedFindsRoom => \A s \in Segs : Awaited(s) => Room(s)
  BY <1>3 DEF Store!AwaitedFindsRoom, Store!Awaited, Awaited, Room
<1>5. QED
  BY <1>2, <1>4, StoreAssumed, StoreIsSession, PTL DEF ImplementsStore

\* Once the segment of a parked reader landed, no later write evicts it: the
\* reader finds it there when it runs (ws_live_read).
THEOREM LandedIsKept ==
  Spec => [][\A r \in Readers :
               waiting[r] \in present /\ waiting'[r] = waiting[r]
                 => waiting[r] \in present']_vars
<1> DEFINE Kept == \A r \in Readers :
                     waiting[r] \in present /\ waiting'[r] = waiting[r] => waiting[r] \in present'
<1>1. Store!Spec => Store!AwaitedStays
  BY StoreFits, Store!AwaitedIsKept
<1>2. [Kept]_(Store!storeVars) => [Kept]_vars
  BY DEF Store!storeVars, vars
<1>3. QED
  BY <1>1, <1>2, StoreAssumed, StoreIsSession, PTL DEF ImplementsStore, Store!AwaitedStays
=============================================================================
