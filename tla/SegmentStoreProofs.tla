--------------------------- MODULE SegmentStoreProofs ---------------------------
(***************************************************************************)
(* What the session that SegmentStore describes is good for, for any       *)
(* number of segments, readers and slots: it holds no more than its slots, *)
(* never loses the header nor a segment somebody waits for, and, with a    *)
(* slot more than readers, takes every segment that is awaited.  The       *)
(* modules that implement the store or build on it inherit these facts.    *)
(***************************************************************************)
EXTENDS SegmentStore, FiniteSetTheorems, TLAPS

\* The parameters as src/src/ws_stream.c has them: segments are numbered from
\* zero, and there is a slot at least.
Sized ==
  /\ Segs \subseteq Nat /\ NoSeg \notin Segs
  /\ Capacity \in Nat \ {0}

\* Every variable keeps its type, a seek is for the segment waited for,
\* and nobody waits without a session.
StoreTypes ==
  /\ received \subseteq Segs /\ present \subseteq received
  /\ waiting \in [Readers -> Segs \cup {NoSeg}]
  /\ emit \in [Readers -> BOOLEAN]
  /\ \A r \in Readers : emit[r] => waiting[r] \in Segs \ {0}
  /\ phase = "none" => \A r \in Readers : waiting[r] = NoSeg

\* Residents fit the slots, and the header is one of them once received.
Bounded == IsFiniteSet(present) /\ Cardinality(present) <= Capacity
HeaderKept == 0 \in received => 0 \in present

StoreInv == StoreTypes /\ Bounded /\ HeaderKept

LEMMA SmallSets ==
  ASSUME NEW S, NEW s, IsFiniteSet(S)
  PROVE  /\ IsFiniteSet(S \cup {s}) /\ Cardinality(S) \in Nat
         /\ Cardinality(S \cup {s}) = IF s \in S THEN Cardinality(S) ELSE Cardinality(S) + 1
         /\ IsFiniteSet(S \ {s})
         /\ Cardinality(S \ {s}) = IF s \in S THEN Cardinality(S) - 1 ELSE Cardinality(S)
<1>1. IsFiniteSet(S \cup {s}) /\ Cardinality(S) \in Nat /\ IsFiniteSet(S \ {s})
  BY FS_AddElement, FS_RemoveElement, FS_CardinalityType
<1>2. Cardinality(S \cup {s}) = IF s \in S THEN Cardinality(S) ELSE Cardinality(S) + 1
  BY FS_AddElement
<1>3. Cardinality(S \ {s}) = IF s \in S THEN Cardinality(S) - 1 ELSE Cardinality(S)
  BY FS_RemoveElement
<1>4. QED
  BY <1>1, <1>2, <1>3

LEMMA WriteKeeps ==
  ASSUME Sized, StoreInv, NEW s \in Segs, Write(s)
  PROVE  StoreInv'
<1> USE DEF StoreInv
<1>1. StoreTypes'
  BY DEF Write, Fits, Replaces, StoreTypes
<1>2. ASSUME Fits(s) PROVE Bounded'
  <2>1. /\ IsFiniteSet(present \cup {s}) /\ Cardinality(present) \in Nat
        /\ Cardinality(present \cup {s})
           = IF s \in present THEN Cardinality(present) ELSE Cardinality(present) + 1
    BY SmallSets DEF Bounded
  <2>2. QED
    BY <1>2, <2>1 DEF Sized, Fits, Bounded
<1>3. ASSUME Replaces(s) PROVE Bounded'
  <2>1. PICK v \in present \ {0} : present' = (present \ {v}) \cup {s}
    BY <1>3 DEF Replaces
  <2>2. /\ IsFiniteSet(present \ {v}) /\ Cardinality(present) \in Nat
        /\ Cardinality(present \ {v}) = Cardinality(present) - 1
    BY SmallSets DEF Bounded
  <2>3. s \notin present \ {v} /\ Cardinality(present) = Capacity
    BY <1>3 DEF Replaces
  <2>4. /\ IsFiniteSet((present \ {v}) \cup {s})
        /\ Cardinality((present \ {v}) \cup {s}) = Cardinality(present \ {v}) + 1
    BY <2>2, <2>3, FS_AddElement
  <2>5. QED
    BY <2>1, <2>2, <2>3, <2>4 DEF Bounded, Sized
<1>4. Bounded'
  BY <1>2, <1>3 DEF Write
<1>5. HeaderKept'
  BY DEF Write, Fits, Replaces, HeaderKept
<1>6. QED
  BY <1>1, <1>4, <1>5

LEMMA StoreKeeps ==
  ASSUME Sized, StoreInv, [Next]_storeVars
  PROVE  StoreInv'
<1> USE DEF StoreInv
<1>1. ASSUME NEW s \in Segs, Write(s) PROVE StoreInv'
  BY <1>1, WriteKeeps
<1>2. ASSUME UNCHANGED <<present, received, waiting, emit>>, phase' \in {phase, "over"}
      PROVE  StoreInv'
  BY <1>2 DEF StoreTypes, Bounded, HeaderKept
<1>3. CASE Begin \/ Clear
  <2>1. /\ present' = {} /\ received' = {} /\ UNCHANGED <<waiting, emit>>
        /\ \A r \in Readers : waiting[r] = NoSeg
    BY <1>3 DEF Begin, Clear, StoreTypes
  <2>2. IsFiniteSet({}) /\ Cardinality({}) <= Capacity
    BY FS_EmptySet DEF Sized
  <2>3. QED
    BY <2>1, <2>2 DEF StoreTypes, Bounded, HeaderKept
<1>4. ASSUME NEW r \in Readers, Asked(r) \/ Leave(r) \/ \E s \in Segs : Wait(r, s)
      PROVE  StoreInv'
  <2>1. UNCHANGED <<phase, present, received>>
    BY <1>4 DEF Asked, Leave, Wait
  <2>2. StoreTypes'
    <3>1. CASE Asked(r)
      BY <2>1, <3>1 DEF Asked, StoreTypes
    <3>2. CASE Leave(r)
      BY <2>1, <3>2 DEF Leave, StoreTypes
    <3>3. ASSUME NEW s \in Segs, Wait(r, s) PROVE StoreTypes'
      BY <2>1, <3>3 DEF Wait, StoreTypes
    <3>4. QED
      BY <1>4, <3>1, <3>2, <3>3
  <2>3. QED
    BY <2>1, <2>2 DEF Bounded, HeaderKept
<1>5. QED
  BY <1>1, <1>2, <1>3, <1>4 DEF Next, EndStore, AskAgain, storeVars

\* The store never holds more than its slots, and never loses the header, which
\* every start of an installation reads (ws_live_try_write).
THEOREM StoreHolds ==
  ASSUME Sized, IsFiniteSet(Segs)
  PROVE  Spec => []StoreInv
<1>1. Init => StoreInv
  BY FS_Subset DEF Sized, Init, StoreInv, StoreTypes, Bounded, HeaderKept
<1>2. StoreInv /\ [Next]_storeVars => StoreInv'
  BY StoreKeeps
<1>3. QED
  BY <1>1, <1>2, PTL DEF Spec

\* A segment that a reader waits for stays from its arrival until the reader has
\* it, or turns to another.
AwaitedStays ==
  [][\A r \in Readers :
       waiting[r] \in present /\ waiting'[r] = waiting[r] => waiting[r] \in present']_storeVars

\* Evictions spare what is awaited, and the memory is given back under nobody
\* (ws_live_try_write, free_locked).
THEOREM AwaitedIsKept ==
  ASSUME Sized, IsFiniteSet(Segs)
  PROVE  Spec => AwaitedStays
<1> DEFINE Kept == \A r \in Readers :
                     waiting[r] \in present /\ waiting'[r] = waiting[r] => waiting[r] \in present'
<1>1. ASSUME StoreInv, [Next]_storeVars, NEW r \in Readers,
             waiting[r] \in present, waiting'[r] = waiting[r]
      PROVE  waiting[r] \in present'
  <2>1. waiting[r] # NoSeg
    BY <1>1 DEF Sized, StoreInv, StoreTypes
  <2>2. ASSUME NEW s \in Segs, Write(s) PROVE waiting[r] \in present'
    BY <1>1, <2>2 DEF Write, Fits, Replaces, Awaited
  <2>3. ~Begin
    BY <1>1, <2>1 DEF Begin, StoreInv, StoreTypes
  <2>4. QED
    BY <1>1, <2>1, <2>2, <2>3 DEF Next, Clear, EndStore, AskAgain, Asked, Leave, Wait, storeVars
<1>2. StoreInv /\ [Next]_storeVars => [Kept]_storeVars
  BY <1>1
<1>3. Spec => []StoreInv
  BY StoreHolds
<1>4. QED
  BY <1>2, <1>3, PTL DEF Spec, AwaitedStays

\* A write of an awaited segment finds it stored, a slot free, or a segment
\* that it may replace: no write that a reader waits for need be refused.
AwaitedFindsRoom ==
  \A s \in Segs :
    Awaited(s) => \/ s \in present \/ Cardinality(present) < Capacity
                  \/ \E v \in present \ {0} : ~Awaited(v)

\* By the pigeonhole principle: the one who waits for s waits for no resident,
\* and the others are fewer than the residents but the header.
LEMMA SpareResident ==
  ASSUME Sized, StoreInv, IsFiniteSet(Readers), Cardinality(Readers) < Capacity,
         NEW s \in Segs, Awaited(s), s \notin present, Cardinality(present) = Capacity
  PROVE  \E v \in present \ {0} : ~Awaited(v)
<1> SUFFICES ASSUME \A v \in present \ {0} : Awaited(v) PROVE FALSE
  OBVIOUS
<1>1. PICK r \in Readers : waiting[r] = s
  BY DEF Awaited
<1> DEFINE P == present \ {0}
           Q == Readers \ {r}
           T == {waiting[q] : q \in Q}
           f == [q \in Q |-> waiting[q]]
<1>2. IsFiniteSet(Q) /\ Cardinality(Q) = Cardinality(Readers) - 1 /\ Cardinality(Readers) \in Nat
  BY <1>1, SmallSets
<1>3. P \subseteq T
  BY <1>1 DEF Awaited
<1>4. f \in Surjection(Q, T)
  BY DEF Surjection
<1>5. IsFiniteSet(T) /\ Cardinality(T) <= Cardinality(Q)
  BY <1>2, <1>4, FS_Surjection
<1>6. Cardinality(P) <= Cardinality(T)
  BY <1>3, <1>5, FS_Subset
<1>7. Cardinality(P) >= Capacity - 1 /\ Cardinality(P) \in Nat
  <2>1. IsFiniteSet(present)
    BY DEF StoreInv, Bounded
  <2>2. IsFiniteSet(P) /\ Cardinality(P) = IF 0 \in present THEN Capacity - 1 ELSE Capacity
    BY <2>1, FS_RemoveElement
  <2>3. QED
    BY <2>2 DEF Sized
<1>8. Cardinality(T) \in Nat
  BY <1>5, FS_CardinalityType
<1> HIDE DEF P, Q, T, f
<1>9. QED
  BY <1>2, <1>5, <1>6, <1>7, <1>8 DEF Sized

\* With a slot more than readers, an awaited segment is never turned away for want
\* of room (ws_live_try_write).
THEOREM RoomForAwaited ==
  ASSUME Sized, IsFiniteSet(Segs), IsFiniteSet(Readers), Cardinality(Readers) < Capacity
  PROVE  Spec => []AwaitedFindsRoom
<1>1. StoreInv => AwaitedFindsRoom
  <2>1. ASSUME StoreInv, NEW s \in Segs, Awaited(s), s \notin present,
               ~(Cardinality(present) < Capacity)
        PROVE  \E v \in present \ {0} : ~Awaited(v)
    <3>1. Cardinality(present) \in Nat /\ Cardinality(present) <= Capacity
      BY <2>1, FS_CardinalityType DEF StoreInv, Bounded
    <3>2. Cardinality(present) = Capacity
      BY <2>1, <3>1 DEF Sized
    <3>3. QED
      BY <2>1, <3>2, SpareResident
  <2>2. QED
    BY <2>1 DEF AwaitedFindsRoom
<1>2. Spec => []StoreInv
  BY StoreHolds
<1>3. QED
  BY <1>1, <1>2, PTL
=============================================================================
