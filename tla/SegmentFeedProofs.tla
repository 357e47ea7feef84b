--------------------------- MODULE SegmentFeedProofs ---------------------------
(***************************************************************************)
(* What a session that implements SegmentFeed is good for, for any readers *)
(* and segments: whatever a reader holds it read from the session it has   *)
(* open, which is the last one begun, and no session begins under it.      *)
(***************************************************************************)
EXTENDS SegmentFeed, TLAPS

\* What a read may have returned, and the types.
Results == {NoOut} \cup {[s \in segs |-> <<g, s>>] : g \in Nat, segs \in SUBSET Segs}

FeedTypes ==
  /\ gen \in Nat /\ (phase # "none" => gen # 0)
  /\ src \in [Readers -> Nat] /\ out \in [Readers -> Results]

\* A reader's session is the last one.
Current == \A r \in Readers : src[r] \in {0, gen}

\* o is what was read of some segments in session g.
BytesOf(o, g) == \E segs \in SUBSET Segs : o = [s \in segs |-> <<g, s>>]

\* What a reader holds are bytes of the session it has open.
OwnBytes ==
  \A r \in Readers :
    out[r] # NoOut => src[r] # 0 /\ BytesOf(out[r], src[r])

\* Complete, the session has every segment.
Whole == complete => landed = Segs

FeedInv == FeedTypes /\ Current /\ OwnBytes /\ Whole

LEMMA ReaderKeeps ==
  ASSUME FeedInv, NEW r \in Readers,
         \/ Open(r) \/ Discard(r) \/ CloseReader(r)
         \/ \E segs \in SUBSET Segs : Read(r, segs)
  PROVE  FeedInv'
<1> USE DEF FeedInv
<1>1. UNCHANGED <<gen, phase, landed, complete>>
  BY DEF Open, Discard, CloseReader, Read
<1>2. CASE Open(r)
  <2>1. out[r] = NoOut /\ UNCHANGED out /\ src' = [src EXCEPT ![r] = gen] /\ gen \in Nat
    BY <1>2 DEF Open, OwnBytes, FeedTypes
  <2>2. QED
    BY <1>1, <2>1 DEF FeedTypes, Current, OwnBytes, Whole
<1>3. CASE Discard(r) \/ CloseReader(r)
  <2>1. /\ out' = [out EXCEPT ![r] = NoOut]
        /\ src' \in {src, [src EXCEPT ![r] = 0]}
    BY <1>3 DEF Discard, CloseReader
  <2>2. FeedTypes' /\ Current'
    BY <1>1, <2>1 DEF FeedTypes, Current, Results
  <2>3. OwnBytes'
    BY <2>1 DEF FeedTypes, OwnBytes
  <2>4. QED
    BY <1>1, <2>2, <2>3 DEF Whole
<1>4. ASSUME NEW segs \in SUBSET Segs, Read(r, segs) PROVE FeedInv'
  <2> DEFINE o == [s \in segs |-> <<gen, s>>]
  <2>1. /\ out' = [out EXCEPT ![r] = o] /\ UNCHANGED src
        /\ src[r] = gen /\ gen # 0 /\ gen \in Nat
    BY <1>4 DEF Read, FeedTypes
  <2>2. o \in Results
    BY <2>1 DEF Results
  <2> HIDE DEF o
  <2>3. FeedTypes'
    BY <1>1, <2>1, <2>2 DEF FeedTypes
  <2>4. OwnBytes'
    <3>1. BytesOf(o, gen)
      BY DEF o, BytesOf
    <3>2. QED
      BY <2>1, <3>1 DEF FeedTypes, OwnBytes
  <2>5. QED
    BY <1>1, <2>1, <2>3, <2>4 DEF Current, Whole
<1>5. QED
  BY <1>2, <1>3, <1>4

LEMMA FeedKeeps ==
  ASSUME FeedInv, [Next]_feedVars
  PROVE  FeedInv'
<1> USE DEF FeedInv
<1>1. CASE Begin
  <2>1. \A r \in Readers : out[r] = NoOut
    BY <1>1 DEF Begin, OwnBytes
  <2>2. QED
    BY <1>1, <2>1 DEF Begin, FeedTypes, Current, OwnBytes, Whole
<1>2. CASE MarkComplete \/ AbortFeed \/ End
  <2>1. UNCHANGED <<gen, src, out>> /\ (phase' # "none" => phase # "none")
    BY <1>2 DEF MarkComplete, AbortFeed, End
  <2>2. Whole'
    BY <1>2 DEF MarkComplete, AbortFeed, End, Whole
  <2>3. QED
    BY <2>1, <2>2 DEF FeedTypes, Current, OwnBytes
<1>3. ASSUME NEW s \in Segs, Land(s) PROVE FeedInv'
  <2>1. UNCHANGED <<gen, phase, src, out>> /\ Whole'
    BY <1>3 DEF Land, Whole
  <2>2. QED
    BY <2>1 DEF FeedTypes, Current, OwnBytes
<1>4. CASE UNCHANGED feedVars
  BY <1>4 DEF feedVars, FeedTypes, Current, OwnBytes, Whole
<1>5. QED
  BY <1>1, <1>2, <1>3, <1>4, ReaderKeeps DEF Next

\* A reader only ever holds bytes of the session it opened, which is the last one
\* begun; a complete session has every segment (ws_live_read, ws_live_finish).
THEOREM FeedHolds == Spec => []FeedInv
<1>1. Init => FeedInv
  BY DEF Init, FeedInv, FeedTypes, Current, OwnBytes, Whole, Results
<1>2. QED
  BY <1>1, FeedKeeps, PTL DEF Spec

\* While a reader has a session open no other one begins, and it is not moved to
\* another one: it keeps it until it closes it (ws_live_create, ws_live_attach).
Stays ==
  \A r \in Readers :
    src[r] # 0 => gen' = gen /\ src'[r] \in {src[r], 0}

ReadersStay == [][Stays]_feedVars

THEOREM NoSessionUnderReader == Spec => ReadersStay
<1>1. FeedInv /\ [Next]_feedVars => [Stays]_feedVars
  BY DEF FeedInv, FeedTypes, Next, Begin, MarkComplete, AbortFeed, End, Land, Open, Read,
         Discard, CloseReader, Stays
<1>2. QED
  BY <1>1, FeedHolds, PTL DEF Spec, ReadersStay
=============================================================================
