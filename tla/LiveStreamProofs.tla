--------------------------- MODULE LiveStreamProofs ---------------------------
(***************************************************************************)
(* Invariance of type correctness, of the slot map, of the session         *)
(* bookkeeping and of the count of waiters of LiveStream, that a demanded  *)
(* segment finds a slot and stays, and that the session implements both    *)
(* SegmentFeed and SegmentStore, for every number of readers, slots and    *)
(* segments.                                                               *)
(***************************************************************************)
EXTENDS LiveStream, FiniteSetTheorems, TLAPS

\* The reader goes to sleep after its seek: nothing but its pc changes.
FallAsleep(r) ==
  /\ pc[r] = "emitting"
  /\ pc' = [pc EXCEPT ![r] = "parked"]
  /\ UNCHANGED <<sessionVars, cacheVars, markVars, waiters, seek_sent,
                 want, src, req, need, out>>

\* The waiter counts a read may leave behind.
Counts(r) == {waiters} \cup (IF pc[r] \in Waiting THEN {Released(r)} ELSE {})

\* The exits of a read, with what holds when they are taken.
Exit(r) ==
  \/ \E w \in Counts(r) : Fail(r, w)
  \/ \E q \in Requests, w \in Counts(r) :
       ~aborted /\ Missing(q) = {} /\ Deliver(r, q, w)
  \/ \E q \in Requests, w \in Counts(r) : \E n \in Missing(q) :
       ~aborted /\ Park(r, q, n, w)
  \/ FallAsleep(r)

\* Any action of ws_live_read is one of its exits.
LEMMA ReadExits ==
  ASSUME NEW r \in Readers, TypeOK, ReadersOK,
         ReaderStep(r) \/ Timeout(r) \/ \E q \in Requests : ReadStart(r, q)
  PROVE  Exit(r) /\ Opened(r) /\ (active \/ pc[r] \in Waiting)
<1>1. CASE \E q \in Requests : ReadStart(r, q)
  BY <1>1 DEF ReadStart, Scan, Exit, Counts, Stopped, Opened
<1>2. CASE Timeout(r)
  BY <1>2 DEF Timeout, Exit, Counts, Opened, Waiting
<1>3. CASE ReaderStep(r)
  <2>1. req[r] \in Requests
    BY <1>3 DEF ReaderStep, SeekReturn, Wake, ReadersOK, Waiting
  <2>2. QED
    BY <1>3, <2>1 DEF ReaderStep, SeekReturn, Wake, Scan, Exit, Counts, Stopped,
                      Opened, Waiting, FallAsleep
<1>4. QED
  BY <1>1, <1>2, <1>3

\* The waiter counts stay counts.
LEMMA ReleasedType ==
  ASSUME NEW r \in Readers, TypeOK, ReadersOK
  PROVE  Counts(r) \subseteq [Segs -> Nat]
<1>1. CASE need[r] \in Segs
  BY <1>1 DEF TypeOK, Counts, Released
<1>2. CASE need[r] \notin Segs
  BY <1>2 DEF TypeOK, ReadersOK, Counts
<1>3. QED
  BY <1>1, <1>2

\* The arrays are typed after they are emptied.
LEMMA EmptyCacheType ==
  ASSUME EmptyCache
  PROVE  /\ present' = {} /\ acked_ever' = {} /\ seek_sent' = {} /\ older' = {}
         /\ slot_of' \in [Segs -> Slots \cup {NoSlot}]
         /\ slot_seg' \in [Slots -> Segs \cup {NoSeg}]
         /\ bytes' \in [Slots -> Tokens \cup {NoBytes}]
         /\ waiters' \in [Segs -> Nat]
  BY DEF EmptyCache

\* The state before any session is well typed.
LEMMA TypeInit == Init => TypeOK
<1>1. NoOut \in Outs
  <2>1. NoOut \in [{} -> Tokens]
    BY DEF NoOut
  <2>2. QED
    BY <2>1 DEF Outs
<1>2. 0 \in Segs /\ 0 \in 0 .. MaxSessions
  BY SizesAssumption DEF Segs
<1>3. SUFFICES ASSUME Init PROVE TypeOK
  OBVIOUS
<1>4. /\ slot_of \in [Segs -> Slots \cup {NoSlot}]
      /\ slot_seg \in [Slots -> Segs \cup {NoSeg}]
      /\ bytes \in [Slots -> Tokens \cup {NoBytes}]
      /\ waiters \in [Segs -> Nat]
  BY <1>3 DEF Init
<1>5. /\ pc \in [Readers -> PCs]
      /\ want \in [Readers -> 0 .. MaxSessions]
      /\ src \in [Readers -> 0 .. MaxSessions]
      /\ req \in [Readers -> Requests \cup {NoReq}]
      /\ need \in [Readers -> Segs \cup {NoSeg}]
      /\ out \in [Readers -> Outs]
  BY <1>1, <1>2, <1>3 DEF Init, PCs
<1>6. QED
  BY <1>2, <1>3, <1>4, <1>5 DEF Init, TypeOK

\* No step of ws_stream.c gives a variable a value outside its C type.
LEMMA TypeNext ==
  ASSUME TypeOK, SlotMapOK, ReadersOK, SessionOK, [Next]_vars
  PROVE  TypeOK'
<1> USE DEF TypeOK
<1> NoOut \in Outs
  <2>1. NoOut \in [{} -> Tokens]
    BY DEF NoOut
  <2>2. QED
    BY <2>1 DEF Outs
<1>1. CASE Create
  <2>1. 0 \in Segs /\ sid' \in 0 .. MaxSessions
    BY <1>1, SizesAssumption DEF Create, Segs
  <2>2. QED
    BY <1>1, <2>1, EmptyCacheType DEF Create, readerVars
<1>2. CASE Finish
  BY <1>2 DEF Finish, cacheVars, markVars, readerVars
<1>3. CASE Abort
  BY <1>3 DEF Abort, cacheVars, markVars, readerVars
<1>4. CASE Destroy
  BY <1>4, EmptyCacheType DEF Destroy, FreeLocked, cacheVars, markVars, readerVars
<1>5. ASSUME NEW seg \in Segs, TryWrite(seg) PROVE TypeOK'
  <2>1. sid \in Sids
    BY <1>5, SizesAssumption DEF TryWrite, Live, SessionOK, Sids
  <2>2. ASSUME NEW i \in Slots, StoreIn(seg, i)
        PROVE  /\ bytes' \in [Slots -> Tokens \cup {NoBytes}]
               /\ acked_ever' \subseteq Segs
               /\ older' \subseteq Slots \X Slots
    BY <2>1, <2>2 DEF StoreIn, Touched, Acked, Tokens
  <2>3. CASE StoreResident(seg)
    BY <1>5, <2>2, <2>3 DEF StoreResident, TryWrite, sessionVars, markVars, readerVars
  <2>4. CASE StoreFree(seg)
    BY <1>5, <2>2, <2>4 DEF StoreFree, FreeSlots, TryWrite, sessionVars, markVars, readerVars
  <2>5. CASE StoreEvict(seg)
    <3>1. PICK s \in Segs : /\ Victim(s, seg)
                            /\ StoreIn(seg, slot_of[s])
                            /\ slot_of' = [slot_of EXCEPT ![s] = NoSlot, ![seg] = slot_of[s]]
                            /\ slot_seg' = [slot_seg EXCEPT ![slot_of[s]] = seg]
                            /\ present' = Evicted(s) \cup {seg}
      BY <2>5 DEF StoreEvict
    <3>2. slot_of[s] \in Slots
      BY <3>1 DEF Victim, Evictable
    <3>3. QED
      BY <1>5, <2>2, <3>1, <3>2 DEF Evicted, TryWrite, sessionVars, markVars, readerVars
  <2>6. QED
    BY <1>5, <2>3, <2>4, <2>5 DEF TryWrite, Store
<1>6. ASSUME NEW s \in Segs, SeekWindowEnds(s) PROVE TypeOK'
  BY <1>6 DEF SeekWindowEnds, sessionVars, cacheVars, markVars, readerVars
<1>7. ASSUME NEW r \in Readers, OpenCheck(r) PROVE TypeOK'
  BY <1>7 DEF OpenCheck, PCs, sessionVars, cacheVars, markVars
<1>8. ASSUME NEW r \in Readers, OpenAttach(r) PROVE TypeOK'
  BY <1>8, SizesAssumption DEF OpenAttach, PCs, cacheVars, markVars
<1>9. ASSUME NEW r \in Readers, Close(r) PROVE TypeOK'
  <2>1. refs' \in Nat
    BY <1>9 DEF Close
  <2>0. 0 \in 0 .. MaxSessions
    BY SizesAssumption
  <2>2. CASE LastOut
    <3>1. FreeLocked
      BY <1>9, <2>2 DEF Close
    <3>2. QED
      BY <1>9, <2>0, <2>1, <3>1, EmptyCacheType DEF Close, FreeLocked, PCs, markVars
  <2>3. CASE ~LastOut
    BY <1>9, <2>0, <2>1, <2>3 DEF Close, PCs, markVars
  <2>4. QED
    BY <2>2, <2>3
<1>10. ASSUME NEW r \in Readers, Exit(r) PROVE TypeOK'
  <2> Counts(r) \subseteq [Segs -> Nat]
    BY ReleasedType
  <2>1. ASSUME NEW w \in Counts(r), Fail(r, w) PROVE TypeOK'
    BY <2>1 DEF Fail, PCs, sessionVars, cacheVars, markVars
  <2>2. ASSUME NEW q \in Requests, NEW w \in Counts(r),
               Missing(q) = {}, Deliver(r, q, w)
        PROVE  TypeOK'
    <3>1. run_hi' \in Nat
      BY <2>2, RequestsAssumption DEF Deliver
    <3>2. \A s \in SegsOf(q) : s \in Segs /\ slot_of[s] \in Slots
      BY <2>2 DEF Missing, SegsOf, SlotMapOK
    <3>3. older' \subseteq Slots \X Slots
      BY <2>2, <3>2 DEF Deliver, TouchedAll
    <3>4. out' \in [Readers -> Outs]
      <4>1. \A s \in SegsOf(q) : bytes[slot_of[s]] \in Tokens
        <5>1. ASSUME NEW s \in SegsOf(q) PROVE bytes[slot_of[s]] = <<sid, s>> /\ s # NoSeg
          BY <2>2, <3>2 DEF Missing, SlotMapOK, Segs, NoSeg
        <5>2. QED
          BY <3>2, <5>1 DEF NoBytes
      <4>2. QED
        BY <2>2, <3>2, <4>1 DEF Deliver, Outs
    <3>5. QED
      BY <2>2, <3>1, <3>3, <3>4 DEF Deliver, PCs, sessionVars
  <2>3. ASSUME NEW q \in Requests, NEW w \in Counts(r), NEW n \in Missing(q),
               Park(r, q, n, w)
        PROVE  TypeOK'
    <3>1. n \in Segs
      BY DEF Missing, SegsOf
    <3>2. QED
      BY <2>3, <3>1 DEF Park, PeakAfter, PCs, sessionVars, cacheVars
  <2>4. CASE FallAsleep(r)
    BY <2>4 DEF FallAsleep, PCs, sessionVars, cacheVars, markVars
  <2>5. QED
    BY <1>10, <2>1, <2>2, <2>3, <2>4 DEF Exit
<1>11. CASE UNCHANGED vars
  BY <1>11 DEF vars, sessionVars, cacheVars, markVars, readerVars
<1>12. QED
  BY <1>1, <1>2, <1>3, <1>4, <1>5, <1>6, <1>7, <1>8, <1>9, <1>10, <1>11, ReadExits DEF Next

-----------------------------------------------------------------------------
(* The slot map. *)

\* Storing seg in slot i, taken from whatever segment held it, keeps the map.
LEMMA SlotTaken ==
  ASSUME TypeOK, SlotMapOK, NEW seg \in Segs, NEW i \in Slots,
         slot_of[seg] = NoSlot, sid' = sid,
         slot_of' \in [Segs -> Slots \cup {NoSlot}],
         \A u \in Segs : slot_of'[u] = IF u = seg THEN i
                                        ELSE IF slot_of[u] = i THEN NoSlot ELSE slot_of[u],
         slot_seg' = [slot_seg EXCEPT ![i] = seg],
         bytes' = [bytes EXCEPT ![i] = <<sid, seg>>],
         \A u \in Segs : u \in present' <=> (u = seg \/ (u \in present /\ slot_of[u] # i)),
         present' \subseteq Segs,
         acked_ever' = acked_ever \cup {seg}
  PROVE  SlotMapOK'
<1> USE DEF SlotMapOK
<1>0. i # NoSlot /\ \A j \in Slots : j # NoSlot
  BY SlotsAssumption
<1>1. \A j \in Slots : slot_seg'[j] = IF j = i THEN seg ELSE slot_seg[j]
  BY DEF TypeOK
<1>2. \A j \in Slots : bytes'[j] = IF j = i THEN <<sid, seg>> ELSE bytes[j]
  BY DEF TypeOK
<1>3. \A u \in Segs : u \in present' <=> slot_of'[u] # NoSlot
  BY <1>0
<1>4. \A u \in present' : slot_seg'[slot_of'[u]] = u /\ bytes'[slot_of'[u]] = <<sid', u>>
  <2> SUFFICES ASSUME NEW u \in present'
               PROVE  slot_seg'[slot_of'[u]] = u /\ bytes'[slot_of'[u]] = <<sid', u>>
    OBVIOUS
  <2>1. CASE u = seg
    BY <1>1, <1>2, <2>1
  <2>2. CASE u # seg
    <3>1. u \in present /\ slot_of[u] # i /\ slot_of'[u] = slot_of[u]
      BY <2>2
    <3>2. slot_of[u] \in Slots
      BY <3>1 DEF TypeOK
    <3>3. QED
      BY <1>1, <1>2, <3>1, <3>2
  <2>3. QED
    BY <2>1, <2>2
<1>5. \A j \in Slots : slot_seg'[j] # NoSeg => slot_of'[slot_seg'[j]] = j
  <2> SUFFICES ASSUME NEW j \in Slots, slot_seg'[j] # NoSeg
               PROVE  slot_of'[slot_seg'[j]] = j
    OBVIOUS
  <2>1. CASE j = i
    BY <1>1, <2>1
  <2>2. CASE j # i
    <3>1. slot_seg[j] \in Segs /\ slot_of[slot_seg[j]] = j /\ slot_seg'[j] = slot_seg[j]
      BY <1>1, <2>2 DEF TypeOK
    <3>2. slot_seg[j] # seg
      BY <1>0, <3>1
    <3>3. QED
      BY <2>2, <3>1, <3>2
  <2>3. QED
    BY <2>1, <2>2
<1>6. present' \subseteq acked_ever'
  BY DEF TypeOK
<1>7. QED
  BY <1>3, <1>4, <1>5, <1>6

\* Only stores, creation and the two ways to free touch the slot map.
LEMMA SlotMapNext ==
  ASSUME TypeOK, SlotMapOK, ReadersOK, SessionOK, [Next]_vars
  PROVE  SlotMapOK'
<1> USE DEF SlotMapOK
<1>e. ASSUME EmptyCache PROVE SlotMapOK'
  BY <1>e DEF EmptyCache
<1>u. ASSUME UNCHANGED <<sid, present, slot_of, slot_seg, bytes, acked_ever>>
      PROVE  SlotMapOK'
  BY <1>u
<1>1. CASE Create
  BY <1>1, <1>e DEF Create
<1>2. CASE Finish \/ Abort
  BY <1>2, <1>u DEF Finish, Abort, cacheVars
<1>3. CASE Destroy
  BY <1>3, <1>e, <1>u DEF Destroy, FreeLocked, cacheVars
<1>4. ASSUME NEW seg \in Segs, TryWrite(seg) PROVE SlotMapOK'
  <2>1. sid' = sid
    BY <1>4 DEF TryWrite, sessionVars
  <2>2. CASE StoreResident(seg)
    <3>1. slot_of[seg] \in Slots /\ seg \in present /\ slot_seg[slot_of[seg]] = seg
      BY <2>2 DEF StoreResident, TypeOK
    <3>2. QED
      BY <2>1, <2>2, <3>1 DEF StoreResident, StoreIn, Acked, TypeOK
  <2>3. CASE StoreFree(seg)
    <3>1. PICK i \in FreeSlots : /\ StoreIn(seg, i)
                                 /\ slot_of' = [slot_of EXCEPT ![seg] = i]
                                 /\ slot_seg' = [slot_seg EXCEPT ![i] = seg]
                                 /\ present' = present \cup {seg}
      BY <2>3 DEF StoreFree
    <3>2. /\ i \in Slots /\ slot_seg[i] = NoSeg /\ i # NoSlot
          /\ seg # NoSeg /\ slot_of[seg] = NoSlot
      BY <2>3, <3>1, SlotsAssumption DEF FreeSlots, Segs, NoSeg, StoreFree
    <3>3. \A s \in Segs : slot_of[s] # i
      BY <3>2 DEF Segs, NoSeg
    <3>4. /\ slot_of' \in [Segs -> Slots \cup {NoSlot}]
          /\ \A u \in Segs : slot_of'[u] = IF u = seg THEN i ELSE slot_of[u]
          /\ present' \subseteq Segs
      BY <3>1, <3>2 DEF TypeOK
    <3>5. /\ \A u \in Segs : u \in present' <=> (u = seg \/ (u \in present /\ slot_of[u] # i))
          /\ \A u \in Segs : slot_of'[u] = IF u = seg THEN i
                                ELSE IF slot_of[u] = i THEN NoSlot ELSE slot_of[u]
      BY <3>1, <3>3, <3>4
    <3>6. /\ slot_seg' = [slot_seg EXCEPT ![i] = seg]
          /\ bytes' = [bytes EXCEPT ![i] = <<sid, seg>>]
          /\ acked_ever' = acked_ever \cup {seg}
      BY <3>1 DEF StoreIn, Acked
    <3>7. QED
      BY <2>1, <3>2, <3>4, <3>5, <3>6, SlotTaken
  <2>4. CASE StoreEvict(seg)
    <3>1. PICK s \in Segs : /\ Victim(s, seg)
                            /\ StoreIn(seg, slot_of[s])
                            /\ slot_of' = [slot_of EXCEPT ![s] = NoSlot, ![seg] = slot_of[s]]
                            /\ slot_seg' = [slot_seg EXCEPT ![slot_of[s]] = seg]
                            /\ present' = Evicted(s) \cup {seg}
      BY <2>4 DEF StoreEvict
    <3>2. /\ s \in present /\ slot_of[s] \in Slots /\ slot_of[s] # NoSlot
          /\ slot_seg[slot_of[s]] = s /\ slot_of[seg] = NoSlot /\ s # seg
      <4>1. s \in present /\ slot_of[s] # NoSlot /\ slot_of[seg] = NoSlot
        BY <2>4, <3>1 DEF Victim, Evictable, Pool, StoreEvict
      <4>2. slot_of[s] \in Slots
        BY <4>1 DEF TypeOK
      <4>3. QED
        BY <4>1, <4>2
    <3>3. \A u \in Segs : u # s => slot_of[u] # slot_of[s]
      BY <3>2
    <3>4. /\ slot_of' \in [Segs -> Slots \cup {NoSlot}]
          /\ \A u \in Segs : slot_of'[u] = IF u = seg THEN slot_of[s]
                                ELSE IF slot_of[u] = slot_of[s] THEN NoSlot ELSE slot_of[u]
          /\ present' \subseteq Segs
      BY <3>1, <3>2, <3>3 DEF TypeOK, Evicted
    <3>5. QED
      BY <2>1, <3>1, <3>2, <3>3, <3>4, SlotTaken DEF StoreIn, Acked, Evicted
  <2>5. QED
    BY <1>4, <2>2, <2>3, <2>4 DEF TryWrite, Store
<1>5. ASSUME NEW s \in Segs, SeekWindowEnds(s) PROVE SlotMapOK'
  BY <1>5, <1>u DEF SeekWindowEnds, sessionVars, cacheVars
<1>6. ASSUME NEW r \in Readers, OpenCheck(r) \/ OpenAttach(r) PROVE SlotMapOK'
  BY <1>6, <1>u DEF OpenCheck, OpenAttach, sessionVars, cacheVars
<1>7. ASSUME NEW r \in Readers, Close(r) PROVE SlotMapOK'
  BY <1>7, <1>e, <1>u DEF Close, FreeLocked
<1>8. ASSUME NEW r \in Readers, Exit(r) PROVE SlotMapOK'
  BY <1>8, <1>u DEF Exit, Fail, Deliver, Park, FallAsleep, sessionVars, cacheVars
<1>9. CASE UNCHANGED vars
  BY <1>9, <1>u DEF vars, sessionVars, cacheVars
<1>10. QED
  BY <1>1, <1>2, <1>3, <1>4, <1>5, <1>6, <1>7, <1>8, <1>9, ReadExits DEF Next

-----------------------------------------------------------------------------
(* The session bookkeeping, the readers and what they read. *)

\* create, destroy and the last detach keep the session flags and the arrays
\* consistent: one of active, free_pending accounts for every allocation.
LEMMA SessionNext ==
  ASSUME TypeOK, ReadersOK, SessionOK, [Next]_vars
  PROVE  SessionOK'
<1> USE DEF SessionOK, Attached
<1>u. ASSUME UNCHANGED sessionVars PROVE SessionOK'
  BY <1>u DEF sessionVars
<1>1. CASE Create
  BY <1>1 DEF Create, TypeOK
<1>2. CASE Finish
  BY <1>2 DEF Finish, Live
<1>3. CASE Abort
  BY <1>3 DEF Abort, Live
<1>4. CASE Destroy
  <2>1. ~active' /\ aborted' /\ ~upload_complete' /\ refs' = refs /\ sid' = sid /\ arrays
    BY <1>4 DEF Destroy
  <2>2. CASE Attached
    <3>1. free_pending' /\ arrays' = arrays
      BY <1>4, <2>2 DEF Destroy
    <3>2. QED
      BY <2>1, <2>2, <3>1
  <2>3. CASE ~Attached
    <3>1. ~free_pending' /\ ~arrays'
      BY <1>4, <2>3 DEF Destroy, FreeLocked
    <3>2. QED
      BY <2>1, <2>3, <3>1
  <2>4. QED
    BY <2>2, <2>3
<1>5. ASSUME NEW seg \in Segs, TryWrite(seg) \/ SeekWindowEnds(seg) PROVE SessionOK'
  BY <1>5, <1>u DEF TryWrite, SeekWindowEnds
<1>6. ASSUME NEW r \in Readers, OpenCheck(r) PROVE SessionOK'
  BY <1>6, <1>u DEF OpenCheck
<1>7. ASSUME NEW r \in Readers, OpenAttach(r) PROVE SessionOK'
  BY <1>7 DEF OpenAttach, TypeOK
<1>8. ASSUME NEW r \in Readers, Close(r) PROVE SessionOK'
  <2>1. refs' \in Nat
    BY <1>8 DEF Close, TypeOK
  <2>2. CASE LastOut
    BY <1>8, <2>1, <2>2 DEF Close, LastOut, FreeLocked
  <2>3. CASE ~LastOut
    <3>1. UNCHANGED <<sid, active, aborted, upload_complete, free_pending, arrays>>
      BY <1>8, <2>3 DEF Close
    <3>2. free_pending => refs' > 0
      BY <2>1, <2>3 DEF LastOut
    <3>3. QED
      BY <3>1, <3>2
  <2>4. QED
    BY <2>2, <2>3
<1>9. ASSUME NEW r \in Readers, Exit(r) PROVE SessionOK'
  BY <1>9, <1>u DEF Exit, Fail, Deliver, Park, FallAsleep, sessionVars
<1>10. CASE UNCHANGED vars
  BY <1>10, <1>u DEF vars
<1>11. QED
  BY <1>1, <1>2, <1>3, <1>4, <1>5, <1>6, <1>7, <1>8, <1>9, <1>10, ReadExits DEF Next

\* A reader with an open stream belongs to the current session, whose arrays
\* exist: create waits for the references to drain, destroy defers the free.
LEMMA ReadersNext ==
  ASSUME TypeOK, SlotMapOK, ReadersOK, SessionOK, RefsExact, [Next]_vars
  PROVE  ReadersOK'
<1> USE DEF ReadersOK, Opened, Waiting
<1>u. ASSUME UNCHANGED <<pc, src, req, need, out, sid>>, arrays => arrays'
      PROVE  ReadersOK'
  BY <1>u
<1>c. refs = 0 => \A r \in Readers : ~Opened(r)
  <2> DEFINE S == {r \in Readers : Opened(r)}
  <2>1. IsFiniteSet(S)
    BY SlotsAssumption, FS_Subset
  <2>2. refs = 0 => S = {}
    BY <2>1, FS_EmptySet DEF RefsExact
  <2>3. QED
    BY <2>2
<1>d. ASSUME NEW r \in Readers, Opened(r), refs - 1 = 0
      PROVE  \A o \in Readers \ {r} : ~Opened(o)
  <2> DEFINE S == {o \in Readers : Opened(o)}
  <2>1. IsFiniteSet(S)
    BY SlotsAssumption, FS_Subset
  <2>2. IsFiniteSet(S \ {r}) /\ Cardinality(S \ {r}) = Cardinality(S) - 1
    BY <1>d, <2>1, FS_RemoveElement
  <2>3. S \ {r} = {}
    BY <1>d, <2>2, FS_EmptySet DEF RefsExact, TypeOK
  <2>4. QED
    BY <2>3
<1>1. CASE Create
  BY <1>1, <1>c DEF Create, Attached, TypeOK, readerVars
<1>2. CASE Finish \/ Abort
  BY <1>2, <1>u DEF Finish, Abort, readerVars
<1>3. CASE Destroy
  BY <1>3, <1>c, <1>u DEF Destroy, FreeLocked, Attached, TypeOK, readerVars
<1>4. ASSUME NEW seg \in Segs, TryWrite(seg) \/ SeekWindowEnds(seg) PROVE ReadersOK'
  BY <1>4, <1>u DEF TryWrite, SeekWindowEnds, sessionVars, readerVars
<1>5. ASSUME NEW r \in Readers, OpenCheck(r) PROVE ReadersOK'
  BY <1>5 DEF OpenCheck, sessionVars, TypeOK
<1>6. ASSUME NEW r \in Readers, OpenAttach(r) PROVE ReadersOK'
  BY <1>6 DEF OpenAttach, SessionOK, TypeOK
<1>7. ASSUME NEW r \in Readers, Close(r) PROVE ReadersOK'
  <2>1. ~Opened(r)' /\ src'[r] = 0 /\ out'[r] = NoOut
    BY <1>7 DEF Close, TypeOK
  <2>2. \A o \in Readers \ {r} : Opened(o)' => arrays'
    <3>1. CASE LastOut
      <4>1. refs' = 0
        BY <3>1 DEF LastOut
      <4>2. \A o \in Readers \ {r} : ~Opened(o)
        <5>1. Opened(r) /\ refs # 0
          BY <1>7, <1>c DEF Close
        <5>2. refs - 1 = 0
          BY <1>7, <4>1, <5>1 DEF Close, TypeOK
        <5>3. QED
          BY <1>d, <5>1, <5>2
      <4>3. QED
        BY <1>7, <4>2 DEF Close, TypeOK
    <3>2. CASE ~LastOut
      BY <1>7, <3>2 DEF Close, TypeOK
    <3>3. QED
      BY <3>1, <3>2
  <2>3. QED
    BY <1>7, <2>1, <2>2 DEF Close, TypeOK
<1>8. ASSUME NEW r \in Readers, Exit(r), Opened(r) PROVE ReadersOK'
  <2>1. ASSUME NEW w \in Counts(r), Fail(r, w) PROVE ReadersOK'
    BY <1>8, <2>1 DEF Fail, sessionVars, TypeOK
  <2>2. ASSUME NEW q \in Requests, NEW w \in Counts(r), Deliver(r, q, w) PROVE ReadersOK'
    BY <1>8, <2>2 DEF Deliver, sessionVars, TypeOK
  <2>3. ASSUME NEW q \in Requests, NEW w \in Counts(r), NEW n \in Missing(q),
               Park(r, q, n, w)
        PROVE  ReadersOK'
    <3>1. n \in Segs
      BY DEF Missing, SegsOf
    <3>2. QED
      BY <1>8, <2>3, <3>1 DEF Park, sessionVars, TypeOK
  <2>4. CASE FallAsleep(r)
    BY <1>8, <2>4 DEF FallAsleep, sessionVars, TypeOK
  <2>5. QED
    BY <1>8, <2>1, <2>2, <2>3, <2>4 DEF Exit
<1>9. CASE UNCHANGED vars
  BY <1>9, <1>u DEF vars, sessionVars, readerVars
<1>10. QED
  BY <1>1, <1>2, <1>3, <1>4, <1>5, <1>6, <1>7, <1>8, <1>9, ReadExits DEF Next

\* Opening and closing a stream move the count by one.
LEMMA RefsNext ==
  ASSUME TypeOK, ReadersOK, SessionOK, RefsExact, [Next]_vars
  PROVE  RefsExact'
<1> DEFINE S == {r \in Readers : Opened(r)}
<1> USE DEF RefsExact
<1>0. IsFiniteSet(S)
  BY SlotsAssumption, FS_Subset
<1>u. ASSUME refs' = refs, \A r \in Readers : Opened(r)' <=> Opened(r)
      PROVE  RefsExact'
  <2>1. S' = S
    BY <1>u
  <2>2. QED
    BY <1>u, <2>1
<1>1. CASE Create
  <2>1. refs' = refs
    BY <1>1 DEF Create, Attached, TypeOK
  <2>2. QED
    BY <1>1, <2>1, <1>u DEF Create, readerVars, Opened
<1>2. CASE Finish \/ Abort
  BY <1>2, <1>u DEF Finish, Abort, readerVars, Opened
<1>3. CASE Destroy
  BY <1>3, <1>u DEF Destroy, readerVars, Opened
<1>4. ASSUME NEW seg \in Segs, TryWrite(seg) \/ SeekWindowEnds(seg) PROVE RefsExact'
  BY <1>4, <1>u DEF TryWrite, SeekWindowEnds, sessionVars, readerVars, Opened
<1>5. ASSUME NEW r \in Readers, OpenCheck(r) PROVE RefsExact'
  BY <1>5, <1>u DEF OpenCheck, sessionVars, TypeOK, Opened
<1>6. ASSUME NEW r \in Readers, OpenAttach(r) PROVE RefsExact'
  <2>1. CASE active
    <3>1. refs' = refs + 1 /\ S' = S \cup {r} /\ r \notin S
      BY <1>6, <2>1 DEF OpenAttach, TypeOK, Opened
    <3>2. Cardinality(S \cup {r}) = Cardinality(S) + 1
      BY <1>0, <3>1, FS_AddElement
    <3>3. QED
      BY <3>1, <3>2
  <2>2. CASE ~active
    BY <1>6, <2>2, <1>u DEF OpenAttach, TypeOK, Opened
  <2>3. QED
    BY <2>1, <2>2
<1>7. ASSUME NEW r \in Readers, Close(r) PROVE RefsExact'
  <2>1. r \in S /\ S' = S \ {r}
    BY <1>7 DEF Close, TypeOK, Opened
  <2>2. Cardinality(S \ {r}) = Cardinality(S) - 1
    BY <1>0, <2>1, FS_RemoveElement
  <2>3. S # {} /\ Cardinality(S) \in Nat
    BY <1>0, <2>1, FS_CardinalityType
  <2>4. refs > 0
    <3>1. Cardinality(S) # 0
      BY <1>0, <2>3, FS_EmptySet
    <3>2. QED
      BY <2>3, <3>1
  <2>5. refs' = refs - 1
    BY <1>7, <2>4 DEF Close
  <2>6. QED
    BY <2>1, <2>2, <2>5
<1>8. ASSUME NEW r \in Readers, Exit(r), Opened(r) PROVE RefsExact'
  BY <1>8, <1>u DEF Exit, Fail, Deliver, Park, FallAsleep, sessionVars, TypeOK, Opened
<1>9. CASE UNCHANGED vars
  BY <1>9, <1>u DEF vars, sessionVars, readerVars, Opened
<1>10. QED
  BY <1>1, <1>2, <1>3, <1>4, <1>5, <1>6, <1>7, <1>8, <1>9, ReadExits DEF Next

\* A read copies what the slot map says, for the session of the reader.
LEMMA IntegrityNext ==
  ASSUME TypeOK, SlotMapOK, ReadersOK, ReadIntegrity, [Next]_vars
  PROVE  ReadIntegrity'
<1> USE DEF ReadIntegrity
<1>u. ASSUME UNCHANGED <<src, out>> PROVE ReadIntegrity'
  BY <1>u
<1>1. CASE Create \/ Finish \/ Abort \/ Destroy
  BY <1>1, <1>u DEF Create, Finish, Abort, Destroy, readerVars
<1>2. ASSUME NEW seg \in Segs, TryWrite(seg) \/ SeekWindowEnds(seg) PROVE ReadIntegrity'
  BY <1>2, <1>u DEF TryWrite, SeekWindowEnds, readerVars
<1>3. ASSUME NEW r \in Readers, OpenCheck(r) PROVE ReadIntegrity'
  BY <1>3, <1>u DEF OpenCheck
<1>4. ASSUME NEW r \in Readers, OpenAttach(r) PROVE ReadIntegrity'
  BY <1>4 DEF OpenAttach, ReadersOK, Opened, NoOut, TypeOK
<1>5. ASSUME NEW r \in Readers, Close(r) PROVE ReadIntegrity'
  BY <1>5 DEF Close, NoOut, TypeOK
<1>6. ASSUME NEW r \in Readers, Exit(r), Opened(r) PROVE ReadIntegrity'
  <2>1. CASE \E w \in Counts(r) : Fail(r, w)
    BY <2>1 DEF Fail, NoOut, TypeOK
  <2>2. ASSUME NEW q \in Requests, NEW w \in Counts(r), Missing(q) = {}, Deliver(r, q, w)
        PROVE  ReadIntegrity'
    <3>1. \A s \in SegsOf(q) : bytes[slot_of[s]] = <<src[r], s>>
      BY <1>6, <2>2 DEF Missing, SlotMapOK, ReadersOK
    <3>2. QED
      BY <2>2, <3>1 DEF Deliver, TypeOK
  <2>3. CASE \E q \in Requests, w \in Counts(r) : \E n \in Missing(q) : Park(r, q, n, w)
    BY <2>3 DEF Park, NoOut, TypeOK
  <2>4. CASE FallAsleep(r)
    BY <2>4, <1>u DEF FallAsleep
  <2>5. QED
    BY <1>6, <2>1, <2>2, <2>3, <2>4 DEF Exit
<1>7. CASE UNCHANGED vars
  BY <1>7, <1>u DEF vars, readerVars
<1>8. QED
  BY <1>1, <1>2, <1>3, <1>4, <1>5, <1>6, <1>7, ReadExits DEF Next

\* finish is the only writer of upload_complete, and it counts first.
LEMMA CompleteNext ==
  ASSUME TypeOK, ReadersOK, SessionOK, CompleteMeansReceived, [Next]_vars
  PROVE  CompleteMeansReceived'
<1> USE DEF CompleteMeansReceived
<1>u. ASSUME UNCHANGED <<upload_complete, acked_ever>> PROVE CompleteMeansReceived'
  BY <1>u
<1>1. CASE Create \/ Finish \/ Abort \/ Destroy
  BY <1>1 DEF Create, Finish, Abort, Destroy, AllAcked, cacheVars
<1>2. ASSUME NEW seg \in Segs, TryWrite(seg) PROVE CompleteMeansReceived'
  <2>1. acked_ever' = acked_ever \cup {seg}
    BY <1>2 DEF TryWrite, Store, StoreResident, StoreFree, StoreEvict, StoreIn, Acked
  <2>2. upload_complete' = upload_complete
    BY <1>2 DEF TryWrite, sessionVars
  <2>3. QED
    BY <2>1, <2>2
<1>3. ASSUME NEW s \in Segs, SeekWindowEnds(s) PROVE CompleteMeansReceived'
  BY <1>3, <1>u DEF SeekWindowEnds, sessionVars, cacheVars
<1>4. ASSUME NEW r \in Readers, OpenCheck(r) \/ OpenAttach(r) PROVE CompleteMeansReceived'
  BY <1>4, <1>u DEF OpenCheck, OpenAttach, sessionVars, cacheVars
<1>5. ASSUME NEW r \in Readers, Close(r) PROVE CompleteMeansReceived'
  BY <1>5 DEF Close, LastOut, SessionOK
<1>6. ASSUME NEW r \in Readers, Exit(r) PROVE CompleteMeansReceived'
  BY <1>6, <1>u DEF Exit, Fail, Deliver, Park, FallAsleep, sessionVars, cacheVars
<1>7. CASE UNCHANGED vars
  BY <1>7, <1>u DEF vars, sessionVars, cacheVars
<1>8. QED
  BY <1>1, <1>2, <1>3, <1>4, <1>5, <1>6, <1>7, ReadExits DEF Next

-----------------------------------------------------------------------------
(* The theorems. *)

\* The inductive invariant holds before any session.
LEMMA InitIInv == Init => IInv
<1> SUFFICES ASSUME Init PROVE IInv
  OBVIOUS
<1>1. TypeOK
  BY TypeInit
<1>2. SlotMapOK /\ SessionOK /\ CompleteMeansReceived
  BY DEF Init, SlotMapOK, SessionOK, CompleteMeansReceived
<1>3. ReadersOK /\ ReadIntegrity
  BY DEF Init, ReadersOK, ReadIntegrity, Waiting, Opened, NoOut
<1>4. RefsExact
  <2>1. {r \in Readers : Opened(r)} = {}
    BY DEF Init, Opened
  <2>2. QED
    BY <2>1, FS_EmptySet DEF Init, RefsExact
<1>5. QED
  BY <1>1, <1>2, <1>3, <1>4 DEF IInv

\* Every step keeps the inductive invariant.
LEMMA NextIInv == IInv /\ [Next]_vars => IInv'
  BY TypeNext, SlotMapNext, SessionNext, ReadersNext, RefsNext, IntegrityNext,
     CompleteNext DEF IInv

\* Every part of the inductive invariant holds in every reachable state.
THEOREM Inductive == Spec => []IInv
  BY InitIInv, NextIInv, PTL DEF Spec

\* The variables keep their types.
THEOREM TypeCorrect == Spec => []TypeOK
<1>1. IInv => TypeOK
  BY DEF IInv
<1>2. QED
  BY <1>1, Inductive, PTL

\* Eviction never breaks the map between segments and slots.
THEOREM SlotMapCorrect == Spec => []SlotMapOK
<1>1. IInv => SlotMapOK
  BY DEF IInv
<1>2. QED
  BY <1>1, Inductive, PTL

\* A read returns the bytes uploaded in the session the reader attached to.
THEOREM ReadsAreExact == Spec => []ReadIntegrity
<1>1. IInv => ReadIntegrity
  BY DEF IInv
<1>2. QED
  BY <1>1, Inductive, PTL

\* No reader runs on freed arrays and none are leaked.
THEOREM MemoryIsSafe == Spec => []MemorySafe
<1>1. IInv => MemorySafe
  BY DEF IInv, MemorySafe, ReadersOK, SessionOK, Opened, Waiting, Attached
<1>2. QED
  BY <1>1, Inductive, PTL

\* The reference count is exact.
THEOREM RefsAreExact == Spec => []RefsExact
<1>1. IInv => RefsExact
  BY DEF IInv
<1>2. QED
  BY <1>1, Inductive, PTL

\* Byte-complete is only ever claimed of a wholly received file.
THEOREM CompleteIsReceived == Spec => []CompleteMeansReceived
<1>1. IInv => CompleteMeansReceived
  BY DEF IInv
<1>2. QED
  BY <1>1, Inductive, PTL

-----------------------------------------------------------------------------
(* The waiter counts, and the promise to whoever waits. *)

\* The waiter counts once r does not wait any more.
Left(r) == IF pc[r] \in Waiting THEN Released(r) ELSE waiters

\* The exits of a read, each with the counts it leaves behind.
Step(r) ==
  \/ Fail(r, Left(r))
  \/ \E q \in Requests : Deliver(r, q, Left(r))
  \/ \E q \in Requests : \E n \in Missing(q) : Park(r, q, n, Left(r))
  \/ FallAsleep(r)

\* A read counts itself out before it returns or parks anew.
LEMMA ReadSteps ==
  ASSUME NEW r \in Readers, TypeOK, ReadersOK,
         ReaderStep(r) \/ Timeout(r) \/ \E q \in Requests : ReadStart(r, q)
  PROVE  Step(r)
<1>1. CASE \E q \in Requests : ReadStart(r, q)
  BY <1>1 DEF ReadStart, Scan, Step, Left, Waiting
<1>2. CASE Timeout(r)
  BY <1>2 DEF Timeout, Step, Left, Waiting
<1>3. CASE ReaderStep(r)
  <2>1. req[r] \in Requests
    BY <1>3 DEF ReaderStep, SeekReturn, Wake, ReadersOK, Waiting
  <2>2. QED
    BY <1>3, <2>1 DEF ReaderStep, SeekReturn, Wake, Scan, Step, Left, Waiting, FallAsleep
<1>4. QED
  BY <1>1, <1>2, <1>3

\* The readers that wait on a segment are finitely many.
LEMMA WaitingFinite ==
  ASSUME NEW s
  PROVE  IsFiniteSet(WaitingOn(s)) /\ Cardinality(WaitingOn(s)) \in Nat
<1>1. IsFiniteSet(WaitingOn(s))
  BY SlotsAssumption, FS_Subset DEF WaitingOn
<1>2. QED
  BY <1>1, FS_CardinalityType

\* Without r, the counts are those of the other readers.
LEMMA LeftCounts ==
  ASSUME NEW r \in Readers, TypeOK, ReadersOK, WaitersExact, active
  PROVE  /\ Left(r) \in [Segs -> Nat]
         /\ \A s \in Segs : Left(r)[s] = Cardinality(WaitingOn(s) \ {r})
<1>1. CASE pc[r] \notin Waiting
  <2>1. Left(r) = waiters
    BY <1>1 DEF Left
  <2>2. \A s \in Segs : WaitingOn(s) \ {r} = WaitingOn(s)
    BY <1>1 DEF WaitingOn
  <2>3. QED
    BY <2>1, <2>2 DEF TypeOK, WaitersExact
<1>2. CASE pc[r] \in Waiting
  <2>1. need[r] \in Segs /\ r \in WaitingOn(need[r])
    BY <1>2 DEF ReadersOK, WaitingOn
  <2>2. waiters[need[r]] > 0
    <3>1. Cardinality(WaitingOn(need[r])) # 0
      BY <2>1, WaitingFinite, FS_EmptySet
    <3>2. QED
      BY <2>1, <3>1, WaitingFinite DEF WaitersExact
  <2>3. Left(r) = [waiters EXCEPT ![need[r]] = @ - 1]
    BY <1>2, <2>2 DEF Left, Released
  <2>4. Left(r) \in [Segs -> Nat]
    BY <2>1, <2>2, <2>3 DEF TypeOK
  <2>5. ASSUME NEW s \in Segs PROVE Left(r)[s] = Cardinality(WaitingOn(s) \ {r})
    <3>1. CASE s = need[r]
      <4>1. Cardinality(WaitingOn(s) \ {r}) = Cardinality(WaitingOn(s)) - 1
        BY <2>1, <3>1, WaitingFinite, FS_RemoveElement
      <4>2. QED
        BY <2>3, <3>1, <4>1 DEF TypeOK, WaitersExact
    <3>2. CASE s # need[r]
      <4>1. WaitingOn(s) \ {r} = WaitingOn(s)
        BY <3>2 DEF WaitingOn
      <4>2. QED
        BY <2>3, <3>2, <4>1 DEF TypeOK, WaitersExact
    <3>3. QED
      BY <3>1, <3>2
  <2>6. QED
    BY <2>4, <2>5
<1>3. QED
  BY <1>1, <1>2

\* A park counts one in, an exit one out, and a new session starts with
\* nobody: creation waits for the last reader of the old one.
LEMMA WaitersNext ==
  ASSUME IInv, WaitersExact, [Next]_vars
  PROVE  WaitersExact'
<1> USE DEF IInv
<1>u. ASSUME waiters' = waiters, active' => active,
             \A r \in Readers : need'[r] = need[r],
             \A r \in Readers : pc'[r] \in Waiting <=> pc[r] \in Waiting
      PROVE  WaitersExact'
  <2>1. \A s \in Segs : WaitingOn(s)' = WaitingOn(s)
    BY <1>u DEF WaitingOn
  <2>2. QED
    BY <1>u, <2>1 DEF WaitersExact
<1>1. CASE Create
  <2>1. \A r \in Readers : ~Opened(r)
    <3>1. Cardinality({r \in Readers : Opened(r)}) = 0
      BY <1>1 DEF Create, Attached, RefsExact, TypeOK
    <3>2. IsFiniteSet({r \in Readers : Opened(r)})
      BY SlotsAssumption, FS_Subset
    <3>3. QED
      BY <3>1, <3>2, FS_EmptySet
  <2>2. \A s \in Segs : WaitingOn(s)' = {}
    BY <1>1, <2>1 DEF Create, readerVars, WaitingOn, Opened, Waiting
  <2>3. \A s \in Segs : waiters'[s] = 0
    BY <1>1 DEF Create, EmptyCache
  <2>4. QED
    BY <2>2, <2>3, FS_EmptySet DEF WaitersExact
<1>2. CASE Finish \/ Abort
  BY <1>2, <1>u DEF Finish, Abort, readerVars
<1>3. CASE Destroy
  BY <1>3 DEF Destroy, WaitersExact
<1>4. ASSUME NEW seg \in Segs, TryWrite(seg) \/ SeekWindowEnds(seg) PROVE WaitersExact'
  BY <1>4, <1>u DEF TryWrite, SeekWindowEnds, sessionVars, readerVars
<1>5. ASSUME NEW r \in Readers, OpenCheck(r) \/ OpenAttach(r) PROVE WaitersExact'
  BY <1>5, <1>u DEF OpenCheck, OpenAttach, sessionVars, TypeOK, Waiting
<1>6. ASSUME NEW r \in Readers, Close(r) PROVE WaitersExact'
  <2>1. CASE active
    <3>1. waiters' = waiters
      BY <1>6, <2>1 DEF Close, LastOut, SessionOK
    <3>2. QED
      BY <1>6, <3>1, <1>u DEF Close, TypeOK, Waiting
  <2>2. CASE ~active
    BY <1>6, <2>2 DEF Close, WaitersExact
  <2>3. QED
    BY <2>1, <2>2
<1>7. ASSUME NEW r \in Readers, Step(r) PROVE WaitersExact'
  <2> SUFFICES ASSUME active, NEW s \in Segs
               PROVE  waiters'[s] = Cardinality(WaitingOn(s)')
    BY <1>7 DEF WaitersExact, Step, Fail, Deliver, Park, FallAsleep, sessionVars
  <2>1. Left(r) \in [Segs -> Nat] /\ Left(r)[s] = Cardinality(WaitingOn(s) \ {r})
    BY LeftCounts
  <2>2. CASE Fail(r, Left(r)) \/ \E q \in Requests : Deliver(r, q, Left(r))
    <3>1. WaitingOn(s)' = WaitingOn(s) \ {r}
      BY <2>2 DEF Fail, Deliver, WaitingOn, Waiting, TypeOK
    <3>2. waiters' = Left(r)
      BY <2>2 DEF Fail, Deliver
    <3>3. QED
      BY <2>1, <3>1, <3>2
  <2>3. ASSUME NEW q \in Requests, NEW n \in Missing(q), Park(r, q, n, Left(r))
        PROVE  waiters'[s] = Cardinality(WaitingOn(s)')
    <3>1. n \in Segs /\ waiters' = [Left(r) EXCEPT ![n] = @ + 1]
      BY <2>3 DEF Park, Missing, SegsOf
    <3>2. pc' = [pc EXCEPT ![r] = pc'[r]] /\ pc'[r] \in Waiting
      BY <2>3 DEF Park, Waiting, TypeOK
    <3>3. need' = [need EXCEPT ![r] = n]
      BY <2>3 DEF Park
    <3>4. CASE s = n
      <4>1. WaitingOn(s)' = (WaitingOn(s) \ {r}) \cup {r}
        BY <3>2, <3>3, <3>4 DEF WaitingOn, TypeOK
      <4>2. IsFiniteSet(WaitingOn(s) \ {r})
        BY WaitingFinite, FS_RemoveElement
      <4>3. Cardinality(WaitingOn(s)') = Cardinality(WaitingOn(s) \ {r}) + 1
        BY <4>1, <4>2, FS_AddElement
      <4>4. QED
        BY <2>1, <3>1, <3>4, <4>3
    <3>5. CASE s # n
      <4>1. WaitingOn(s)' = WaitingOn(s) \ {r}
        BY <3>2, <3>3, <3>5 DEF WaitingOn, TypeOK
      <4>2. QED
        BY <2>1, <3>1, <3>5, <4>1
    <3>6. QED
      BY <3>4, <3>5
  <2>4. CASE FallAsleep(r)
    <3>1. WaitingOn(s)' = WaitingOn(s)
      BY <2>4 DEF FallAsleep, WaitingOn, Waiting, TypeOK
    <3>2. QED
      BY <2>4, <3>1 DEF FallAsleep, WaitersExact
  <2>5. QED
    BY <1>7, <2>2, <2>3, <2>4 DEF Step
<1>8. CASE UNCHANGED vars
  BY <1>8, <1>u DEF vars, sessionVars, readerVars
<1>9. QED
  BY <1>1, <1>2, <1>3, <1>4, <1>5, <1>6, <1>7, <1>8, ReadSteps DEF Next

\* While a session is active, its waiter counts are exact.
THEOREM WaitersAreExact == Spec => []WaitersExact
<1>1. Init => WaitersExact
  BY DEF Init, WaitersExact
<1>2. QED
  BY <1>1, Inductive, WaitersNext, PTL DEF Spec

\* A reader that waits is counted.
LEMMA Counted ==
  ASSUME NEW r \in Readers, pc[r] \in Waiting, active, ReadersOK, WaitersExact
  PROVE  need[r] \in Segs /\ waiters[need[r]] > 0
<1>1. need[r] \in Segs /\ r \in WaitingOn(need[r])
  BY DEF ReadersOK, WaitingOn
<1>2. Cardinality(WaitingOn(need[r])) # 0
  BY <1>1, WaitingFinite, FS_EmptySet
<1>3. QED
  BY <1>1, <1>2, WaitingFinite DEF WaitersExact

\* Slots that no eviction may touch each have a reader of their own: fewer
\* readers than slots leave one that may go.
LEMMA SlotForWaited ==
  ASSUME IInv, WaitersExact, Live, Cardinality(Readers) < Cardinality(Slots),
         NEW r \in Readers, pc[r] \in Waiting
  PROVE  Storable(need[r])
<1> USE DEF IInv
<1> SUFFICES ASSUME slot_of[need[r]] = NoSlot, FreeSlots = {},
                    \A s \in Segs : ~Evictable(s, need[r])
             PROVE  FALSE
  BY DEF Storable
<1>1. need[r] \in Segs /\ Urgent(need[r])
  BY Counted DEF Live, Urgent
<1>2. \A i \in Slots : slot_seg[i] \in present /\ slot_of[slot_seg[i]] = i
  BY SlotsAssumption DEF FreeSlots, TypeOK, SlotMapOK
<1>3. \A i \in Slots : slot_seg[i] = 0 \/ waiters[slot_seg[i]] > 0
  BY <1>1, <1>2, SlotsAssumption DEF Evictable, Pool, Awaited, SlotMapOK, TypeOK
<1>4. \A i \in Slots : slot_seg[i] # 0 => WaitingOn(slot_seg[i]) # {}
  <2> TAKE i \in Slots
  <2> HAVE slot_seg[i] # 0
  <2>1. slot_seg[i] \in Segs /\ waiters[slot_seg[i]] > 0
    BY <1>2, <1>3 DEF TypeOK
  <2>2. Cardinality(WaitingOn(slot_seg[i])) > 0
    BY <2>1 DEF WaitersExact, Live
  <2>3. QED
    BY <2>2, FS_EmptySet
<1> DEFINE Guard(i) == IF slot_seg[i] = 0 THEN r ELSE CHOOSE x \in WaitingOn(slot_seg[i]) : TRUE
           f == [i \in Slots |-> Guard(i)]
<1>5. \A i \in Slots : /\ f[i] \in Readers
                       /\ slot_seg[i] # 0 => need[f[i]] = slot_seg[i]
                       /\ slot_seg[i] = 0 => f[i] = r
  BY <1>4 DEF WaitingOn
<1>6. need[r] \notin present
  BY <1>1 DEF SlotMapOK
<1>7. \A i, j \in Slots : f[i] = f[j] => i = j
  BY <1>2, <1>5, <1>6
<1>8. f \in [Slots -> Readers]
  BY <1>5
<1>9. \E i, j \in Slots : i # j /\ f[i] = f[j]
  <2> HIDE DEF f
  <2>1. QED
    BY <1>8, SlotsAssumption, FS_PigeonHole
<1>10. QED
  BY <1>7, <1>9

\* With fewer readers than slots a demanded segment is never refused.
THEOREM WaitedIsStored == Spec => []WaitedWriteNeverBusy
<1>1. IInv /\ WaitersExact => WaitedWriteNeverBusy
  BY SlotForWaited DEF WaitedWriteNeverBusy
<1>2. QED
  BY <1>1, Inductive, WaitersAreExact, PTL

\* What landed for a reader is there when it wakes: an eviction spares it, a
\* session that ends keeps it as long as the reader is attached.
THEOREM LandedStays == Spec => AwaitedSegmentStays
<1>1. ASSUME IInv, WaitersExact, [Next]_vars, NEW r \in Readers,
             pc[r] \in Waiting, need[r] \in present,
             pc'[r] \in Waiting, need'[r] = need[r]
      PROVE  need[r] \in present'
  <2> USE <1>1 DEF IInv
  <2>u. ASSUME present' = present PROVE need[r] \in present'
    BY <2>u
  <2>1. refs > 0
    <3>1. IsFiniteSet({x \in Readers : Opened(x)}) /\ r \in {x \in Readers : Opened(x)}
      BY SlotsAssumption, FS_Subset DEF Opened, Waiting
    <3>2. Cardinality({x \in Readers : Opened(x)}) # 0
      BY <3>1, FS_EmptySet
    <3>3. QED
      BY <3>2 DEF RefsExact, TypeOK
  <2>2. CASE Create \/ Destroy
    BY <2>1, <2>2, <2>u DEF Create, Destroy, Attached, cacheVars
  <2>3. CASE Finish \/ Abort
    BY <2>3, <2>u DEF Finish, Abort, cacheVars
  <2>4. ASSUME NEW seg \in Segs, TryWrite(seg) PROVE need[r] \in present'
    <3>1. need[r] \in Segs /\ waiters[need[r]] > 0
      BY <2>4, Counted DEF TryWrite, Live
    <3>2. QED
      BY <2>4, <3>1 DEF TryWrite, Store, StoreResident, StoreFree, StoreEvict, Victim,
                        Evictable, Awaited, Evicted
  <2>5. ASSUME NEW s \in Segs, SeekWindowEnds(s) PROVE need[r] \in present'
    BY <2>5, <2>u DEF SeekWindowEnds, cacheVars
  <2>6. ASSUME NEW x \in Readers, OpenCheck(x) \/ OpenAttach(x) PROVE need[r] \in present'
    BY <2>6, <2>u DEF OpenCheck, OpenAttach, cacheVars
  <2>7. ASSUME NEW x \in Readers, Close(x) PROVE need[r] \in present'
    <3> DEFINE S == {y \in Readers : Opened(y)}
    <3>1. x # r
      BY <2>7 DEF Close, Waiting
    <3>2. IsFiniteSet(S) /\ x \in S /\ r \in S \ {x}
      BY <2>7, <3>1, SlotsAssumption, FS_Subset DEF Close, Opened, Waiting
    <3>3. Cardinality(S \ {x}) = Cardinality(S) - 1 /\ IsFiniteSet(S \ {x})
      BY <3>2, FS_RemoveElement
    <3>4. Cardinality(S \ {x}) # 0
      BY <3>2, <3>3, FS_EmptySet
    <3>5. refs' # 0
      BY <2>1, <2>7, <3>3, <3>4 DEF Close, RefsExact, TypeOK
    <3>6. QED
      BY <2>7, <3>5, <2>u DEF Close, LastOut
  <2>8. ASSUME NEW x \in Readers, Step(x) PROVE need[r] \in present'
    BY <2>8, <2>u DEF Step, Fail, Deliver, Park, FallAsleep, cacheVars
  <2>9. CASE UNCHANGED vars
    BY <2>9, <2>u DEF vars, cacheVars
  <2>10. QED
    BY <2>2, <2>3, <2>4, <2>5, <2>6, <2>7, <2>8, <2>9, ReadSteps DEF Next
<1>2. IInv /\ WaitersExact /\ [Next]_vars
      => [\A r \in Readers :
            /\ pc[r] \in Waiting /\ need[r] \in present
            /\ pc'[r] \in Waiting /\ need'[r] = need[r]
            => need[r] \in present']_vars
  BY <1>1
<1>3. QED
  BY <1>2, Inductive, WaitersAreExact, PTL DEF Spec, AwaitedSegmentStays

-----------------------------------------------------------------------------
(* What a step may never do. *)

\* The pinned header is not evicted, in any mode and under any pressure.
THEOREM HeaderStays == Spec => HeaderPinned
<1>1. ASSUME IInv, [Next]_vars, 0 \in present, arrays', sid' = sid
      PROVE  0 \in present'
  <2>u. ASSUME present' = present PROVE 0 \in present'
    BY <1>1, <2>u
  <2>1. CASE Create
    BY <1>1, <2>1 DEF Create, IInv, TypeOK
  <2>2. CASE Finish \/ Abort \/ Destroy
    BY <1>1, <2>2, <2>u DEF Finish, Abort, Destroy, FreeLocked, cacheVars
  <2>3. ASSUME NEW seg \in Segs, TryWrite(seg) PROVE 0 \in present'
    BY <1>1, <2>3 DEF TryWrite, Store, StoreResident, StoreFree, StoreEvict, Victim,
                      Evictable, Pool, Evicted
  <2>4. ASSUME NEW s \in Segs, SeekWindowEnds(s) PROVE 0 \in present'
    BY <2>4, <2>u DEF SeekWindowEnds, cacheVars
  <2>5. ASSUME NEW r \in Readers, OpenCheck(r) \/ OpenAttach(r) \/ Close(r) PROVE 0 \in present'
    BY <1>1, <2>5, <2>u DEF OpenCheck, OpenAttach, Close, FreeLocked, cacheVars
  <2>6. ASSUME NEW r \in Readers, Exit(r) PROVE 0 \in present'
    BY <2>6, <2>u DEF Exit, Fail, Deliver, Park, FallAsleep, cacheVars
  <2>7. CASE UNCHANGED vars
    BY <2>7, <2>u DEF vars, cacheVars
  <2>8. QED
    BY <1>1, <2>1, <2>2, <2>3, <2>4, <2>5, <2>6, <2>7, ReadExits DEF Next, IInv
<1>2. IInv /\ [Next]_vars => [0 \in present /\ arrays' /\ sid' = sid => 0 \in present']_vars
  BY <1>1
<1>3. QED
  BY <1>2, Inductive, PTL DEF Spec, HeaderPinned

\* What a reconnecting browser is told it need not send again stays received.
THEOREM ReceivedGrows == Spec => ReceivedOnlyGrows
<1>1. ASSUME IInv, [Next]_vars, active, active'
      PROVE  acked_ever \subseteq acked_ever'
  <2>u. ASSUME acked_ever' = acked_ever PROVE acked_ever \subseteq acked_ever'
    BY <2>u
  <2>1. CASE Create \/ Destroy
    BY <1>1, <2>1 DEF Create, Destroy
  <2>2. CASE Finish \/ Abort
    BY <2>2, <2>u DEF Finish, Abort, cacheVars
  <2>3. ASSUME NEW seg \in Segs, TryWrite(seg) PROVE acked_ever \subseteq acked_ever'
    BY <2>3 DEF TryWrite, Store, StoreResident, StoreFree, StoreEvict, StoreIn, Acked
  <2>4. ASSUME NEW s \in Segs, SeekWindowEnds(s) PROVE acked_ever \subseteq acked_ever'
    BY <2>4, <2>u DEF SeekWindowEnds, cacheVars
  <2>5. ASSUME NEW r \in Readers, OpenCheck(r) \/ OpenAttach(r)
        PROVE  acked_ever \subseteq acked_ever'
    BY <2>5, <2>u DEF OpenCheck, OpenAttach, cacheVars
  <2>6. ASSUME NEW r \in Readers, Close(r) PROVE acked_ever \subseteq acked_ever'
    BY <1>1, <2>6, <2>u DEF Close, LastOut, IInv, SessionOK
  <2>7. ASSUME NEW r \in Readers, Exit(r) PROVE acked_ever \subseteq acked_ever'
    BY <2>7, <2>u DEF Exit, Fail, Deliver, Park, FallAsleep, cacheVars
  <2>8. CASE UNCHANGED vars
    BY <2>8, <2>u DEF vars, cacheVars
  <2>9. QED
    BY <1>1, <2>1, <2>2, <2>3, <2>4, <2>5, <2>6, <2>7, <2>8, ReadExits DEF Next, IInv
<1>2. IInv /\ [Next]_vars => [active /\ active' => acked_ever \subseteq acked_ever']_vars
  BY <1>1
<1>3. QED
  BY <1>2, Inductive, PTL DEF Spec, ReceivedOnlyGrows

-----------------------------------------------------------------------------
(* The session implements the feed. *)

\* No session yet: the feed is empty.
LEMMA FeedInit == Init => Feed!Init
  BY DEF Init, Feed!Init

\* A step whose image leaves every variable of the feed alone.
LEMMA FeedStutter ==
  ASSUME UNCHANGED <<sid, active, aborted, upload_complete, src, out>>,
         active => acked_ever' = acked_ever
  PROVE  UNCHANGED Feed!feedVars
  BY DEF Feed!feedVars

\* Every step of the session is a step of the feed or leaves it alone.
LEMMA FeedNext ==
  ASSUME IInv, [Next]_vars
  PROVE  [Feed!Next]_(Feed!feedVars)
<1> USE DEF IInv
<1>1. CASE Create
  <2>1. ~active /\ active' /\ ~aborted' /\ ~upload_complete' /\ sid' = sid + 1
    BY <1>1 DEF Create
  <2>2. acked_ever' = {} /\ UNCHANGED <<src, out>>
    BY <1>1 DEF Create, EmptyCache, readerVars
  <2>3. \A r \in Readers : src[r] = 0
    <3>1. ~arrays
      BY <1>1 DEF Create, SessionOK
    <3>2. QED
      BY <3>1 DEF ReadersOK
  <2>4. Feed!Begin
    BY <2>1, <2>2, <2>3 DEF Feed!Begin
  <2>5. QED
    BY <2>4 DEF Feed!Next
<1>2. CASE Finish
  <2>1. Feed!MarkComplete
    BY <1>2 DEF Finish, Live, AllAcked, cacheVars, readerVars, Feed!MarkComplete
  <2>2. QED
    BY <2>1 DEF Feed!Next
<1>3. CASE Abort
  <2>1. Feed!AbortFeed
    BY <1>3 DEF Abort, Live, cacheVars, readerVars, Feed!AbortFeed
  <2>2. QED
    BY <2>1 DEF Feed!Next
<1>4. CASE Destroy
  <2>1. Feed!End
    BY <1>4 DEF Destroy, readerVars, Feed!End
  <2>2. QED
    BY <2>1 DEF Feed!Next
<1>5. ASSUME NEW seg \in Segs, TryWrite(seg) PROVE Feed!Next
  <2>1. acked_ever' = acked_ever \cup {seg}
    BY <1>5 DEF TryWrite, Store, StoreResident, StoreFree, StoreEvict, StoreIn, Acked
  <2>2. Feed!Land(seg)
    BY <1>5, <2>1 DEF TryWrite, Live, sessionVars, readerVars, Feed!Land
  <2>3. QED
    BY <2>2 DEF Feed!Next
<1>6. ASSUME NEW s \in Segs, SeekWindowEnds(s) PROVE UNCHANGED Feed!feedVars
  BY <1>6, FeedStutter DEF SeekWindowEnds, sessionVars, cacheVars, readerVars
<1>7. ASSUME NEW r \in Readers, OpenCheck(r) PROVE UNCHANGED Feed!feedVars
  BY <1>7, FeedStutter DEF OpenCheck, sessionVars, cacheVars
<1>8. ASSUME NEW r \in Readers, OpenAttach(r) PROVE [Feed!Next]_(Feed!feedVars)
  <2>1. CASE active
    <3>1. src[r] = 0
      BY <1>8 DEF OpenAttach, ReadersOK, Opened
    <3>2. Feed!Open(r)
      BY <1>8, <2>1, <3>1 DEF OpenAttach, cacheVars, Feed!Open
    <3>3. QED
      BY <3>2 DEF Feed!Next
  <2>2. CASE ~active
    BY <1>8, <2>2, FeedStutter DEF OpenAttach, cacheVars
  <2>3. QED
    BY <2>1, <2>2
<1>9. ASSUME NEW r \in Readers, Close(r) PROVE Feed!Next
  <2>1. src[r] # 0
    BY <1>9 DEF Close, ReadersOK, Opened, SessionOK
  <2>2. active => acked_ever' = acked_ever
    BY <1>9 DEF Close, LastOut, SessionOK
  <2>3. Feed!CloseReader(r)
    BY <1>9, <2>1, <2>2 DEF Close, Feed!CloseReader
  <2>4. QED
    BY <2>3 DEF Feed!Next
<1>10. ASSUME NEW r \in Readers, Exit(r), Opened(r), active \/ pc[r] \in Waiting
       PROVE  [Feed!Next]_(Feed!feedVars)
  <2>1. CASE (\E w \in Counts(r) : Fail(r, w))
             \/ (\E q \in Requests, w \in Counts(r) : \E n \in Missing(q) :
                   ~aborted /\ Park(r, q, n, w))
    <3>1. Feed!Discard(r)
      BY <2>1 DEF Fail, Park, sessionVars, cacheVars, Feed!Discard
    <3>2. QED
      BY <3>1 DEF Feed!Next
  <2>2. ASSUME NEW q \in Requests, NEW w \in Counts(r),
               ~aborted, Missing(q) = {}, Deliver(r, q, w)
        PROVE  Feed!Next
    <3>1. active /\ src[r] = sid
      BY <1>10, <2>2 DEF ReadersOK, SessionOK, Opened, Waiting
    <3>2. /\ SegsOf(q) \in SUBSET Segs
          /\ SegsOf(q) \subseteq acked_ever
          /\ \A s \in SegsOf(q) : bytes[slot_of[s]] = <<sid, s>>
      BY <2>2 DEF Missing, SegsOf, SlotMapOK
    <3>3. out' = [out EXCEPT ![r] = [s \in SegsOf(q) |-> <<sid, s>>]]
      BY <2>2, <3>2 DEF Deliver
    <3>4. Feed!Read(r, SegsOf(q))
      BY <2>2, <3>1, <3>2, <3>3 DEF Deliver, sessionVars, Feed!Read
    <3>5. QED
      BY <3>2, <3>4 DEF Feed!Next
  <2>3. CASE FallAsleep(r)
    BY <2>3, FeedStutter DEF FallAsleep, sessionVars, cacheVars
  <2>4. QED
    BY <1>10, <2>1, <2>2, <2>3 DEF Exit
<1>11. CASE UNCHANGED vars
  BY <1>11, FeedStutter DEF vars, sessionVars, cacheVars, readerVars
<1>12. QED
  BY <1>1, <1>2, <1>3, <1>4, <1>5, <1>6, <1>7, <1>8, <1>9, <1>10, <1>11, ReadExits DEF Next

\* With slots, eviction, waits and seeks hidden, the session is a feed.
THEOREM Implementation == Spec => ImplementsFeed
  BY FeedInit, FeedNext, Inductive, PTL DEF Spec, ImplementsFeed, Feed!Spec

(* What the feed is proved to promise holds of the session. *)
Promise == INSTANCE SegmentFeedProofs WITH
  gen <- sid,
  phase <- IF ~active THEN "none" ELSE IF aborted THEN "aborted" ELSE "live",
  landed <- IF active THEN acked_ever ELSE {},
  complete <- upload_complete

\* The feed of the proofs is the one above.
LEMMA PromiseIsFeed == Feed!Spec => Promise!Spec
<1>1. Feed!Init => Promise!Init
  BY DEF Feed!Init, Promise!Init
<1>2. [Feed!Next]_(Feed!feedVars) => [Promise!Next]_(Promise!feedVars)
  BY DEF Feed!Next, Feed!feedVars, Feed!Begin, Feed!MarkComplete, Feed!AbortFeed, Feed!End,
     Feed!Land, Feed!Open, Feed!Discard, Feed!CloseReader, Feed!Read, Promise!Next,
     Promise!feedVars, Promise!Begin, Promise!MarkComplete, Promise!AbortFeed, Promise!End,
     Promise!Land, Promise!Open, Promise!Discard, Promise!CloseReader, Promise!Read
<1>3. QED
  BY <1>1, <1>2, PTL DEF Feed!Spec, Promise!Spec

\* While a reader has a session open, no other one is created and the reader is not
\* moved to another one, whoever aborts, destroys and creates (ws_live_create,
\* ws_live_attach).
THEOREM NoSessionUnderStream ==
  Spec => [][\A r \in Readers : src[r] # 0 => sid' = sid /\ src'[r] \in {src[r], 0}]_vars
<1> DEFINE Keeps == \A r \in Readers : src[r] # 0 => sid' = sid /\ src'[r] \in {src[r], 0}
<1>1. Promise!Stays <=> Keeps
  BY DEF Promise!Stays
<1>2. [Keeps]_(Promise!feedVars) => [Keeps]_vars
  BY DEF Promise!feedVars, vars, sessionVars, cacheVars, readerVars
<1>3. Promise!Spec => Promise!ReadersStay
  BY Promise!NoSessionUnderReader
<1>4. QED
  BY <1>1, <1>2, <1>3, Implementation, PromiseIsFeed, PTL
     DEF ImplementsFeed, Promise!ReadersStay

-----------------------------------------------------------------------------
(* The session implements the store that the upload link is built on. *)

\* Without an attached reader nobody waits.
LEMMA NobodyOpened ==
  ASSUME IInv, refs = 0
  PROVE  \A r \in Readers : ~Opened(r)
<1>1. Cardinality({r \in Readers : Opened(r)}) = 0
  BY DEF IInv, RefsExact
<1>2. IsFiniteSet({r \in Readers : Opened(r)})
  BY SlotsAssumption, FS_Subset
<1>3. QED
  BY <1>1, <1>2, FS_EmptySet

\* When the last attached reader closes, no other waits.
LEMMA LastOpened ==
  ASSUME IInv, NEW r \in Readers, Opened(r), refs - 1 = 0,
         NEW x \in Readers, x # r
  PROVE  ~Opened(x)
<1> DEFINE S == {y \in Readers : Opened(y)}
<1>1. IsFiniteSet(S) /\ r \in S
  BY SlotsAssumption, FS_Subset
<1>2. Cardinality(S \ {r}) = 0 /\ IsFiniteSet(S \ {r})
  BY <1>1, FS_RemoveElement DEF IInv, RefsExact, TypeOK
<1>3. S \ {r} = {}
  BY <1>2, FS_EmptySet
<1>4. QED
  BY <1>3

\* Residents fill the slots one to one.
LEMMA Residents ==
  ASSUME IInv
  PROVE  /\ Cardinality(present) \in Nat
         /\ FreeSlots # {} => Cardinality(present) < Cardinality(Slots)
         /\ FreeSlots = {} => Cardinality(present) = Cardinality(Slots)
<1> USE DEF IInv
<1> DEFINE f == [s \in present |-> slot_of[s]]
<1>1. \A s \in present : slot_of[s] \in Slots /\ slot_seg[slot_of[s]] = s
  BY DEF TypeOK, SlotMapOK
<1>2. f \in Injection(present, Slots)
  BY <1>1 DEF Injection, IsInjective
<1>3. f \in Surjection(present, Slots) <=> FreeSlots = {}
  <2>1. ASSUME FreeSlots = {}, NEW i \in Slots PROVE \E s \in present : f[s] = i
    BY <2>1, SlotsAssumption DEF FreeSlots, TypeOK, SlotMapOK
  <2>2. ASSUME NEW i \in FreeSlots, NEW s \in present, f[s] = i PROVE FALSE
    BY <1>1, <2>2 DEF FreeSlots, TypeOK, Segs, NoSeg
  <2>3. FreeSlots \subseteq Slots
    BY DEF FreeSlots
  <2>4. f \in [present -> Slots]
    BY <1>1
  <2>5. QED
    BY <2>1, <2>2, <2>3, <2>4 DEF Surjection
<1> HIDE DEF f
<1>4. /\ IsFiniteSet(present)
      /\ Cardinality(present) <= Cardinality(Slots)
      /\ Cardinality(present) = Cardinality(Slots) <=> f \in Surjection(present, Slots)
  BY <1>2, SlotsAssumption, FS_Injection
<1>5. Cardinality(present) \in Nat /\ Cardinality(Slots) \in Nat
  BY <1>4, SlotsAssumption, FS_CardinalityType
<1>6. QED
  BY <1>3, <1>4, <1>5

\* The store's view of the readers.
Parked == [r \in Readers |-> IF pc[r] \in Waiting THEN need[r] ELSE NoSeg]
Asking == [r \in Readers |-> pc[r] = "emitting"]

\* A reader that waits waits for a segment.
LEMMA ParkedOnSegment ==
  ASSUME IInv, NEW r \in Readers
  PROVE  Parked[r] # NoSeg <=> pc[r] \in Waiting
  BY DEF IInv, ReadersOK, Parked, Segs, NoSeg

\* The store counts its residents as FiniteSets does.
LEMMA CacheCounts == \A S : Cache!Cardinality(S) = Cardinality(S)
  BY DEF Cache!Cardinality, Cardinality

LEMMA CacheInit == Init => Cache!Init
<1> SUFFICES ASSUME Init PROVE Cache!Init
  OBVIOUS
<1>1. Cardinality({}) = 0 /\ 0 <= Cardinality(Slots)
  BY SlotsAssumption, FS_EmptySet, FS_CardinalityType
<1>2. [r \in Readers |-> IF pc[r] \in Waiting THEN need[r] ELSE NoSeg] = [r \in Readers |-> NoSeg]
  BY DEF Init
<1>3. [r \in Readers |-> pc[r] = "emitting"] = [r \in Readers |-> FALSE]
  BY DEF Init
<1>4. QED
  BY <1>1, <1>2, <1>3, CacheCounts DEF Init, Cache!Init

\* A step that neither moves a reader nor changes what is stored or sought.
LEMMA CacheStutter ==
  ASSUME UNCHANGED <<arrays, present, acked_ever, seek_sent>>, Live' <=> Live,
         Parked' = Parked, Asking' = Asking
  PROVE  UNCHANGED Cache!storeVars
  BY DEF Cache!storeVars, Parked, Asking

\* A write of the session is one the store allows: it fits while a slot is
\* free, and replaces what it evicts when none is.
LEMMA CacheWrite ==
  ASSUME IInv, WaitersExact, NEW seg \in Segs, TryWrite(seg)
  PROVE  Cache!Write(seg)
<1> USE DEF IInv
<1>1. /\ Live /\ arrays /\ arrays' /\ Live'
      /\ Parked' = Parked /\ Asking' = Asking /\ UNCHANGED seek_sent
  BY DEF TryWrite, Live, SessionOK, sessionVars, readerVars, Parked, Asking
<1>2. acked_ever' = acked_ever \cup {seg}
  BY DEF TryWrite, Store, StoreResident, StoreFree, StoreEvict, StoreIn, Acked
<1>3. Cache!Fits(seg) \/ Cache!Replaces(seg)
  <2>1. CASE StoreResident(seg)
    <3>1. seg \in present
      BY <2>1 DEF StoreResident, SlotMapOK
    <3>2. QED
      BY <2>1, <3>1 DEF StoreResident, Cache!Fits
  <2>2. CASE StoreFree(seg)
    <3>1. Cardinality(present) < Cardinality(Slots)
      BY <2>2, Residents DEF StoreFree
    <3>2. QED
      BY <2>2, <3>1, CacheCounts DEF StoreFree, Cache!Fits
  <2>3. CASE StoreEvict(seg)
    <3>1. seg \notin present /\ Cardinality(present) = Cardinality(Slots)
      BY <2>3, Residents DEF StoreEvict, SlotMapOK
    <3>2. PICK s \in Segs : Victim(s, seg) /\ present' = (present \ {s}) \cup {seg}
      BY <2>3 DEF StoreEvict, Evicted
    <3>3. s \in present \ {0} /\ waiters[s] = 0
      BY <3>2 DEF Victim, Evictable, Pool, Awaited, TypeOK
    <3>4. Cardinality(WaitingOn(s)) = 0
      BY <1>1, <3>3 DEF WaitersExact, Live
    <3>5. WaitingOn(s) = {}
      BY <3>4, WaitingFinite, FS_EmptySet
    <3>6. ASSUME NEW r \in Readers PROVE Parked[r] # s
      BY <3>2, <3>5 DEF WaitingOn, Parked, Segs, NoSeg
    <3>7. ~Cache!Awaited(s)
      BY <3>6 DEF Cache!Awaited, Parked
    <3>8. QED
      BY <3>1, <3>2, <3>3, <3>7, CacheCounts DEF Cache!Replaces
  <2>4. QED
    BY <2>1, <2>2, <2>3 DEF TryWrite, Store
<1>4. QED
  BY <1>1, <1>2, <1>3 DEF Cache!Write, Parked, Asking

\* What a reader does to the store: it is served or gives up, parks, or has
\* asked.
LEMMA CacheRead ==
  ASSUME IInv, NEW r \in Readers, Exit(r), Opened(r), active \/ pc[r] \in Waiting
  PROVE  [Cache!Next]_(Cache!storeVars)
<1> USE DEF IInv
<1>1. arrays /\ arrays' /\ (Live' <=> Live)
  BY DEF Exit, Fail, Deliver, Park, FallAsleep, sessionVars, Live, ReadersOK
<1>2. UNCHANGED <<present, acked_ever>>
  BY DEF Exit, Fail, Deliver, Park, FallAsleep, cacheVars
<1>3. ASSUME pc' = [pc EXCEPT ![r] = "idle"], need' = [need EXCEPT ![r] = NoSeg],
             UNCHANGED seek_sent
      PROVE  [Cache!Next]_(Cache!storeVars)
  <2>1. /\ Parked' = [Parked EXCEPT ![r] = NoSeg]
        /\ Asking' = [Asking EXCEPT ![r] = FALSE]
    BY <1>3 DEF Parked, Asking, Waiting, TypeOK
  <2>2. CASE pc[r] \in Waiting
    <3>1. Parked[r] # NoSeg
      BY <2>2, ParkedOnSegment
    <3>2. Cache!Leave(r)
      BY <1>1, <1>2, <1>3, <2>1, <3>1 DEF Cache!Leave, Parked, Asking
    <3>3. QED
      BY <3>2 DEF Cache!Next
  <2>3. CASE pc[r] \notin Waiting
    <3>1. Parked' = Parked /\ Asking' = Asking
      BY <2>1, <2>3 DEF Parked, Asking, Waiting
    <3>2. QED
      BY <1>1, <1>2, <1>3, <3>1, CacheStutter
  <2>4. QED
    BY <2>2, <2>3
<1>4. ASSUME NEW q \in Requests, NEW w \in Counts(r), NEW n \in Missing(q),
             ~aborted, Park(r, q, n, w)
      PROVE  Cache!Next
  <2>1. Live /\ n \in Segs /\ n \notin present
    BY <1>4 DEF Live, Missing, SegsOf, ReadersOK, SessionOK, Opened, Waiting
  <2> DEFINE asks == n # 0 /\ n \notin seek_sent
  <2>2. n > 0 <=> n # 0
    BY <2>1 DEF Segs
  <2>3. /\ pc' = [pc EXCEPT ![r] = IF asks THEN "emitting" ELSE "parked"]
        /\ seek_sent' = IF asks THEN seek_sent \cup {n} ELSE seek_sent
    BY <1>4, <2>2 DEF Park
  <2>4. need' = [need EXCEPT ![r] = n]
    BY <1>4 DEF Park
  <2>5. Parked' = [Parked EXCEPT ![r] = n]
    BY <2>3, <2>4 DEF Parked, Waiting, TypeOK
  <2>6. Asking' = [Asking EXCEPT ![r] = asks]
    BY <2>3 DEF Asking, TypeOK
  <2>7. Cache!Wait(r, n)
    BY <1>1, <1>2, <2>1, <2>3, <2>5, <2>6 DEF Cache!Wait, Parked, Asking
  <2>8. QED
    BY <2>1, <2>7 DEF Cache!Next
<1>5. ASSUME FallAsleep(r) PROVE Cache!Next
  <2>1. Parked' = Parked /\ Asking' = [Asking EXCEPT ![r] = FALSE] /\ Asking[r]
    BY <1>5 DEF FallAsleep, Parked, Asking, Waiting, TypeOK
  <2>2. Cache!Asked(r)
    BY <1>1, <1>2, <1>5, <2>1 DEF FallAsleep, Cache!Asked, Parked, Asking
  <2>3. QED
    BY <2>2 DEF Cache!Next
<1>6. ASSUME NEW w, Fail(r, w) PROVE [Cache!Next]_(Cache!storeVars)
  BY <1>3, <1>6 DEF Fail
<1>7. ASSUME NEW q, NEW w, Deliver(r, q, w) PROVE [Cache!Next]_(Cache!storeVars)
  BY <1>3, <1>7 DEF Deliver
<1>8. QED
  BY <1>4, <1>5, <1>6, <1>7 DEF Exit

\* Every step of the session is a step of the store or leaves it alone.
LEMMA CacheNext ==
  ASSUME IInv, WaitersExact, [Next]_vars
  PROVE  [Cache!Next]_(Cache!storeVars)
<1> USE DEF IInv
<1>s. ASSUME UNCHANGED <<arrays, present, acked_ever, seek_sent>>, Live' <=> Live,
             need' = need, \A r \in Readers : pc'[r] = pc[r] \/ {pc[r], pc'[r]} \cap Waiting = {}
      PROVE  UNCHANGED Cache!storeVars
  <2>1. Parked' = Parked /\ Asking' = Asking
    BY <1>s DEF Parked, Asking, Waiting
  <2>2. QED
    BY <1>s, <2>1, CacheStutter
<1>1. CASE Create
  <2>1. ~arrays /\ arrays' /\ Live'
    BY <1>1 DEF Create, SessionOK, Live
  <2>2. present' = {} /\ acked_ever' = {} /\ seek_sent' = {}
    BY <1>1 DEF Create, EmptyCache
  <2>3. Parked' = Parked /\ Asking' = Asking
    BY <1>1 DEF Create, readerVars, Parked, Asking
  <2>4. Cache!Begin
    BY <2>1, <2>2, <2>3 DEF Cache!Begin, Parked, Asking
  <2>5. QED
    BY <2>4 DEF Cache!Next
<1>2. CASE Finish
  BY <1>2, <1>s DEF Finish, Live, cacheVars, readerVars
<1>3. ASSUME Live, ~Live', UNCHANGED <<arrays, cacheVars, seek_sent, readerVars>>
      PROVE  Cache!Next
  <2>1. arrays
    BY <1>3 DEF Live, SessionOK
  <2>2. Parked' = Parked /\ Asking' = Asking
    BY <1>3 DEF readerVars, Parked, Asking
  <2>3. Cache!EndStore
    BY <1>3, <2>1, <2>2 DEF cacheVars, Cache!EndStore, Parked, Asking
  <2>4. QED
    BY <2>3 DEF Cache!Next
<1>4. CASE Abort
  BY <1>3, <1>4 DEF Abort, Live
<1>5. ASSUME arrays, FreeLocked, Parked' = Parked, Asking' = Asking,
             \A r \in Readers : pc[r] \notin Waiting
      PROVE  Cache!Next
  <2>1. \A r \in Readers : Parked[r] = NoSeg
    BY <1>5 DEF Parked
  <2>2. Cache!Clear
    BY <1>5, <2>1 DEF FreeLocked, EmptyCache, Cache!Clear, Parked, Asking
  <2>3. QED
    BY <2>2 DEF Cache!Next
<1>6. CASE Destroy
  <2>1. CASE ~Attached /\ FreeLocked
    <3>1. \A r \in Readers : ~Opened(r)
      BY <2>1, NobodyOpened DEF Attached, TypeOK
    <3>2. Parked' = Parked /\ Asking' = Asking
      BY <1>6 DEF Destroy, readerVars, Parked, Asking
    <3>3. QED
      BY <1>5, <1>6, <2>1, <3>1, <3>2 DEF Destroy, SessionOK, Opened, Waiting
  <2>2. CASE UNCHANGED <<arrays, cacheVars, waiters, seek_sent>>
    <3>1. ~Live'
      BY <1>6 DEF Destroy, Live
    <3>2. CASE Live
      BY <1>3, <1>6, <2>2, <3>1, <3>2 DEF Destroy
    <3>3. CASE ~Live
      BY <1>6, <1>s, <2>2, <3>1, <3>3 DEF Destroy, cacheVars, readerVars
    <3>4. QED
      BY <3>2, <3>3
  <2>3. QED
    BY <1>6, <2>1, <2>2 DEF Destroy
<1>7. ASSUME NEW seg \in Segs, TryWrite(seg) PROVE Cache!Next
  BY <1>7, CacheWrite DEF Cache!Next
<1>8. ASSUME NEW s \in Segs, SeekWindowEnds(s) PROVE Cache!Next
  <2>1. Parked' = Parked /\ Asking' = Asking /\ (Live' <=> Live)
    BY <1>8 DEF SeekWindowEnds, sessionVars, readerVars, Live, Parked, Asking
  <2>2. Cache!AskAgain(s)
    BY <1>8, <2>1 DEF SeekWindowEnds, sessionVars, cacheVars, Cache!AskAgain, Parked, Asking
  <2>3. QED
    BY <2>2 DEF Cache!Next
<1>9. ASSUME NEW r \in Readers, OpenCheck(r) \/ OpenAttach(r)
      PROVE  UNCHANGED Cache!storeVars
  BY <1>9, <1>s DEF OpenCheck, OpenAttach, sessionVars, cacheVars, Live, Waiting, TypeOK
<1>10. ASSUME NEW r \in Readers, Close(r) PROVE [Cache!Next]_(Cache!storeVars)
  <2>1. /\ Opened(r) /\ arrays /\ (Live' <=> Live)
        /\ need' = need
        /\ pc[r] \notin Waiting
        /\ \A x \in Readers : pc'[x] = pc[x] \/ {pc[x], pc'[x]} \cap Waiting = {}
    BY <1>10 DEF Close, ReadersOK, Opened, Live, Waiting, TypeOK
  <2>2. CASE LastOut
    <3>1. refs - 1 = 0
      <4>1. refs # 0
        BY <2>1, NobodyOpened
      <4>2. QED
        BY <1>10, <2>2, <4>1 DEF Close, LastOut, TypeOK
    <3>2. \A x \in Readers : pc[x] \notin Waiting
      BY <2>1, <3>1, LastOpened DEF Opened, Waiting
    <3>3. FreeLocked
      BY <1>10, <2>2 DEF Close
    <3>4. Parked' = Parked /\ Asking' = Asking
      BY <2>1 DEF Parked, Asking, Waiting
    <3>5. QED
      BY <1>5, <2>1, <3>2, <3>3, <3>4
  <2>3. CASE ~LastOut
    BY <1>10, <1>s, <2>1, <2>3 DEF Close
  <2>4. QED
    BY <2>2, <2>3
<1>11. CASE UNCHANGED vars
  BY <1>11, <1>s DEF vars, sessionVars, cacheVars, readerVars, Live
<1>12. QED
  BY <1>1, <1>2, <1>4, <1>6, <1>7, <1>8, <1>9, <1>10, <1>11, ReadExits, CacheRead DEF Next

\* With slots, slot order and marks hidden, the session is the bounded store
\* that the upload link takes it for: a write fits or replaces what is neither
\* the header nor awaited, a seek goes out once in two seconds, and contents
\* go away under nobody.
THEOREM StoreImplemented == Spec => ImplementsStore
  BY CacheInit, CacheNext, Inductive, WaitersAreExact, PTL
     DEF Spec, ImplementsStore, Cache!Spec
=============================================================================
