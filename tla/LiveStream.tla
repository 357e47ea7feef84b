------------------------------ MODULE LiveStream ------------------------------
(***************************************************************************)
(* The single live streaming session of src/src/ws_stream.c: a RAM cache   *)
(* of a file that a browser sends in segments and that stream connections  *)
(* read by byte range.  Every exported function of the file takes the one  *)
(* mutex g_lv.mu, so an action is one critical section: a blocking read is *)
(* several (park, wake, the seek call made with the mutex released).       *)
(*                                                                         *)
(* Offsets count units; a segment is SEG units long.  The code's stamps    *)
(* (last_use, tick) are only ever compared, so they are kept as the order  *)
(* they define (older).  A free slot is taken in any order, the code takes *)
(* the lowest index: nothing depends on it.  The content of a slot is the  *)
(* token <<session, segment>> of the bytes copied into it.                 *)
(***************************************************************************)
EXTENDS Integers, FiniteSets

CONSTANTS
  Readers,      \* threads that open the session and read from it
  Slots,        \* RAM slots of the ring (g_lv.slots)
  NSegs,        \* segments of the file (g_lv.nsegs while a session is active)
  SEG,          \* units per segment (WS_LIVE_SEG_SIZE)
  Requests,     \* ranges <<first unit, end unit>> the readers ask for
  MaxSessions,  \* bound: sessions created in one behaviour
  NoSlot        \* slot_of[s] == -1

Segs   == 0 .. NSegs - 1
NoSeg  == -1
Sids   == 1 .. MaxSessions
Tokens == Sids \X Segs
NoBytes == <<0, NoSeg>>

ASSUME SlotsAssumption ==
  /\ IsFiniteSet(Readers)
  /\ IsFiniteSet(Slots)
  /\ NoSlot \notin Slots
ASSUME SizesAssumption ==
  /\ NSegs \in Nat \ {0}
  /\ SEG \in Nat \ {0}
  /\ MaxSessions \in Nat \ {0}
ASSUME RequestsAssumption ==
  \A q \in Requests :
    /\ q \in Nat \X Nat
    /\ q[1] < q[2]
    /\ q[2] <= NSegs * SEG

VARIABLES
  \* the session
  sid,              \* number of sessions created; the current or last session
  active, aborted, upload_complete,
  refs, free_pending,
  arrays,           \* the session's arrays are allocated
  \* the cache
  present, slot_of, slot_seg, bytes, older,
  acked_ever, run_hi, peak_seg,
  waiters,          \* readers parked on each segment
  seek_sent,        \* segments whose last seek is at most 2 s old
  \* the readers
  pc, want, src, req, need, out

sessionVars == <<sid, active, aborted, upload_complete, refs, free_pending, arrays>>
cacheVars   == <<present, slot_of, slot_seg, bytes, older, acked_ever>>
markVars    == <<run_hi, peak_seg>>
readerVars  == <<pc, want, src, req, need, out>>
vars == <<sessionVars, cacheVars, markVars, waiters, seek_sent, readerVars>>

PCs == {"closed", "opening", "idle", "emitting", "parked"}
Waiting == {"emitting", "parked"}
NoReq == <<0, 0>>
NoOut == [s \in {} |-> NoBytes]
Outs == UNION {[S -> Tokens] : S \in SUBSET Segs}

\* A session that still serves reads.
Live == active /\ ~aborted

\* The segments a byte range touches.
SegsOf(q) == {s \in Segs : s * SEG < q[2] /\ q[1] < (s + 1) * SEG}
Missing(q) == SegsOf(q) \ present

\* Mutant: teardown and creation forget the readers' references.
AttachedIgnored == FALSE

\* A reader holds a reference to the session's arrays.
Attached == refs > 0

\* Mutant: an aborted session keeps serving and waiting.
StoppedNever == FALSE

\* What every pass of the read loop tests first.
Stopped == aborted

\* Mutant: off by one, the last segment is not required.
AllAckedButLast == Segs \ {NSegs - 1} \subseteq acked_ever

\* The byte-complete test of ws_live_finish.
AllAcked == acked_ever = Segs

-----------------------------------------------------------------------------
Init ==
  /\ sid = 0
  /\ active = FALSE
  /\ aborted = FALSE
  /\ upload_complete = FALSE
  /\ refs = 0
  /\ free_pending = FALSE
  /\ arrays = FALSE
  /\ present = {}
  /\ slot_of = [s \in Segs |-> NoSlot]
  /\ slot_seg = [i \in Slots |-> NoSeg]
  /\ bytes = [i \in Slots |-> NoBytes]
  /\ older = {}
  /\ acked_ever = {}
  /\ run_hi = 0
  /\ peak_seg = 0
  /\ waiters = [s \in Segs |-> 0]
  /\ seek_sent = {}
  /\ pc = [r \in Readers |-> "closed"]
  /\ want = [r \in Readers |-> 0]
  /\ src = [r \in Readers |-> 0]
  /\ req = [r \in Readers |-> NoReq]
  /\ need = [r \in Readers |-> NoSeg]
  /\ out = [r \in Readers |-> NoOut]

\* Zeroed arrays, as calloc and the two loops of ws_live_create leave them.
EmptyCache ==
  /\ present' = {}
  /\ slot_of' = [s \in Segs |-> NoSlot]
  /\ slot_seg' = [i \in Slots |-> NoSeg]
  /\ bytes' = [i \in Slots |-> NoBytes]
  /\ older' = {}
  /\ acked_ever' = {}
  /\ waiters' = [s \in Segs |-> 0]
  /\ seek_sent' = {}

(* ws_live_create: refused while a session is active (a matching file gets *)
(* the running session's id back and changes nothing) or a reader of the   *)
(* previous session is still attached.                                     *)
Create ==
  /\ sid < MaxSessions
  /\ ~active
  /\ ~Attached
  /\ sid' = sid + 1
  /\ active' = TRUE
  /\ aborted' = FALSE
  /\ upload_complete' = FALSE
  /\ refs' = 0
  /\ free_pending' = FALSE
  /\ arrays' = TRUE
  /\ run_hi' = 0
  /\ peak_seg' = 0
  /\ EmptyCache
  /\ UNCHANGED readerVars

(* ws_live_finish: only when every segment was stored at least once.       *)
Finish ==
  /\ Live
  /\ AllAcked
  /\ upload_complete' = TRUE
  /\ UNCHANGED <<sid, active, aborted, refs, free_pending, arrays,
                 cacheVars, markVars, waiters, seek_sent, readerVars>>

(* ws_live_abort *)
Abort ==
  /\ Live
  /\ aborted' = TRUE
  /\ UNCHANGED <<sid, active, upload_complete, refs, free_pending, arrays,
                 cacheVars, markVars, waiters, seek_sent, readerVars>>

(* free_locked *)
FreeLocked ==
  /\ arrays' = FALSE
  /\ free_pending' = FALSE
  /\ EmptyCache

(* ws_live_destroy: the arrays outlive the session while a reader holds a  *)
(* reference.                                                              *)
Destroy ==
  /\ active
  /\ active' = FALSE
  /\ aborted' = TRUE
  /\ upload_complete' = FALSE
  /\ \/ ~Attached /\ FreeLocked
     \/ /\ Attached
        /\ free_pending' = TRUE
        /\ UNCHANGED <<arrays, cacheVars, waiters, seek_sent>>
  /\ UNCHANGED <<sid, refs, markVars, readerVars>>

-----------------------------------------------------------------------------
(* alloc_slot_locked and store_seg_locked                                  *)

FreeSlots == {i \in Slots : slot_seg[i] = NoSeg}

\* Mutant: the header segment is not pinned.
PoolWithHeader == present

\* Segment 0 is pinned: the search starts at segment 1.
Pool == present \ {0}

\* Mutant: the segment a reader waits for is not protected.
NotShielded(s) == FALSE

\* A reader is parked on the segment.
Awaited(s) == waiters[s] > 0

\* Mutant: rule B is missing.
NotUrgent(seg) == FALSE

\* The write would release a parked reader.
Urgent(seg) == waiters[seg] > 0

\* Mutant: eviction leaves the old segment marked present.
KeptPresent(s) == present

\* What eviction of s leaves present.
Evicted(s) == present \ {s}

\* Mutant: acked_ever tracks what is resident.
AckedResident(seg) == present \cup {seg}

\* A stored segment counts as received for the rest of the session.
Acked(seg) == acked_ever \cup {seg}

\* Rules A, B and C of alloc_slot_locked for evicting s to store seg.
ServedPast(s) == run_hi >= (s + 1) * SEG
Evictable(s, seg) ==
  /\ s \in Pool
  /\ slot_of[s] # NoSlot
  /\ ~Awaited(s)
  /\ \/ ServedPast(s)
     \/ Urgent(seg) /\ s \in acked_ever
     \/ peak_seg > 0 /\ s \in acked_ever /\ (seg >= peak_seg \/ s # seg)

\* The least recently used of them.
Victim(s, seg) ==
  /\ Evictable(s, seg)
  /\ \A t \in Segs : Evictable(t, seg) => <<slot_of[t], slot_of[s]>> \notin older

\* Slot i, stamped now, becomes the most recently used.
Touched(i) == {p \in older : p[1] # i /\ p[2] # i} \cup ((Slots \ {i}) \X {i})

\* The copy into slot i and the bookkeeping after it.
StoreIn(seg, i) ==
  /\ bytes' = [bytes EXCEPT ![i] = <<sid, seg>>]
  /\ acked_ever' = Acked(seg)
  /\ older' = Touched(i)

StoreResident(seg) ==
  /\ slot_of[seg] # NoSlot
  /\ StoreIn(seg, slot_of[seg])
  /\ present' = present \cup {seg}
  /\ UNCHANGED <<slot_of, slot_seg>>

StoreFree(seg) ==
  /\ slot_of[seg] = NoSlot
  /\ \E i \in FreeSlots :
       /\ StoreIn(seg, i)
       /\ slot_of' = [slot_of EXCEPT ![seg] = i]
       /\ slot_seg' = [slot_seg EXCEPT ![i] = seg]
       /\ present' = present \cup {seg}

StoreEvict(seg) ==
  /\ slot_of[seg] = NoSlot
  /\ FreeSlots = {}
  /\ \E s \in Segs :
       /\ Victim(s, seg)
       /\ StoreIn(seg, slot_of[s])
       /\ slot_of' = [slot_of EXCEPT ![s] = NoSlot, ![seg] = slot_of[s]]
       /\ slot_seg' = [slot_seg EXCEPT ![slot_of[s]] = seg]
       /\ present' = Evicted(s) \cup {seg}

Store(seg) == StoreResident(seg) \/ StoreFree(seg) \/ StoreEvict(seg)

(* ws_live_try_write of one whole segment.  With no evictable slot it      *)
(* returns busy and changes nothing.                                       *)
TryWrite(seg) ==
  /\ Live
  /\ Store(seg)
  /\ UNCHANGED <<sessionVars, markVars, waiters, seek_sent, readerVars>>

\* The conditions under which a write of seg is not answered "busy".
Storable(seg) ==
  \/ slot_of[seg] # NoSlot
  \/ FreeSlots # {}
  \/ \E s \in Segs : Evictable(s, seg)

-----------------------------------------------------------------------------
(* The readers: virtual_stream_open, ws_live_read, virtual_stream_close    *)

(* virtual_stream_open of "live:<id>" first checks that the id is that of  *)
(* the active session ...                                                  *)
OpenCheck(r) ==
  /\ pc[r] = "closed"
  /\ active
  /\ pc' = [pc EXCEPT ![r] = "opening"]
  /\ want' = [want EXCEPT ![r] = sid]
  /\ UNCHANGED <<sessionVars, cacheVars, markVars, waiters, seek_sent, src, req, need, out>>

(* ... and then attaches to whatever session is active (ws_live_attach).   *)
OpenAttach(r) ==
  /\ pc[r] = "opening"
  /\ IF active
     THEN /\ refs' = refs + 1
          /\ pc' = [pc EXCEPT ![r] = "idle"]
          /\ src' = [src EXCEPT ![r] = sid]
          /\ UNCHANGED want
     ELSE /\ pc' = [pc EXCEPT ![r] = "closed"]
          /\ want' = [want EXCEPT ![r] = 0]
          /\ UNCHANGED <<refs, src>>
  /\ UNCHANGED <<sid, active, aborted, upload_complete, free_pending, arrays,
                 cacheVars, markVars, waiters, seek_sent, req, need, out>>

\* Mutant: the test is made before the count is dropped.
LastOutEarly == refs = 0 /\ free_pending

\* The detach that dropped the last reference of a destroyed session.
LastOut == refs' = 0 /\ free_pending

(* virtual_stream_close and ws_live_detach; the last one out frees.        *)
Close(r) ==
  /\ pc[r] = "idle"
  /\ refs' = IF refs > 0 THEN refs - 1 ELSE refs
  /\ IF LastOut
     THEN FreeLocked
     ELSE UNCHANGED <<free_pending, arrays, present, slot_of, slot_seg, bytes,
                      older, acked_ever, waiters, seek_sent>>
  /\ pc' = [pc EXCEPT ![r] = "closed"]
  /\ want' = [want EXCEPT ![r] = 0]
  /\ src' = [src EXCEPT ![r] = 0]
  /\ out' = [out EXCEPT ![r] = NoOut]
  /\ UNCHANGED <<sid, active, aborted, upload_complete, markVars, req, need>>

\* Mutant: the count is not dropped when the wait ends.
NotReleased(r) == waiters

\* The waiter count of the segment r waited on, dropped while the session
\* is active (ws_live_destroy zeroes nsegs, which disables the decrement).
Released(r) ==
  IF active /\ waiters[need[r]] > 0
  THEN [waiters EXCEPT ![need[r]] = @ - 1]
  ELSE waiters

\* ws_live_read returns -1, with w the waiter counts left behind.
Fail(r, w) ==
  /\ pc' = [pc EXCEPT ![r] = "idle"]
  /\ req' = [req EXCEPT ![r] = NoReq]
  /\ need' = [need EXCEPT ![r] = NoSeg]
  /\ waiters' = w
  /\ out' = [out EXCEPT ![r] = NoOut]
  /\ UNCHANGED <<sessionVars, cacheVars, markVars, seek_sent, want, src>>

\* The slots of segs, stamped in ascending segment order.
TouchedAll(segs) ==
  LET S == {slot_of[s] : s \in segs} IN
     {p \in older : p[1] \notin S /\ p[2] \notin S}
       \cup ((Slots \ S) \X S)
       \cup {p \in S \X S : slot_seg[p[1]] < slot_seg[p[2]]}

\* Every segment of q is present: they are copied out in one critical section.
Deliver(r, q, w) ==
  /\ out' = [out EXCEPT ![r] = [s \in SegsOf(q) |-> bytes[slot_of[s]]]]
  /\ older' = TouchedAll(SegsOf(q))
  /\ run_hi' = IF q[1] <= run_hi + SEG /\ q[2] > run_hi THEN q[2] ELSE run_hi
  /\ pc' = [pc EXCEPT ![r] = "idle"]
  /\ req' = [req EXCEPT ![r] = NoReq]
  /\ need' = [need EXCEPT ![r] = NoSeg]
  /\ waiters' = w
  /\ UNCHANGED <<sessionVars, present, slot_of, slot_seg, bytes, acked_ever,
                 peak_seg, seek_sent, want, src>>

\* The highest segment sought so far, once n is sought.
PeakAfter(n) == IF n > peak_seg THEN n ELSE peak_seg

\* Segment n of q is missing: park on it, asking the browser for it unless
\* it is the header or was asked for less than 2 s ago.
Park(r, q, n, w) ==
  /\ peak_seg' = PeakAfter(n)
  /\ waiters' = [w EXCEPT ![n] = @ + 1]
  /\ IF n > 0 /\ n \notin seek_sent
     THEN /\ seek_sent' = seek_sent \cup {n}
          /\ pc' = [pc EXCEPT ![r] = "emitting"]
     ELSE /\ pc' = [pc EXCEPT ![r] = "parked"]
          /\ UNCHANGED seek_sent
  /\ req' = [req EXCEPT ![r] = q]
  /\ need' = [need EXCEPT ![r] = n]
  /\ out' = [out EXCEPT ![r] = NoOut]
  /\ UNCHANGED <<sessionVars, cacheVars, run_hi, want, src>>

\* One pass of the loop of ws_live_read.
Scan(r, q, w) ==
  \/ Stopped /\ Fail(r, w)
  \/ ~Stopped /\ Missing(q) = {} /\ Deliver(r, q, w)
  \/ /\ ~Stopped
     /\ \E n \in Missing(q) :
          (\A m \in Missing(q) : n <= m) /\ Park(r, q, n, w)

\* The call, up to its first unlock.
ReadStart(r, q) ==
  /\ pc[r] = "idle"
  /\ active
  /\ Scan(r, q, waiters)

\* The seek callback returned and the mutex is held again.
SeekReturn(r) ==
  /\ pc[r] = "emitting"
  /\ \/ ~Live /\ Fail(r, Released(r))
     \/ Live /\ need[r] \in present /\ Scan(r, req[r], Released(r))
     \/ /\ Live /\ need[r] \notin present
        /\ pc' = [pc EXCEPT ![r] = "parked"]
        /\ UNCHANGED <<sessionVars, cacheVars, markVars, waiters, seek_sent,
                       want, src, req, need, out>>

\* A broadcast, the 1 s tick or a spurious wake-up, before the deadline.
Wake(r) ==
  /\ pc[r] = "parked"
  /\ Scan(r, req[r], Released(r))

\* The deadline passed while the reader was parked.
Timeout(r) ==
  /\ pc[r] = "parked"
  /\ Fail(r, Released(r))

\* Two seconds pass after a seek: it may be emitted again.
SeekWindowEnds(s) ==
  /\ s \in seek_sent
  /\ seek_sent' = seek_sent \ {s}
  /\ UNCHANGED <<sessionVars, cacheVars, markVars, waiters, readerVars>>

-----------------------------------------------------------------------------
ReaderStep(r) == SeekReturn(r) \/ Wake(r)

Next ==
  \/ Create \/ Finish \/ Abort \/ Destroy
  \/ \E s \in Segs : TryWrite(s) \/ SeekWindowEnds(s)
  \/ \E r \in Readers :
       \/ OpenCheck(r) \/ OpenAttach(r) \/ Close(r)
       \/ \E q \in Requests : ReadStart(r, q)
       \/ ReaderStep(r) \/ Timeout(r)

Spec == Init /\ [][Next]_vars

(* A waiting reader is woken by every broadcast and by the 1 s tick, so it *)
(* keeps running; the stream server closes a stream whose session ended.   *)
(* Nothing is assumed of the browser, of the deadline or of new readers.   *)
Fairness ==
  \A r \in Readers :
    /\ WF_vars(ReaderStep(r))
    /\ WF_vars(~Live /\ Close(r))

FairSpec == Spec /\ Fairness

-----------------------------------------------------------------------------
(* Properties                                                              *)

Opened(r) == pc[r] \in {"idle", "emitting", "parked"}
WaitingOn(s) == {r \in Readers : pc[r] \in Waiting /\ need[r] = s}

\* Every variable keeps the shape its C declaration gives it.
TypeOK ==
  /\ sid \in 0 .. MaxSessions
  /\ active \in BOOLEAN /\ aborted \in BOOLEAN /\ upload_complete \in BOOLEAN
  /\ free_pending \in BOOLEAN /\ arrays \in BOOLEAN
  /\ refs \in Nat
  /\ present \subseteq Segs
  /\ slot_of \in [Segs -> Slots \cup {NoSlot}]
  /\ slot_seg \in [Slots -> Segs \cup {NoSeg}]
  /\ bytes \in [Slots -> Tokens \cup {NoBytes}]
  /\ older \subseteq Slots \X Slots
  /\ acked_ever \subseteq Segs
  /\ run_hi \in Nat
  /\ peak_seg \in Segs
  /\ waiters \in [Segs -> Nat]
  /\ seek_sent \subseteq Segs
  /\ pc \in [Readers -> PCs]
  /\ want \in [Readers -> 0 .. MaxSessions]
  /\ src \in [Readers -> 0 .. MaxSessions]
  /\ req \in [Readers -> Requests \cup {NoReq}]
  /\ need \in [Readers -> Segs \cup {NoSeg}]
  /\ out \in [Readers -> Outs]

\* The slot map (present, slot_of, slot_seg) is a bijection between resident
\* segments and occupied slots, and a slot holds its segment's bytes, through
\* every eviction of alloc_slot_locked.
SlotMapOK ==
  /\ \A s \in Segs : s \in present <=> slot_of[s] # NoSlot
  /\ \A s \in present :
       /\ slot_seg[slot_of[s]] = s
       /\ bytes[slot_of[s]] = <<sid, s>>
  /\ \A i \in Slots : slot_seg[i] # NoSeg => slot_of[slot_seg[i]] = i
  /\ present \subseteq acked_ever

\* What a read returned is, segment by segment, what was uploaded in the
\* session the reader attached to, also after evictions and re-sends and
\* across destroy and create (ws_stream.h:100).
ReadIntegrity ==
  \A r \in Readers : \A s \in DOMAIN out[r] : out[r][s] = <<src[r], s>>

\* A reader inside ws_live_read finds the arrays of its own session
\* allocated, whatever destroy does meanwhile, and the arrays of a session
\* that is gone and has no reader are not leaked (ws_live_destroy, _detach).
MemorySafe ==
  /\ \A r \in Readers : pc[r] \in Waiting => arrays /\ src[r] = sid
  /\ active => arrays
  /\ arrays => active \/ Attached

\* The reference count is the number of open streams: one lost frees the
\* arrays under a reader, one too many refuses every later session (-2).
RefsExact == refs = Cardinality({r \in Readers : Opened(r)})

\* The waiter count of a segment is the number of readers parked on it: a
\* count left behind shields its slot for ever, one lost lets the awaited
\* segment be evicted (ws_live_read).
WaitersExact ==
  active => \A s \in Segs : waiters[s] = Cardinality(WaitingOn(s))

\* "A waited-on write practically never reports busy" (ws_stream.c:449):
\* with fewer readers than slots, never.
WaitedWriteNeverBusy ==
  Live /\ Cardinality(Readers) < Cardinality(Slots)
    => \A r \in Readers : pc[r] \in Waiting => Storable(need[r])

\* Byte-complete means every segment arrived at least once.
CompleteMeansReceived == upload_complete => acked_ever = Segs

\* The strengthening that makes the invariants above inductive.
SessionOK ==
  /\ active => arrays /\ ~free_pending
  /\ arrays => sid > 0 /\ (active \/ free_pending)
  /\ free_pending => arrays /\ ~active /\ Attached
  /\ arrays /\ ~active => aborted
  /\ upload_complete => active

ReadersOK ==
  \A r \in Readers :
    /\ pc[r] \in Waiting => req[r] \in Requests /\ need[r] \in Segs
    /\ IF Opened(r) THEN arrays /\ src[r] = sid ELSE src[r] = 0 /\ out[r] = NoOut

\* The inductive invariant: no step of any thread leaves it.
IInv ==
  /\ TypeOK /\ SlotMapOK /\ SessionOK /\ ReadersOK
  /\ RefsExact /\ ReadIntegrity /\ CompleteMeansReceived

\* The header, once stored, stays resident as long as the arrays exist.
HeaderPinned ==
  [][0 \in present /\ arrays' /\ sid' = sid => 0 \in present']_vars

\* A segment that lands for a reader is still there when that reader wakes.
AwaitedSegmentStays ==
  [][\A r \in Readers :
       /\ pc[r] \in Waiting /\ need[r] \in present
       /\ pc'[r] \in Waiting /\ need'[r] = need[r]
       => need[r] \in present']_vars

\* The resume offset handed to a reconnecting browser never moves back.
ReceivedOnlyGrows ==
  [][active /\ active' => acked_ever \subseteq acked_ever']_vars

\* A stream opened as "live:<id>" is attached to the session of that id
\* (multipart.c:401).
OpenKeepsId == \A r \in Readers : Opened(r) => src[r] = want[r]

\* Every wait ends after an abort, without the help of the deadline
\* (ws_stream.h:23).
AbortReleases ==
  \A r \in Readers : (aborted /\ pc[r] \in Waiting) ~> pc[r] \notin Waiting

\* The memory of a destroyed session is given back.
DestroyFrees == free_pending ~> ~arrays

(* The feed this session implements: slots, eviction, waiting and seeks    *)
(* hidden.                                                                 *)
Feed == INSTANCE SegmentFeed WITH
  gen <- sid,
  phase <- IF ~active THEN "none" ELSE IF aborted THEN "aborted" ELSE "live",
  landed <- IF active THEN acked_ever ELSE {},
  complete <- upload_complete

ImplementsFeed == Feed!Spec

(* The bounded store that UploadLink takes this session for: which slot a  *)
(* segment has, and which one makes room, hidden.                          *)
Cache == INSTANCE SegmentStore WITH
  Capacity <- Cardinality(Slots),
  phase <- IF ~arrays THEN "none" ELSE IF Live THEN "live" ELSE "over",
  received <- acked_ever,
  waiting <- [r \in Readers |-> IF pc[r] \in Waiting THEN need[r] ELSE NoSeg],
  emit <- [r \in Readers |-> pc[r] = "emitting"]

ImplementsStore == Cache!Spec
=============================================================================
