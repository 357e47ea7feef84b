----------------------------- MODULE SegmentStore -----------------------------
(***************************************************************************)
(* The live session of src/src/ws_stream.c as its writers and its parked   *)
(* readers see it: a bounded set of resident segments.  A write fits or    *)
(* replaces a segment that is neither the header nor awaited; a reader     *)
(* waits only for what is missing, and asks the browser for it unless it   *)
(* is the header or was asked for within two seconds; contents go away     *)
(* only when nobody waits.                                                 *)
(***************************************************************************)
EXTENDS Integers, FiniteSets

CONSTANTS Readers, Segs, Capacity, NoSeg

VARIABLES
  phase,      \* "none", "live" or "over"
  present,    \* resident segments
  received,   \* segments that were ever stored
  waiting,    \* the segment each reader is parked on, or NoSeg
  emit,       \* the reader is about to ask the browser for it
  seek_sent   \* segments asked for within two seconds

storeVars == <<phase, present, received, waiting, emit, seek_sent>>

Awaited(s) == \E r \in Readers : waiting[r] = s

\* A new session, or one that goes on with what it received.
Init ==
  /\ phase \in {"none", "live"}
  /\ received \in SUBSET Segs
  /\ phase = "none" => received = {}
  /\ present \in {S \in SUBSET received :
                    Cardinality(S) <= Capacity /\ (0 \in received => 0 \in S)}
  /\ waiting = [r \in Readers |-> NoSeg]
  /\ emit = [r \in Readers |-> FALSE]
  /\ seek_sent = {}

Begin ==
  /\ phase = "none" /\ phase' = "live"
  /\ present' = {} /\ received' = {} /\ seek_sent' = {}
  /\ UNCHANGED <<waiting, emit>>

Fits(s) ==
  /\ s \in present \/ Cardinality(present) < Capacity
  /\ present' = present \cup {s}

Replaces(s) ==
  /\ s \notin present /\ Cardinality(present) = Capacity
  /\ \E v \in present \ {0} :
       ~Awaited(v) /\ present' = (present \ {v}) \cup {s}

Write(s) ==
  /\ phase = "live"
  /\ received' = received \cup {s}
  /\ Fits(s) \/ Replaces(s)
  /\ UNCHANGED <<phase, waiting, emit, seek_sent>>

\* r parks on s, or, parked, turns to s.
Wait(r, s) ==
  /\ phase = "live"
  /\ s \notin present
  /\ waiting' = [waiting EXCEPT ![r] = s]
  /\ LET asks == s # 0 /\ s \notin seek_sent IN
       /\ emit' = [emit EXCEPT ![r] = asks]
       /\ seek_sent' = IF asks THEN seek_sent \cup {s} ELSE seek_sent
  /\ UNCHANGED <<phase, present, received>>

Asked(r) ==
  /\ emit[r]
  /\ emit' = [emit EXCEPT ![r] = FALSE]
  /\ UNCHANGED <<phase, present, received, waiting, seek_sent>>

\* r was served, gave up or was released.
Leave(r) ==
  /\ waiting[r] # NoSeg
  /\ waiting' = [waiting EXCEPT ![r] = NoSeg]
  /\ emit' = [emit EXCEPT ![r] = FALSE]
  /\ UNCHANGED <<phase, present, received, seek_sent>>

AskAgain(s) ==
  /\ seek_sent' = seek_sent \ {s}
  /\ UNCHANGED <<phase, present, received, waiting, emit>>

EndStore ==
  /\ phase = "live" /\ phase' = "over"
  /\ UNCHANGED <<present, received, waiting, emit, seek_sent>>

\* The memory is given back.
Clear ==
  /\ phase # "none" /\ phase' = "none"
  /\ \A r \in Readers : waiting[r] = NoSeg
  /\ present' = {} /\ received' = {} /\ seek_sent' = {}
  /\ UNCHANGED <<waiting, emit>>

Next ==
  \/ Begin \/ EndStore \/ Clear
  \/ \E s \in Segs : Write(s) \/ AskAgain(s)
  \/ \E r \in Readers : Asked(r) \/ Leave(r) \/ \E s \in Segs : Wait(r, s)

Spec == Init /\ [][Next]_storeVars
=============================================================================
