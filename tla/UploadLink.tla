------------------------------ MODULE UploadLink ------------------------------
(***************************************************************************)
(* A demanded segment's way from the browser to the console: the sender of *)
(* src/frontend/src/utils/segmentSender.js, the message dispatcher of      *)
(* hooks/useDirectUpload.js, the socket, the frame loop of                 *)
(* src/src/ws_upload.c, and the live session as its writers and readers    *)
(* see it.                                                                 *)
(*                                                                         *)
(* The browser runs one callback at a time: an action is a callback, up to *)
(* the one await of pump(), the file read.  The session is abstracted to   *)
(* what LiveStream shows of it: which segments are resident, that the      *)
(* header and awaited segments are never evicted, that an awaited write is *)
(* never busy; which segment is evicted, and whether another write is      *)
(* refused when the cache is full, is left open.                           *)
(***************************************************************************)
EXTENDS Integers, Sequences, FiniteSets

CONSTANTS
  Readers,     \* threads in ws_live_read
  NSegs,       \* totalSegments
  Capacity,    \* slots of the session
  Limits,      \* values of maxInFlight, from the "upload_window" of "ready"
  Windows,     \* values of "demand_window" in "ready"
  Starts,      \* sets of segments received before this upload
  MaxReads     \* bound: reads that find their segment missing

Segs == 0 .. NSegs - 1
NoSeg == -1
NoMsg == [op |-> "none", seg |-> NoSeg]
Msg(o, s) == [op |-> o, seg |-> s]

ASSUME LinkAssumption ==
  /\ NSegs \in Nat \ {0}
  /\ Limits \subseteq {1, 2}
  /\ Windows \subseteq 0 .. 8
  /\ IsFiniteSet(Readers) /\ Capacity \in Nat /\ Cardinality(Readers) < Capacity
  /\ Starts \subseteq SUBSET Segs
  /\ MaxReads \in Nat

VARIABLES
  \* the browser
  window,      \* demandWindow
  limit,       \* the number of segments in flight
  snd,         \* the variables of createSegmentSender
  stopped,     \* inactive()
  \* the socket
  up, down,    \* messages under way, oldest first
  \* the console
  hand,        \* the answer the connection thread is about to send
  present, received,
  over,        \* the session ended or failed
  waiting,     \* the segment each reader is parked on
  emit,        \* the reader is about to emit a seek
  seek_sent,   \* segments whose last seek is at most 2 s old
  incomplete,  \* a "finish" was answered "incomplete"
  reads,       \* bounds the behaviour
  sought       \* history: the segments a seek reached the browser for

browserVars == <<window, limit, snd, stopped>>
storeVars   == <<present, received, over>>
readerVars  == <<waiting, emit, seek_sent>>
ghosts      == <<incomplete, reads, sought>>
vars == <<browserVars, up, down, hand, storeVars, readerVars, ghosts>>

\* A Set of the sender, in the order of insertion: add leaves a member where
\* it is, delete closes the gap.
Has(q, s) == \E i \in DOMAIN q : q[i] = s
Added(q, s) == IF Has(q, s) THEN q ELSE Append(q, s)
Without(q, s) ==
  IF Has(q, s)
  THEN LET k == CHOOSE i \in DOMAIN q : q[i] = s
       IN  [i \in 1 .. Len(q) - 1 |-> q[IF i < k THEN i ELSE i + 1]]
  ELSE q

\* The place of the first member of q that is in S, 0 if there is none.
First(q, S, i) == q[i] \in S /\ \A h \in 1 .. i - 1 : q[h] \notin S
Place(q, S) ==
  IF \E i \in DOMAIN q : First(q, S, i) THEN CHOOSE i \in DOMAIN q : First(q, S, i) ELSE 0

\* The first segment from b on that is not in S, NSegs if there is none.
After(b, S, s) == b <= s /\ s \notin S /\ b .. s - 1 \subseteq S
FirstFrom(b, S) ==
  IF \E s \in Segs : After(b, S, s) THEN CHOOSE s \in Segs : After(b, S, s) ELSE NSegs

-----------------------------------------------------------------------------
(* createSegmentSender                                                     *)

\* A segment in flight is being read from the file (sentAt is null) or sent.
Flights(j) == j.sent \cup ({j.reading} \ {NoSeg})
Backoff(j) == {s \in Segs : j.retry[s] # "none"}

\* Mutant: read-ahead goes on while a rejected segment backs off.
NeverHeld(j) == FALSE

\* nextSegment gives out nothing that was not asked for.
Held(j) == Backoff(j) # {}

\* A demand may be sent that is not in flight and whose timer does not run.
Ready(j) == {s \in Segs : s \notin Flights(j) /\ j.retry[s] # "waiting"}

\* Read-ahead is of what is neither acknowledged nor in flight.
Fresh(j) == Segs \ (j.acked \cup Flights(j))

\* Mutant: the baseline does not look at what is in flight.
AdvancedBlind(j) == FirstFrom(j.baseline, j.acked)

\* The baseline moves past acknowledged and flying segments.
Advanced(j) == FirstFrom(j.baseline, j.acked \cup Flights(j))

\* nextSegment: the segment to send, and the sender without what it skipped.
NextDemand(j) == LET k == Place(j.demands, Ready(j)) IN IF k = 0 THEN NoSeg ELSE j.demands[k]

NextAhead(j) ==
  LET k == Place(j.ahead, Fresh(j))
  IN  IF k = 0 THEN [seg |-> NoSeg, j |-> [j EXCEPT !.ahead = <<>>]]
      ELSE [seg |-> j.ahead[k], j |-> [j EXCEPT !.ahead = SubSeq(@, k, Len(@))]]

NextOfBaseline(j) ==
  LET b == Advanced(j)
  IN  [seg |-> IF b < NSegs THEN b ELSE NoSeg, j |-> [j EXCEPT !.baseline = b]]

NextSegment(j) ==
  IF NextDemand(j) # NoSeg THEN [seg |-> NextDemand(j), j |-> j]
  ELSE IF Held(j) THEN [seg |-> NoSeg, j |-> j]
  ELSE IF window > 0 THEN NextAhead(j)
  ELSE NextOfBaseline(j)

\* The segment is taken out of the queues and its file read begins.
Taken(j, s) ==
  [j EXCEPT !.demands = Without(@, s),
            !.ahead = Without(@, s),
            !.baseline = IF @ = s THEN @ + 1 ELSE @,
            !.retry[s] = "none",
            !.reading = s]

\* pump, up to its await: it runs once, and fills the window one by one.  (The
\* set of the one sender it leaves, as are the callbacks that call it.)
Pump(j) ==
  IF j.reading # NoSeg \/ Cardinality(j.sent) >= limit THEN {j}
  ELSE {IF n.seg = NoSeg THEN n.j ELSE Taken(n.j, n.seg) : n \in {NextSegment(j)}}

Pumped(S) == UNION {Pump(j) : j \in S}

\* A seek of a segment in flight is answered by that flight.
Demand(j, s) == IF s \in Flights(j) THEN j.demands ELSE Added(j.demands, s)

\* The segments after s, as far as the window reaches, that are neither
\* acknowledged nor in flight are read ahead; the oldest make room.
Ahead(j, s) ==
  LET to  == IF s + window < NSegs THEN s + window ELSE NSegs
      new == SelectSeq([i \in 1 .. IF to > s THEN to - s - 1 ELSE 0 |-> s + i],
                       LAMBDA x : x \notin j.acked \cup Flights(j) /\ ~Has(j.ahead, x))
      q   == j.ahead \o new
  IN  SubSeq(q, IF Len(q) > 2 * window THEN Len(q) - 2 * window + 1 ELSE 1, Len(q))

Request(j, s) == Pumped({[j EXCEPT !.ahead = Ahead(j, s), !.demands = Demand(j, s)]})

\* The dispatcher counts every acknowledgement, the sender those of its flights.
Ack(j, s) ==
  LET k == [j EXCEPT !.acked = @ \cup {s}]
  IN  IF s \notin j.sent THEN {k}
      ELSE Pumped({[k EXCEPT !.demands = Without(@, s), !.sent = @ \ {s}]})

Busy(j, s) ==
  IF s \notin j.sent THEN {j}
  ELSE Pumped({[j EXCEPT !.sent = @ \ {s},
                         !.demands = Added(@, s),
                         !.retry[s] = "waiting"]})

-----------------------------------------------------------------------------
\* The first segment that is not resumed (ws_live_get_resume_offset).
Prefix(S) == FirstFrom(0, S)

(* The upload starts, or resumes after the page was loaded anew: pump() is *)
(* called once "ready" came.                                               *)
Init ==
  /\ window \in Windows
  /\ limit \in Limits
  /\ received \in Starts
  /\ present \in {S \in SUBSET received : Cardinality(S) <= Capacity /\ (0 \in received => 0 \in S)}
  /\ snd \in Pump([demands |-> IF window > 0 THEN <<0>> ELSE <<>>,
                 ahead |-> <<>>,
                 sent |-> {},
                 reading |-> NoSeg,
                 retry |-> [s \in Segs |-> "none"],
                 baseline |-> Prefix(received),
                 acked |-> {s \in Segs : 0 .. s \subseteq received}])
  /\ stopped = FALSE
  /\ over = FALSE
  /\ up = <<>>
  /\ down = <<>>
  /\ hand = NoMsg
  /\ waiting = [r \in Readers |-> NoSeg]
  /\ emit = [r \in Readers |-> FALSE]
  /\ seek_sent = {}
  /\ incomplete = FALSE
  /\ reads = 0
  /\ sought = {}

\* stop() empties the queues and forgets flights and timers.
Emptied(j) ==
  [j EXCEPT !.demands = <<>>, !.ahead = <<>>, !.sent = {}, !.reading = NoSeg,
            !.retry = [s \in Segs |-> "none"]]

(* The file read ended: the segment is sent, the next one prepared, and    *)
(* pump() goes on.                                                         *)
ReadDone ==
  /\ ~stopped
  /\ snd.reading # NoSeg
  /\ up' = Append(up, Msg("seg", snd.reading))
  /\ LET j == [snd EXCEPT !.sent = @ \cup {snd.reading}, !.reading = NoSeg]
     IN  snd' \in Pumped({NextSegment(k).j : k \in {j}})
  /\ UNCHANGED <<window, limit, stopped, down, hand, storeVars, readerVars, ghosts>>

\* Mutant: the timer does not clear itself, so the segment stays backed off.
StillWaiting == "waiting"

\* A retry without a timer may be sent.
Due == "due"

(* The retry timer of s fires.                                             *)
RetryTimer(s) ==
  /\ ~stopped
  /\ snd.retry[s] = "waiting"
  /\ snd' \in Pumped({[snd EXCEPT !.retry[s] = Due]})
  /\ UNCHANGED <<window, limit, stopped, up, down, hand, storeVars, readerVars, ghosts>>

(* onmessage: "ack", "busy", "seek"; an "error" fails the upload.          *)
OnMessage ==
  /\ down # <<>>
  /\ down' = Tail(down)
  /\ sought' = IF Head(down).op = "seek" THEN sought \cup {Head(down).seg} ELSE sought
  /\ LET m == Head(down) IN
     \/ stopped /\ UNCHANGED <<snd, stopped>>
     \/ /\ ~stopped /\ m.op = "error"
        /\ stopped' = TRUE
        /\ snd' = Emptied(snd)
     \/ /\ ~stopped /\ m.op # "error"
        /\ snd' \in CASE m.op = "ack"  -> Ack(snd, m.seg)
                    [] m.op = "busy" -> Busy(snd, m.seg)
                    [] m.op = "seek" -> Request(snd, m.seg)
        /\ UNCHANGED stopped
  /\ UNCHANGED <<window, limit, up, hand, storeVars, readerVars, incomplete, reads>>

(* The installation ended and every segment was acknowledged               *)
(* (watchFinish): the sender is inactive from here on.                     *)
SendFinish ==
  /\ ~stopped
  /\ snd.acked = Segs
  /\ stopped' = TRUE
  /\ up' = Append(up, Msg("finish", NoSeg))
  /\ UNCHANGED <<window, limit, snd, down, hand, storeVars, readerVars, ghosts>>

(* A failed file read, a silent socket, a cancel: stop().                  *)
Fail ==
  /\ ~stopped
  /\ stopped' = TRUE
  /\ snd' = Emptied(snd)
  /\ UNCHANGED <<window, limit, up, down, hand, storeVars, readerVars, ghosts>>

-----------------------------------------------------------------------------
(* The console                                                             *)

\* Mutant: an awaited segment is evicted like any other.
NotShielded(s) == FALSE

Awaited(s) == \E r \in Readers : waiting[r] = s

\* ws_live_try_write stores the segment: in its slot, a free one, or that of
\* a segment that is neither the header nor awaited.
Stored(s) ==
  /\ received' = received \cup {s}
  /\ UNCHANGED over
  /\ \/ /\ s \in present \/ Cardinality(present) < Capacity
        /\ present' = present \cup {s}
     \/ /\ s \notin present /\ Cardinality(present) = Capacity
        /\ \E v \in present \ {0} : ~Awaited(v) /\ present' = (present \ {v}) \cup {s}

\* Mutant: a refused write is acknowledged.
RefusedAcked == "ack"

\* The answer to a write that was refused.
Refused == "busy"

(* The connection thread takes the next message off the socket: a segment  *)
(* is written, and answered before the thread reads on.  A session that    *)
(* ended or failed, which is seen here first, rejects it.                  *)
TakeSegment ==
  /\ hand = NoMsg
  /\ up # <<>> /\ Head(up).op = "seg"
  /\ up' = Tail(up)
  /\ LET s == Head(up).seg IN
     \/ ~over /\ Stored(s) /\ hand' = Msg("ack", s)
     \/ /\ ~over
        /\ s \notin present /\ Cardinality(present) = Capacity /\ ~Awaited(s)
        /\ hand' = Msg(Refused, s)
        /\ UNCHANGED storeVars
     \/ /\ over' = TRUE
        /\ hand' = Msg("error", s)
        /\ UNCHANGED <<present, received>>
  /\ UNCHANGED <<browserVars, down, readerVars, ghosts>>

(* "finish": complete only when every segment was received.                *)
TakeFinish ==
  /\ hand = NoMsg
  /\ up # <<>> /\ Head(up).op = "finish"
  /\ up' = Tail(up)
  /\ incomplete' = (incomplete \/ received # Segs)
  /\ hand' = Msg(IF received = Segs THEN "complete" ELSE "error", NoSeg)
  /\ UNCHANGED <<browserVars, down, storeVars, readerVars, reads, sought>>

(* send_text_locked: acks and seeks share the socket, one at a time.       *)
Answer ==
  /\ hand # NoMsg
  /\ down' = Append(down, hand)
  /\ hand' = NoMsg
  /\ UNCHANGED <<browserVars, up, storeVars, readerVars, ghosts>>

(* A scan of ws_live_read finds s missing: a seek is due unless s is the   *)
(* header or was sought in the last two seconds.                           *)
Seek(r, s) ==
  IF s > 0 /\ s \notin seek_sent
  THEN seek_sent' = seek_sent \cup {s} /\ emit' = [emit EXCEPT ![r] = TRUE]
  ELSE UNCHANGED <<seek_sent, emit>>

Miss(r, s) ==
  /\ reads < MaxReads /\ ~over
  /\ reads' = reads + 1
  /\ waiting[r] = NoSeg
  /\ s \notin present
  /\ waiting' = [waiting EXCEPT ![r] = s]
  /\ Seek(r, s)
  /\ UNCHANGED <<browserVars, up, down, hand, storeVars, incomplete, sought>>

(* uplink_seek *)
Emit(r) ==
  /\ emit[r]
  /\ emit' = [emit EXCEPT ![r] = FALSE]
  /\ down' = Append(down, Msg("seek", waiting[r]))
  /\ UNCHANGED <<browserVars, up, hand, storeVars, waiting, seek_sent, ghosts>>

(* The one-second tick of a parked reader.                                 *)
Tick(r) ==
  /\ waiting[r] # NoSeg /\ ~emit[r] /\ ~over
  /\ waiting[r] \notin present \cup seek_sent \cup {0}
  /\ Seek(r, waiting[r])
  /\ UNCHANGED <<browserVars, up, down, hand, storeVars, waiting, ghosts>>

Unpark(r) ==
  /\ waiting' = [waiting EXCEPT ![r] = NoSeg]
  /\ UNCHANGED <<browserVars, up, down, hand, storeVars, emit, seek_sent, ghosts>>

(* The awaited segment landed and is copied out.                           *)
Deliver(r) ==
  /\ waiting[r] \in present /\ ~emit[r]
  /\ Unpark(r)

(* The reader's deadline passed.                                           *)
GiveUp(r) ==
  /\ waiting[r] # NoSeg /\ ~emit[r]
  /\ Unpark(r)

\* Two seconds pass after a seek.  Bound: it reached the browser by then, and
\* the session still seeks.
SeekWindowEnds(s) ==
  /\ s \in seek_sent /\ ~over
  /\ ~Has(down, Msg("seek", s))
  /\ \A r \in Readers : ~(emit[r] /\ waiting[r] = s)
  /\ seek_sent' = seek_sent \ {s}
  /\ UNCHANGED <<browserVars, up, down, hand, storeVars, waiting, emit, ghosts>>

-----------------------------------------------------------------------------
Browser == ReadDone \/ OnMessage \/ \E s \in Segs : RetryTimer(s)
Connection == TakeSegment \/ TakeFinish \/ Answer
Reader(r) == Emit(r) \/ Tick(r) \/ Deliver(r)

Next ==
  \/ Browser \/ SendFinish \/ Fail \/ Connection
  \/ \E r \in Readers :
       Reader(r) \/ GiveUp(r) \/ \E s \in Segs : Miss(r, s)
  \/ \E s \in Segs : SeekWindowEnds(s)

(* File reads end, timers fire, the socket delivers what was sent, each    *)
(* thread runs.  Nothing is assumed of new reads, of deadlines, of the     *)
(* installation's end or of failures.                                      *)
Fairness ==
  /\ WF_vars(ReadDone) /\ WF_vars(OnMessage) /\ WF_vars(Connection)
  /\ \A s \in Segs : WF_vars(RetryTimer(s)) /\ WF_vars(SeekWindowEnds(s))
  /\ \A r \in Readers : WF_vars(Reader(r))

Spec == Init /\ [][Next]_vars /\ Fairness

-----------------------------------------------------------------------------
(* Properties                                                              *)

\* Every segment sent has exactly one message or answer under way, and every
\* answer finds its flight: demands, read-ahead and baseline never send a
\* segment twice at once, nor is an answer taken for that of another copy
\* ("Also coalesce seeks during the file read", segmentSender.js:73).
FlightsAnswered ==
  \A s \in Segs :
    ~stopped =>
      Cardinality({i \in DOMAIN up : up[i] = Msg("seg", s)})
      + Cardinality({i \in DOMAIN down : down[i].seg = s /\ down[i].op # "seek"})
      + (IF hand.seg = s THEN 1 ELSE 0)
      = (IF s \in snd.sent THEN 1 ELSE 0)

\* "A rejected speculative upload must not allow the baseline to race on"
\* (segmentSender.js:24): however often the session refuses, of the segments
\* nobody sought no more back off than were in flight together.
SpeculationBounded == Cardinality(Backoff(snd) \ sought) <= limit

\* What the browser counts as uploaded the console received: the "finish" it
\* sends when all is acknowledged is never answered "incomplete".
AckedWasReceived == snd.acked \subseteq received /\ ~incomplete

\* A reader parked on a segment is served, however acks, rejections, seeks,
\* read-ahead and evictions fall, unless the upload fails or ends.
DemandServed ==
  \A r \in Readers : waiting[r] # NoSeg ~> (waiting[r] = NoSeg \/ stopped)

(* The session as this module takes it is one that LiveStream provides.    *)
Session == INSTANCE SegmentStore WITH
  phase <- IF over THEN "over" ELSE "live"

ImplementsStore == Session!Spec
=============================================================================
