----------------------------- MODULE StreamServer -----------------------------
(***************************************************************************)
(* The raw HTTP server of src/src/stream_server.c that serves one package  *)
(* to the system installer: sessions are started and stopped by the        *)
(* install worker, stopped also by whoever cancels, while a listener       *)
(* thread accepts connections and one detached thread serves each.  An     *)
(* action is a critical section of g_ss.mutex or a step between two.       *)
(*                                                                         *)
(* A stream, its listening socket, its listener thread and its URI are all *)
(* named by the number of their session; 0 is none (NULL, -1, "").  A      *)
(* connection is named by its file descriptor, which is used again.        *)
(***************************************************************************)
EXTENDS Integers, FiniteSets

CONSTANTS
  Worker,       \* the install worker, the only thread that starts sessions
  Cancellers,   \* threads that stop a session: a cancel, the shutdown
  Conns,        \* connection descriptors
  MaxTracked,   \* STREAM_MAX_TRACKED_FDS
  MaxSessions   \* bound: sessions started in one behaviour

ASSUME ThreadsAssumption ==
  /\ Worker \notin Cancellers
  /\ IsFiniteSet(Conns)
ASSUME BoundsAssumption == MaxTracked \in Nat \ {0} /\ MaxSessions \in Nat

Ctl  == {Worker} \cup Cancellers
Sids == 1 .. MaxSessions
None == 0

VARIABLES
  \* g_ss
  running, stopping, thread_created,
  thread,       \* the session whose listener g_ss.thread names
  listen_fd,    \* the session whose socket g_ss.listen_fd names
  vs, vs_refs, live_fds, session_name,
  \* threads and resources
  nsess,        \* sessions opened so far
  bound,        \* the session whose listening socket is open
  open,         \* streams opened and not closed
  listeners,    \* listener threads running
  issued,       \* sessions whose URI the system installer was given
  \* the control threads
  tpc, join, lfd, kick, signalled,
  \* the connections
  cpc, req, pin, kicked

ssVars    == <<running, stopping, thread_created, thread, listen_fd,
               vs, vs_refs, live_fds, session_name>>
worldVars == <<nsess, bound, open, listeners, issued>>
ctlVars   == <<tpc, join, lfd, kick, signalled>>
connVars  == <<cpc, req, pin, kicked>>
vars      == <<ssVars, worldVars, ctlVars, connVars>>

Stops == {"kick", "join", "lock", "waiting"}
TPCs  == {"idle", "opening", "up"} \cup Stops
CPCs  == {"free", "accepted", "probe", "top", "recv", "route", "acquire",
          "body", "closing"}

Pinned == {c \in Conns : pin[c] # None}

\* Mutant: a pin is granted while the session stops.
ServingLate == vs # None

\* stream_vs_acquire grants a pin.
Serving == running /\ vs # None

\* Mutant: the stop does not wait for the pins.
DrainSkipped == TRUE

\* Nothing is in flight.
Drained == vs_refs = 0

\* Mutant: the last release does not signal.
WakesNever == FALSE

\* A release signals the condition (its counter is already dropped).
Wakes == stopping /\ vs_refs' = 0

\* Mutant: the error path leaves the stream open.
LeftOpen(n) == open

\* The stream n is closed again when the start fails.
ClosedAgain(n) == open \ {n}

-----------------------------------------------------------------------------
Init ==
  /\ running = FALSE /\ stopping = FALSE /\ thread_created = FALSE
  /\ thread = None /\ listen_fd = None /\ vs = None /\ vs_refs = 0
  /\ live_fds = {} /\ session_name = None
  /\ nsess = 0 /\ bound = None /\ open = {} /\ listeners = {} /\ issued = {}
  /\ tpc = [t \in Ctl |-> "idle"]
  /\ join = [t \in Ctl |-> FALSE]
  /\ lfd = [t \in Ctl |-> None]
  /\ kick = [t \in Ctl |-> {}]
  /\ signalled = {}
  /\ cpc = [c \in Conns |-> "free"]
  /\ req = [c \in Conns |-> None]
  /\ pin = [c \in Conns |-> None]
  /\ kicked = {}

Goto(t, p) == tpc' = [tpc EXCEPT ![t] = p]
Move(c, p) == cpc' = [cpc EXCEPT ![c] = p]

-----------------------------------------------------------------------------
(* stream_server_session_start, by the worker, which has stopped what it   *)
(* started before: the check of g_ss.running and virtual_stream_open, then *)
(* socket, bind and listen, then the publication under the lock.           *)

StartOpen ==
  /\ tpc[Worker] = "idle"
  /\ ~running
  /\ nsess < MaxSessions
  /\ nsess' = nsess + 1
  /\ open' = open \cup {nsess + 1}
  /\ Goto(Worker, "opening")
  /\ UNCHANGED <<ssVars, bound, listeners, issued, join, lfd, kick, signalled, connVars>>

\* The port is still bound, or socket, listen or pthread_create failed.
StartFail ==
  /\ tpc[Worker] = "opening"
  /\ open' = ClosedAgain(nsess)
  /\ Goto(Worker, "idle")
  /\ UNCHANGED <<ssVars, nsess, bound, listeners, issued, join, lfd, kick, signalled, connVars>>

StartPublish ==
  /\ tpc[Worker] = "opening"
  /\ bound = None
  /\ bound' = nsess
  /\ vs' = nsess
  /\ vs_refs' = 0
  /\ stopping' = FALSE
  /\ listen_fd' = nsess
  /\ running' = TRUE
  /\ session_name' = None
  /\ thread' = nsess
  /\ thread_created' = TRUE
  /\ listeners' = listeners \cup {nsess}
  /\ Goto(Worker, "up")
  /\ UNCHANGED <<live_fds, nsess, open, issued, join, lfd, kick, signalled, connVars>>

\* stream_server_set_session_name; the URI then goes to the installer.
SetSessionName ==
  /\ tpc[Worker] = "up"
  /\ nsess \notin issued
  /\ session_name' = nsess
  /\ issued' = issued \cup {nsess}
  /\ UNCHANGED <<running, stopping, thread_created, thread, listen_fd, vs,
                 vs_refs, live_fds, nsess, bound, open, listeners, ctlVars, connVars>>

-----------------------------------------------------------------------------
(* stream_server_session_stop_internal                                     *)

StopEnter(t) ==
  /\ tpc[t] \in {"idle", "up"}
  /\ IF running \/ thread_created
     THEN /\ running' = FALSE
          /\ stopping' = TRUE
          /\ join' = [join EXCEPT ![t] = thread_created]
          /\ thread_created' = FALSE
     ELSE UNCHANGED <<running, stopping, join, thread_created>>
  /\ lfd' = [lfd EXCEPT ![t] = listen_fd]
  /\ listen_fd' = None
  /\ kick' = [kick EXCEPT ![t] = live_fds]
  /\ live_fds' = {}
  /\ Goto(t, "kick")
  /\ UNCHANGED <<thread, vs, vs_refs, session_name, worldVars, signalled, connVars>>

\* The sockets are shut down without the lock, whoever owns them by now.
StopKick(t) ==
  /\ tpc[t] = "kick"
  /\ kicked' = kicked \cup {c \in kick[t] : cpc[c] # "free"}
  /\ bound' = IF lfd[t] # None THEN None ELSE bound
  /\ kick' = [kick EXCEPT ![t] = {}]
  /\ lfd' = [lfd EXCEPT ![t] = None]
  /\ Goto(t, "join")
  /\ UNCHANGED <<ssVars, nsess, open, listeners, issued, join, signalled, cpc, req, pin>>

\* pthread_join(g_ss.thread): the thread that name denotes now.
StopJoin(t) ==
  /\ tpc[t] = "join"
  /\ join[t] => thread \notin listeners
  /\ join' = [join EXCEPT ![t] = FALSE]
  /\ Goto(t, "lock")
  /\ UNCHANGED <<ssVars, worldVars, lfd, kick, signalled, connVars>>

\* The rest of the function once nothing is in flight.
CloseSession(t) ==
  /\ open' = open \ {vs}
  /\ vs' = None
  /\ stopping' = FALSE
  /\ session_name' = None
  /\ Goto(t, "idle")
  /\ UNCHANGED <<running, thread_created, thread, listen_fd, vs_refs, live_fds,
                 nsess, bound, listeners, issued, join, lfd, kick, connVars>>

StopLock(t) ==
  /\ tpc[t] = "lock"
  /\ \/ Drained /\ CloseSession(t) /\ UNCHANGED signalled
     \/ /\ ~Drained
        /\ Goto(t, "waiting")
        /\ UNCHANGED <<ssVars, worldVars, join, lfd, kick, signalled, connVars>>

StopWake(t) ==
  /\ tpc[t] = "waiting"
  /\ t \in signalled
  /\ signalled' = signalled \ {t}
  /\ \/ Drained /\ CloseSession(t)
     \/ /\ ~Drained
        /\ UNCHANGED <<ssVars, worldVars, tpc, join, lfd, kick, connVars>>

\* POSIX allows a spurious wake-up.
SpuriousWake(t) ==
  /\ tpc[t] = "waiting"
  /\ t \notin signalled
  /\ Drained
  /\ CloseSession(t)
  /\ UNCHANGED signalled

-----------------------------------------------------------------------------
(* listener_fn                                                             *)

Accept(n, c) ==
  /\ n \in listeners
  /\ bound # None
  /\ cpc[c] = "free"
  /\ Move(c, "accepted")
  /\ UNCHANGED <<ssVars, worldVars, ctlVars, req, pin, kicked>>

ListenerExit(n) ==
  /\ n \in listeners
  /\ ~running
  /\ listeners' = listeners \ {n}
  /\ UNCHANGED <<ssVars, nsess, bound, open, issued, ctlVars, connVars>>

-----------------------------------------------------------------------------
(* connection_worker, serve_connection, serve_one_request                  *)

\* stream_track_add: a full table leaves the descriptor out.
Track(c) ==
  /\ cpc[c] = "accepted"
  /\ live_fds' = IF Cardinality(live_fds) < MaxTracked
                 THEN live_fds \cup {c} ELSE live_fds
  /\ Move(c, "probe")
  /\ UNCHANGED <<running, stopping, thread_created, thread, listen_fd, vs, vs_refs,
                 session_name, worldVars, ctlVars, req, pin, kicked>>

\* stream_vs_acquire, then the read of the SMB url or of the body.
Acquire(c) ==
  /\ Serving
  /\ pin' = [pin EXCEPT ![c] = vs]
  /\ vs_refs' = vs_refs + 1
  /\ Move(c, "body")
  /\ UNCHANGED <<running, stopping, thread_created, thread, listen_fd, vs,
                 live_fds, session_name, worldVars, ctlVars, req, kicked>>

\* The first pin of a connection serves to open a private SMB session.
Probe(c) ==
  /\ cpc[c] = "probe"
  /\ \/ Acquire(c)
     \/ ~Serving /\ Move(c, "top") /\ UNCHANGED <<ssVars, worldVars, ctlVars, req, pin, kicked>>

\* The loop test of the keep-alive loop.
Top(c) ==
  /\ cpc[c] = "top"
  /\ Move(c, IF running THEN "recv" ELSE "closing")
  /\ UNCHANGED <<ssVars, worldVars, ctlVars, req, pin, kicked>>

\* A request for the URI of session n arrives.
Recv(c, n) ==
  /\ cpc[c] = "recv"
  /\ c \notin kicked
  /\ n \in issued
  /\ req' = [req EXCEPT ![c] = n]
  /\ Move(c, "route")
  /\ UNCHANGED <<ssVars, worldVars, ctlVars, pin, kicked>>

\* Mutant: a shut down socket does not end the wait.
RecvStuck(c) ==
  /\ cpc[c] = "recv"
  /\ c \notin kicked
  /\ Move(c, "closing")
  /\ UNCHANGED <<ssVars, worldVars, ctlVars, req, pin, kicked>>

\* End of file, an error, the 30 s timeout or a shutdown of the socket.
RecvEnd(c) ==
  /\ cpc[c] = "recv"
  /\ Move(c, "closing")
  /\ UNCHANGED <<ssVars, worldVars, ctlVars, req, pin, kicked>>

\* The name check.  A wrong name is answered 404, a HEAD or a bad range
\* without a body; the connection is kept or closed.
Route(c) ==
  /\ cpc[c] = "route"
  /\ \/ /\ session_name \in {None, req[c]}
        /\ Move(c, "acquire")
        /\ UNCHANGED req
     \/ /\ \E p \in {"top", "closing"} : Move(c, p)
        /\ req' = [req EXCEPT ![c] = None]
  /\ UNCHANGED <<ssVars, worldVars, ctlVars, pin, kicked>>

\* The headers go out (not to a socket shut down), then the body pins the
\* stream.
BodyStart(c) ==
  /\ cpc[c] = "acquire"
  /\ \/ Acquire(c)
     \/ /\ ~Serving \/ c \in kicked
        /\ Move(c, "closing")
        /\ UNCHANGED <<ssVars, worldVars, ctlVars, req, pin, kicked>>

\* The transfer is over, one way or another: stream_vs_release.
BodyEnd(c) ==
  /\ cpc[c] = "body"
  /\ vs_refs' = IF vs_refs > 0 THEN vs_refs - 1 ELSE vs_refs
  /\ \/ /\ Wakes
        /\ \E t \in Ctl : tpc[t] = "waiting" /\ t \notin signalled
                          /\ signalled' = signalled \cup {t}
     \/ /\ Wakes => \A t \in Ctl : tpc[t] = "waiting" => t \in signalled
        /\ UNCHANGED signalled
  /\ pin' = [pin EXCEPT ![c] = None]
  /\ req' = [req EXCEPT ![c] = None]
  /\ \E p \in {"top"} \cup (IF req[c] = None THEN {} ELSE {"closing"}) : Move(c, p)
  /\ UNCHANGED <<running, stopping, thread_created, thread, listen_fd, vs, live_fds,
                 session_name, worldVars, tpc, join, lfd, kick, kicked>>

\* stream_track_remove and close.
CloseConn(c) ==
  /\ cpc[c] = "closing"
  /\ live_fds' = live_fds \ {c}
  /\ kicked' = kicked \ {c}
  /\ req' = [req EXCEPT ![c] = None]
  /\ Move(c, "free")
  /\ UNCHANGED <<running, stopping, thread_created, thread, listen_fd, vs, vs_refs,
                 session_name, worldVars, ctlVars, pin>>

-----------------------------------------------------------------------------
StopStep(t) == StopKick(t) \/ StopJoin(t) \/ StopLock(t) \/ StopWake(t)
ConnStep(c) ==
  Track(c) \/ Probe(c) \/ Top(c) \/ RecvEnd(c) \/ Route(c) \/ BodyStart(c)
    \/ BodyEnd(c) \/ CloseConn(c)

Next ==
  \/ StartOpen \/ StartFail \/ StartPublish \/ SetSessionName
  \/ \E t \in Ctl : StopEnter(t) \/ StopStep(t) \/ SpuriousWake(t)
  \/ \E n \in Sids : ListenerExit(n) \/ \E c \in Conns : Accept(n, c)
  \/ \E c \in Conns : ConnStep(c) \/ \E n \in Sids : Recv(c, n)

Spec == Init /\ [][Next]_vars

(* Every thread keeps running, and a transfer ends: reads and writes have  *)
(* timeouts, and the loop leaves when the session stops.  No client, no    *)
(* start, no stop and no spurious wake-up is promised.                     *)
Fairness ==
  /\ \A t \in Ctl : WF_vars(StopStep(t))
  /\ \A n \in Sids : WF_vars(ListenerExit(n))
  /\ \A c \in Conns : WF_vars(ConnStep(c))

FairSpec == Spec /\ Fairness

-----------------------------------------------------------------------------
(* Properties                                                              *)

\* Every variable keeps its type.
TypeOK ==
  /\ running \in BOOLEAN /\ stopping \in BOOLEAN /\ thread_created \in BOOLEAN
  /\ thread \in 0 .. MaxSessions /\ listen_fd \in 0 .. MaxSessions
  /\ vs \in 0 .. MaxSessions /\ vs_refs \in Nat
  /\ live_fds \subseteq Conns /\ session_name \in 0 .. MaxSessions
  /\ nsess \in 0 .. MaxSessions /\ bound \in 0 .. MaxSessions
  /\ open \subseteq Sids /\ listeners \subseteq Sids /\ issued \subseteq Sids
  /\ tpc \in [Ctl -> TPCs] /\ join \in [Ctl -> BOOLEAN]
  /\ lfd \in [Ctl -> 0 .. MaxSessions] /\ kick \in [Ctl -> SUBSET Conns]
  /\ signalled \subseteq Ctl
  /\ cpc \in [Conns -> CPCs] /\ req \in [Conns -> 0 .. MaxSessions]
  /\ pin \in [Conns -> 0 .. MaxSessions] /\ kicked \subseteq Conns

\* The stream a connection reads is open: neither the worker's stop nor a
\* cancel that overlaps it or is late frees it under a transfer.
PinnedOpen == \A c \in Conns : pin[c] # None => pin[c] \in open

\* Every open stream is the session's or that of a start under way: none is
\* leaked, whatever fails or overlaps (a leaked one keeps its files, its SMB
\* session or its live reference).
NoLeak ==
  open \subseteq {vs} \cup (IF tpc[Worker] = "opening" THEN {nsess} ELSE {})

\* "Refs always drain: transfers abort on the shutdown above"
\* (stream_server.c:1188): once a stop has begun, every transfer in flight is
\* one whose socket is shut down or about to be.
DrainReachesAll ==
  stopping /\ Cardinality(Conns) <= MaxTracked
    => Pinned \subseteq kicked \cup UNION {kick[t] : t \in Ctl}

\* What makes them inductive: the count is exact, pins are on the current
\* stream, and the worker is idle only when the server is.
PinsExact ==
  /\ vs_refs = Cardinality(Pinned)
  /\ \A c \in Conns : pin[c] # None => pin[c] = vs /\ cpc[c] = "body"
  /\ \A c \in Conns : cpc[c] = "body" => pin[c] # None

SessionOK ==
  /\ vs # None => vs \in open
  /\ \A n \in open : n <= nsess
  /\ tpc[Worker] \in {"idle", "opening"} => ~running /\ vs = None
  /\ tpc[Worker] \in Stops => ~running
  /\ tpc[Worker] = "opening" => nsess \in open
  /\ tpc[Worker] = "up" => nsess # None

\* While the table holds every descriptor, a connection past Track is in it
\* until a stop takes it out, and a stop forgets none it took.
TrackedOK ==
  /\ \A t \in Ctl : tpc[t] # "kick" => kick[t] = {}
  /\ Cardinality(Conns) <= MaxTracked =>
       \A c \in Conns : cpc[c] \notin {"free", "accepted"} =>
         c \in live_fds \cup kicked \cup UNION {kick[t] : t \in Ctl}

\* The inductive invariant.
IInv ==
  /\ TypeOK /\ PinsExact /\ SessionOK /\ NoLeak
  /\ TrackedOK /\ (stopping => ~running) /\ DrainReachesAll

\* A stop that has begun is finished.
StoppingEnds == stopping ~> ~stopping

\* "Shutting everything down unblocks recv/send/keep-alive-idle workers so
\* they exit" (stream_server.c:1172): a connection that was shut down ends.
KickedEnds == \A c \in Conns : c \in kicked ~> c \notin kicked

\* "cancel and session-stop always make progress" (ws_stream.h:23): every
\* call of stream_server_session_stop returns.
StopReturns == \A t \in Ctl : tpc[t] \in Stops ~> tpc[t] \notin Stops

\* "each installation pins an exact session filename ... Any stray or
\* unexpected requests immediately return 404" (ARCHITECTURE.md:122): the
\* bytes sent for the URI of a session come from its stream.  A transfer on a
\* socket shut down sends nothing.
ServedAsNamed ==
  \A c \in Conns \ kicked : pin[c] # None /\ req[c] # None => pin[c] = req[c]

(* What the threads that start and stop may rely on: how a stop drains the *)
(* connections, in how many steps, and who else stops, hidden.             *)
Lease == INSTANCE StreamLease WITH
  Users <- Conns, Sources <- Sids, NoStream <- None, current <- vs, held <- pin

ImplementsLease == Lease!Spec
=============================================================================
