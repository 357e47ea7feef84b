------------------------------- MODULE Installer -------------------------------
(***************************************************************************)
(* The installation state machine of src/src/installer.c.  Threads of the  *)
(* web server start installations, cancel them or detach from them; a      *)
(* worker thread runs each one and hands over to a queued update when it   *)
(* has succeeded; all share one status record, one handle of the last      *)
(* worker and one stream server.  An action is a critical section of       *)
(* g_installer_mutex, or a call made between two.                          *)
(*                                                                         *)
(* Workers are numbered as they are created; None is no worker.            *)
(***************************************************************************)
EXTENDS Integers, FiniteSets

CONSTANTS
  Starters,     \* web server threads that start installations
  Cancellers,   \* web server threads that cancel or detach
  Readers,      \* connections of the stream server that may wait for a disc
  Kinds,        \* of the packages: read over the network, or from a USB drive
  MayShutdown,  \* whether the daemon is shut down in a behaviour
  MaxWorkers    \* bound: workers created in one behaviour

Workers == 1 .. MaxWorkers
Threads == Starters \cup Workers
None == 0
Main == MaxWorkers + 1   \* the main thread
Stoppers == Workers \cup Cancellers \cup {Main}   \* of the stream server

ASSUME KindsAssumption == Kinds \subseteq {"network", "usb"}
ASSUME ShutdownAssumption == MayShutdown \in BOOLEAN
ASSUME WorkersAssumption == MaxWorkers \in Nat
ASSUME ThreadsAssumption ==
  /\ Starters \cap (0 .. MaxWorkers + 1) = {}
  /\ Cancellers \cap (0 .. MaxWorkers + 1) = {}
ASSUME ReadersAssumption == IsFiniteSet(Readers)

VARIABLES
  \* g_status
  is_installing, failed, is_direct,
  \* the flags, and whether an update is queued
  cancel,       \* g_cancel_stream
  detach,       \* g_detach_direct_storage
  monitor,      \* g_monitor_running
  pending,      \* g_pending_pkg_path is not empty
  \* g_stream_thread, None unless g_stream_thread_created
  handle,
  \* the stream server, g_ss
  running, stopping,
  server,       \* whether it has a stream: vs is not NULL
  refs,         \* vs_refs
  shut,         \* threads that stop it, past the first critical section
  asleep,       \* those that wait on vs_cond
  \* threads
  nworkers,     \* workers created so far
  pc,           \* of starters and workers
  old,          \* the worker a thread has to join
  live,         \* starters of a live session
  mode,         \* how a worker installs: "network", "usb" or "direct"
  kpc,          \* of cancellers
  dpc,          \* of readers
  main          \* the main thread

statusVars == <<is_installing, failed, is_direct>>
flagVars   == <<cancel, detach, monitor, pending>>
serverVars == <<running, stopping, server, refs, shut, asleep>>
jobVars    == <<nworkers, old, live, mode>>
otherVars  == <<kpc, dpc, main>>
vars == <<statusVars, flagVars, handle, serverVars, jobVars, pc, otherVars>>

StartPCs  == {"check", "take", "join", "prepare"}
\* Where a worker stops the stream server, and where it goes from there.
AfterStop == [clear |-> "open", restart |-> "rebegin", reclear |-> "reopen",
              offline |-> "direct", moffline |-> "mdirect",
              release |-> "check", teardown |-> "done"]
StopPCs   == DOMAIN AfterStop
EndPCs    == {"release", "teardown"}
\* Where it starts the server.
OpenPCs   == {"begin", "open", "rebegin", "reopen"}
WorkerPCs == {"begin", "clear", "open", "launch", "submit", "restart", "rebegin",
              "reclear", "reopen", "again", "refused", "offline", "direct",
              "resubmit", "failing", "monitor", "poll", "moffline", "mdirect",
              "mresubmit", "complete", "capture", "release", "teardown", "hofail"}

Alive(w) == pc[w] \notin {"unborn", "done"}

\* install_request_canceled: what ends every wait.
Canceled == cancel \/ ~monitor

Goto(t, p) == pc' = [pc EXCEPT ![t] = p]

-----------------------------------------------------------------------------
Init ==
  /\ is_installing = FALSE /\ failed = FALSE /\ is_direct = FALSE
  /\ cancel = FALSE /\ detach = FALSE /\ monitor = TRUE /\ pending = FALSE
  /\ handle = None
  /\ running = FALSE /\ stopping = FALSE /\ server = FALSE
  /\ refs = 0 /\ shut = {} /\ asleep = {}
  /\ nworkers = 0
  /\ pc = [t \in Threads |-> IF t \in Starters THEN "idle" ELSE "unborn"]
  /\ old = [t \in Threads \cup {Main} |-> None]
  /\ live = {}
  /\ mode = [w \in Workers |-> "network"]
  /\ kpc = [k \in Cancellers |-> "idle"]
  /\ dpc = [r \in Readers |-> "idle"]
  /\ main = "up"

\* What every error exit writes.
Error == is_installing' = FALSE /\ failed' = TRUE /\ UNCHANGED is_direct

-----------------------------------------------------------------------------
(* stream_server_session_stop, called by workers, by a cancel and by the   *)
(* shutdown: a first critical section, and a second one that waits for the *)
(* connections that read the stream.  Between them sockets are shut down   *)
(* and the listener is joined, see StreamServer.                           *)

\* Mutant: the server is left to the next installation.
LeftUp(w) == FALSE

\* Only a worker that streams stops the server when it ends.
StopsAtEnd(w) == mode[w] # "direct"

Ends(w) == pc[w] \in EndPCs

AtStop(t) ==
  \/ t \in Workers /\ pc[t] \in StopPCs /\ (Ends(t) => StopsAtEnd(t))
  \/ t \in Cancellers /\ kpc[t] = "teardown"
  \/ t = Main /\ main = "stop"

StopBegins(t) ==
  /\ AtStop(t) /\ t \notin shut
  /\ running' = FALSE
  /\ stopping' = (stopping \/ running)
  /\ shut' = shut \cup {t}
  /\ UNCHANGED <<statusVars, flagVars, handle, server, refs, asleep, jobVars, pc, otherVars>>

\* Mutant: a stop does not wait for the readers.
DrainSkipped == TRUE

Drained == refs = 0

StopSleeps(t) ==
  /\ t \in shut \ asleep /\ ~Drained
  /\ asleep' = asleep \cup {t}
  /\ UNCHANGED <<statusVars, flagVars, handle, running, stopping, server, refs,
                 shut, jobVars, pc, otherVars>>

\* A worker that has stopped the server goes on.
Leave(w) ==
  /\ Goto(w, AfterStop[pc[w]])
  /\ mode' = IF Ends(w) THEN [mode EXCEPT ![w] = "network"] ELSE mode

Returns(t) ==
  \/ t \in Workers /\ Leave(t) /\ UNCHANGED <<kpc, main>>
  \/ t \in Cancellers /\ kpc' = [kpc EXCEPT ![t] = "idle"] /\ UNCHANGED <<pc, mode, main>>
  \/ t = Main /\ main' = "down" /\ UNCHANGED <<pc, mode, kpc>>

StopEnds(t) ==
  /\ t \in shut \ asleep /\ Drained
  /\ server' = FALSE /\ stopping' = FALSE
  /\ shut' = shut \ {t}
  /\ Returns(t)
  /\ UNCHANGED <<statusVars, flagVars, handle, running, refs, asleep, nworkers, old,
                 live, dpc>>

\* POSIX allows a spurious wake-up.
SpuriousWake(t) ==
  /\ t \in asleep
  /\ asleep' = asleep \ {t}
  /\ UNCHANGED <<statusVars, flagVars, handle, running, stopping, server, refs,
                 shut, jobVars, pc, otherVars>>

-----------------------------------------------------------------------------
(* installer_start_internal, run by a web server thread or, for a queued   *)
(* update, by the worker that has finished; and installer_start_live.      *)

\* A request, for a package or for a live session, while a worker is left.
Start(s) ==
  /\ pc[s] = "idle" /\ nworkers < MaxWorkers
  /\ Goto(s, "check")
  /\ live' \in {live, live \cup {s}}
  /\ UNCHANGED <<statusVars, flagVars, handle, serverVars, nworkers, old, mode, otherVars>>

\* A starter is done with its request.
Idle(s) == Goto(s, "idle") /\ live' = live \ {s}

\* The fast check under the lock; it clears a stale update.
StartCheck(s) ==
  /\ s \in Starters /\ pc[s] = "check"
  /\ IF is_installing
     THEN Idle(s) /\ UNCHANGED pending
     ELSE /\ Goto(s, "take")
          /\ pending' = (pending /\ s \in live)
          /\ UNCHANGED live
  /\ UNCHANGED <<statusVars, cancel, detach, monitor, handle, serverVars, nworkers,
                 old, mode, otherVars>>

\* The same check, when a worker hands over to the update.
HandoffCheck(w) ==
  /\ w \in Workers /\ pc[w] = "check"
  /\ Goto(w, IF detach THEN "done" ELSE "take")
  /\ pending' = (pending /\ (detach \/ is_installing))
  /\ UNCHANGED <<statusVars, cancel, detach, monitor, handle, serverVars, jobVars, otherVars>>

\* Mutant: the handle may be taken twice.
HandleKept == handle

\* The handle of the last worker once a thread has taken it.
HandleTaken == None

\* The worker a thread has to join: the last one, unless it is that one.
ToJoin(t) == IF handle = t THEN None ELSE handle

StartTake(t) ==
  /\ pc[t] = "take"
  /\ old' = [old EXCEPT ![t] = ToJoin(t)]
  /\ handle' = HandleTaken
  /\ Goto(t, IF ToJoin(t) = None THEN "prepare" ELSE "join")
  /\ UNCHANGED <<statusVars, flagVars, serverVars, nworkers, live, mode, otherVars>>

StartJoin(t) ==
  /\ pc[t] = "join"
  /\ ~Alive(old[t])
  /\ old' = [old EXCEPT ![t] = None]
  /\ Goto(t, "prepare")
  /\ UNCHANGED <<statusVars, flagVars, handle, serverVars, nworkers, live, mode, otherVars>>

\* The package is missing or does not fit, or another installation has begun.
StartReject(s) ==
  /\ s \in Starters /\ pc[s] = "prepare"
  /\ Idle(s)
  /\ UNCHANGED <<statusVars, flagVars, handle, serverVars, nworkers, old, mode, otherVars>>

\* The update is missing, or the screen it was queued from was closed.
HandoffReject(w) ==
  /\ w \in Workers /\ pc[w] = "prepare"
  /\ \/ Goto(w, "hofail")
     \/ detach /\ Goto(w, "done")
  /\ UNCHANGED <<statusVars, flagVars, handle, serverVars, jobVars, otherVars>>

\* A starter commits unless an installation runs; a handoff, unless it was
\* detached from.
MayCommit(t) ==
  /\ pc[t] = "prepare"
  /\ IF t \in Workers THEN ~detach ELSE ~is_installing

\* What t installs, and whether it may queue an update; a live session is
\* streamed and queues none, a worker hands over to one package.
KindsOf(t) == IF t \in live THEN {"network"} ELSE Kinds
MayQueue(t) == t \notin live /\ t \notin Workers

\* What a commit of t writes for a package of kind k and, if q, an update.
Committed(t, k, q) ==
  /\ q => MayQueue(t)
  /\ detach' = FALSE
  /\ cancel' = FALSE
  /\ pending' = IF t \in live THEN pending ELSE q
  /\ is_direct' \in {FALSE, k = "usb"}

StartCommit(t) ==
  LET w == nworkers + 1 IN
  /\ MayCommit(t)
  /\ w \in Workers
  /\ \E k \in KindsOf(t), q \in BOOLEAN :
       Committed(t, k, q) /\ mode' = [mode EXCEPT ![w] = k]
  /\ is_installing' = TRUE /\ failed' = FALSE
  /\ nworkers' = w
  /\ handle' = w
  /\ pc' = [pc EXCEPT ![t] = IF t \in Starters THEN "idle" ELSE "done", ![w] = "begin"]
  /\ live' = live \ {t}
  /\ UNCHANGED <<monitor, serverVars, old, otherVars>>

\* pthread_create fails.
StartNoThread(t) ==
  /\ MayCommit(t)
  /\ \E k \in KindsOf(t), q \in BOOLEAN : Committed(t, k, q)
  /\ is_installing' = FALSE /\ failed' = TRUE
  /\ Goto(t, IF t \in Starters THEN "idle" ELSE "hofail")
  /\ live' = live \ {t}
  /\ UNCHANGED <<monitor, handle, serverVars, nworkers, old, mode, otherVars>>

-----------------------------------------------------------------------------
(* stream_installer_worker                                                 *)

\* What no step of a worker but the handoff touches.
Kept == UNCHANGED <<cancel, detach, monitor, handle, nworkers, old, live, otherVars>>

\* Without a network a USB package is installed directly.  A stream server
\* that runs is stopped,
WorkerBegin(w) ==
  /\ pc[w] = "begin"
  /\ \/ /\ mode[w] = "usb" /\ mode' = [mode EXCEPT ![w] = "direct"]
        /\ Goto(w, "launch")
     \/ running /\ Goto(w, "clear") /\ UNCHANGED mode
  /\ Kept /\ UNCHANGED <<statusVars, pending, serverVars>>

\* and one is started where none runs (its port is free), for the helper's
\* first attempt or for another one.
WorkerOpen(w) ==
  /\ pc[w] \in OpenPCs /\ ~running
  /\ running' = TRUE /\ server' = TRUE /\ stopping' = FALSE /\ refs' = 0
  /\ Goto(w, IF pc[w] \in {"begin", "open"} THEN "launch" ELSE "again")
  /\ Kept /\ UNCHANGED <<statusVars, pending, shut, asleep, mode>>

\* It does not start: before it is published, or for want of a listener.
NotOpened ==
  \/ UNCHANGED serverVars
  \/ /\ ~running
     /\ server' = FALSE /\ stopping' = FALSE /\ refs' = 0
     /\ UNCHANGED <<running, shut, asleep>>

\* Nor does an installation whose package is unreadable.
WorkerBeginFails(w) ==
  /\ pc[w] \in {"begin", "open"}
  /\ NotOpened
  /\ Error
  /\ pending' = FALSE
  /\ Goto(w, "done")
  /\ Kept /\ UNCHANGED mode

\* The check for a cancel before the helper is launched.
WorkerLaunch(w) ==
  /\ pc[w] = "launch"
  /\ IF Canceled
     THEN pending' = FALSE /\ Goto(w, "teardown") /\ UNCHANGED is_direct
     ELSE /\ is_direct' = (mode[w] = "direct")
          /\ Goto(w, "submit")
          /\ UNCHANGED pending
  /\ Kept /\ UNCHANGED <<is_installing, failed, serverVars, mode>>

\* The helper had no slot, and the package is submitted again (once here, up
\* to twice in the code),
WorkerRetry(w) ==
  /\ pc[w] = "submit"
  /\ mode[w] # "direct" /\ ~Canceled
  /\ Goto(w, "restart")
  /\ Kept /\ UNCHANGED <<statusVars, pending, serverVars, mode>>

\* to a stream server that has been stopped and is started again.
WorkerRebegin(w) ==
  /\ pc[w] = "rebegin" /\ running
  /\ Goto(w, "reclear")
  /\ Kept /\ UNCHANGED <<statusVars, pending, serverVars, mode>>

WorkerReopenFails(w) ==
  /\ pc[w] \in {"rebegin", "reopen"}
  /\ NotOpened
  /\ Goto(w, "refused")
  /\ Kept /\ UNCHANGED <<statusVars, pending, mode>>

\* The checks for a detach and for a cancel once the helper has answered.  If
\* the network is gone, the stream server is stopped,
WorkerVerify(w) ==
  /\ pc[w] \in {"submit", "again", "refused"}
  /\ IF detach \/ Canceled
     THEN Goto(w, "teardown") /\ pending' = (pending /\ detach)
     ELSE /\ \/ Goto(w, "failing")
             \/ pc[w] # "refused" /\ Goto(w, "monitor")
             \/ pc[w] # "refused" /\ mode[w] = "usb" /\ Goto(w, "offline")
          /\ UNCHANGED pending
  /\ Kept /\ UNCHANGED <<statusVars, serverVars, mode>>

\* the status says that the system installs from the drive,
WorkerDirect(w) ==
  /\ pc[w] \in {"direct", "mdirect"}
  /\ mode' = [mode EXCEPT ![w] = "direct"]
  /\ is_direct' = TRUE
  /\ Goto(w, IF pc[w] = "direct" THEN "resubmit" ELSE "mresubmit")
  /\ Kept /\ UNCHANGED <<is_installing, failed, pending, serverVars>>

\* and the package is submitted again.
WorkerResubmit(w) ==
  /\ pc[w] = "resubmit"
  /\ \E p \in IF detach THEN {"teardown"} ELSE {"monitor", "failing"} : Goto(w, p)
  /\ Kept /\ UNCHANGED <<statusVars, pending, serverVars, mode>>

WorkerFailing(w) ==
  /\ pc[w] = "failing"
  /\ Error
  /\ pending' = FALSE
  /\ Goto(w, "teardown")
  /\ Kept /\ UNCHANGED <<serverVars, mode>>

\* Mutants: the monitor loop misses a cancel, or a detach.
MissesCancel == monitor /\ ~detach
MissesDetach == monitor /\ ~cancel

\* The test of the monitor loop.
KeepGoing == ~Canceled /\ ~detach /\ is_installing

WorkerMonitor(w) ==
  /\ pc[w] = "monitor"
  /\ Goto(w, IF KeepGoing THEN "poll" ELSE "capture")
  /\ Kept /\ UNCHANGED <<statusVars, pending, serverVars, mode>>

\* The installation goes on, or has finished.
WorkerPoll(w) ==
  /\ pc[w] = "poll"
  /\ is_direct' = (is_direct \/ mode[w] = "direct")
  /\ \E p \in {"monitor", "complete"} : Goto(w, p)
  /\ Kept /\ UNCHANGED <<is_installing, failed, pending, serverVars, mode>>

\* The helper was canceled, is lost, reports an error or is too late.
WorkerPollFails(w) ==
  /\ pc[w] = "poll"
  /\ \/ Canceled /\ UNCHANGED statusVars
     \/ Error
  /\ Goto(w, "capture")
  /\ Kept /\ UNCHANGED <<pending, serverVars, mode>>

\* The network is gone while the package streams.
WorkerPollOffline(w) ==
  /\ pc[w] = "poll"
  /\ mode[w] = "usb"
  /\ Goto(w, "moffline")
  /\ Kept /\ UNCHANGED <<statusVars, pending, serverVars, mode>>

WorkerMResubmit(w) ==
  /\ pc[w] = "mresubmit"
  /\ \/ Goto(w, "monitor") /\ UNCHANGED statusVars
     \/ Error /\ Goto(w, "capture")
  /\ Kept /\ UNCHANGED <<pending, serverVars, mode>>

\* An update is queued, and nothing forbids to go on with it.
MayContinue == pending /\ ~Canceled /\ ~detach

WorkerComplete(w) ==
  /\ pc[w] = "complete"
  /\ is_installing' = IF detach THEN is_installing ELSE MayContinue
  /\ Goto(w, "capture")
  /\ Kept /\ UNCHANGED <<failed, is_direct, pending, serverVars, mode>>

WorkerCapture(w) ==
  /\ pc[w] = "capture"
  /\ pending' = (pending /\ ~(MayContinue \/ failed \/ Canceled \/ detach))
  /\ Goto(w, IF MayContinue THEN "release" ELSE "teardown")
  /\ Kept /\ UNCHANGED <<statusVars, serverVars, mode>>

\* The live session is released, and the stream server unless the package was
\* installed directly; a worker that has captured an update then starts it.
WorkerLeaves(w) ==
  /\ Ends(w) /\ ~StopsAtEnd(w)
  /\ Leave(w)
  /\ Kept /\ UNCHANGED <<statusVars, pending, serverVars>>

\* Mutant: a failed handoff leaves the status to the finished base package.
HandoffForgotten == UNCHANGED statusVars

\* The status after a handoff that failed.
HandoffError == Error

WorkerHandoffFails(w) ==
  /\ pc[w] = "hofail"
  /\ HandoffError
  /\ Goto(w, "done")
  /\ Kept /\ UNCHANGED <<pending, serverVars, mode>>

-----------------------------------------------------------------------------
(* installer_cancel and installer_detach_direct_storage                    *)

Cancel(k) ==
  /\ kpc[k] = "idle"
  /\ is_installing /\ ~is_direct
  /\ cancel' = TRUE
  /\ pending' = FALSE
  /\ Error
  /\ kpc' = [kpc EXCEPT ![k] = "teardown"]
  /\ UNCHANGED <<detach, monitor, handle, serverVars, jobVars, pc, dpc, main>>

Detach(k) ==
  /\ kpc[k] = "idle"
  /\ is_installing /\ is_direct
  /\ detach' = TRUE
  /\ pending' = FALSE
  /\ is_installing' = FALSE /\ failed' = FALSE
  /\ UNCHANGED <<is_direct, cancel, monitor, handle, serverVars, jobVars, pc, otherVars>>

-----------------------------------------------------------------------------
(* installer_wait_for_part, called by a connection of the stream server    *)

\* A connection that reads the stream holds it (stream_vs_acquire),
DiscWait(r) ==
  /\ dpc[r] = "idle" /\ running /\ server
  /\ dpc' = [dpc EXCEPT ![r] = "waiting"]
  /\ refs' = refs + 1
  /\ UNCHANGED <<statusVars, flagVars, handle, running, stopping, server, shut,
                 asleep, jobVars, pc, kpc, main>>

\* and lets go of it (stream_vs_release): the last one out wakes one stop.
DiscEnds(r) ==
  /\ dpc[r] = "waiting"
  /\ dpc' = [dpc EXCEPT ![r] = "idle"]
  /\ refs' = IF refs > 0 THEN refs - 1 ELSE 0
  /\ IF stopping /\ refs' = 0 /\ asleep # {}
     THEN \E t \in asleep : asleep' = asleep \ {t}
     ELSE UNCHANGED asleep
  /\ UNCHANGED <<flagVars, handle, running, stopping, server, shut, jobVars, pc, kpc, main>>

DiscFound(r) == DiscEnds(r) /\ UNCHANGED statusVars

\* Mutants: a reader heeds only the shutdown, or only the end of the
\* installation.
BrokenByShutdown == ~monitor
BrokenByEnd == ~is_installing

\* What makes a reader give up: the cancel, the shutdown, or the end of the
\* installation.
Broken == Canceled \/ ~is_installing

DiscBreaks(r) == Broken /\ DiscFound(r)

\* An hour has passed.
DiscTimeout(r) == DiscEnds(r) /\ Error

-----------------------------------------------------------------------------
(* installer_shutdown, which reads the handle without the lock             *)

ShutdownBegin ==
  /\ MayShutdown /\ main = "up"
  /\ cancel' = TRUE /\ monitor' = FALSE
  /\ pending' = FALSE
  /\ main' = "take"
  /\ UNCHANGED <<statusVars, detach, handle, serverVars, jobVars, pc, kpc, dpc>>

ShutdownTake ==
  /\ main = "take"
  /\ old' = [old EXCEPT ![Main] = handle]
  /\ main' = "join"
  /\ UNCHANGED <<statusVars, flagVars, handle, serverVars, nworkers, live, mode, pc, kpc, dpc>>

ShutdownJoin ==
  /\ main = "join"
  /\ old[Main] # None => ~Alive(old[Main])
  /\ handle' = IF old[Main] # None THEN None ELSE handle
  /\ old' = [old EXCEPT ![Main] = None]
  /\ main' = "stop"
  /\ UNCHANGED <<statusVars, flagVars, serverVars, nworkers, live, mode, pc, kpc, dpc>>

-----------------------------------------------------------------------------
StartStep(t) ==
  \/ t \in Starters /\ (StartCheck(t) \/ StartReject(t))
  \/ t \in Workers /\ (HandoffCheck(t) \/ HandoffReject(t))
  \/ StartTake(t) \/ StartJoin(t) \/ StartCommit(t) \/ StartNoThread(t)

WorkerStep(w) ==
  WorkerBegin(w) \/ WorkerOpen(w) \/ WorkerBeginFails(w) \/ WorkerLaunch(w)
    \/ WorkerRetry(w) \/ WorkerRebegin(w) \/ WorkerReopenFails(w) \/ WorkerVerify(w)
    \/ WorkerDirect(w) \/ WorkerResubmit(w) \/ WorkerFailing(w)
    \/ WorkerMonitor(w) \/ WorkerPoll(w) \/ WorkerPollFails(w) \/ WorkerPollOffline(w)
    \/ WorkerMResubmit(w) \/ WorkerComplete(w) \/ WorkerCapture(w) \/ WorkerLeaves(w)
    \/ WorkerHandoffFails(w)

StopStep(t) == StopBegins(t) \/ StopSleeps(t) \/ StopEnds(t)

Shutdown == ShutdownTake \/ ShutdownJoin

Next ==
  \/ \E s \in Starters : Start(s)
  \/ \E t \in Threads : StartStep(t)
  \/ \E w \in Workers : WorkerStep(w)
  \/ \E t \in Stoppers : StopStep(t) \/ SpuriousWake(t)
  \/ \E k \in Cancellers : Cancel(k) \/ Detach(k)
  \/ \E r \in Readers : DiscWait(r) \/ DiscFound(r) \/ DiscTimeout(r)
  \/ ShutdownBegin \/ Shutdown

Spec == Init /\ [][Next]_vars

(* Every thread keeps running, and a reader sees what breaks its wait.     *)
(* Nobody has to start, cancel or detach, a disc may never be inserted,    *)
(* the helper may report progress for ever, and a thread that sleeps on    *)
(* vs_cond is only woken by the reader that picks it.                      *)
Fairness ==
  /\ \A t \in Threads : WF_vars(StartStep(t))
  /\ \A w \in Workers : WF_vars(WorkerStep(w))
  /\ \A t \in Stoppers : WF_vars(StopStep(t))
  /\ \A r \in Readers : WF_vars(DiscBreaks(r))
  /\ WF_vars(Shutdown)

FairSpec == Spec /\ Fairness

-----------------------------------------------------------------------------
(* Properties                                                              *)

\* Every variable keeps its type; workers are born in order, and only a thread
\* that joins one holds its handle.
TypeOK ==
  /\ is_installing \in BOOLEAN /\ failed \in BOOLEAN /\ is_direct \in BOOLEAN
  /\ cancel \in BOOLEAN /\ detach \in BOOLEAN /\ monitor \in BOOLEAN
  /\ pending \in BOOLEAN
  /\ running \in BOOLEAN /\ stopping \in BOOLEAN /\ server \in BOOLEAN
  /\ refs \in Nat /\ shut \subseteq Stoppers /\ asleep \subseteq shut
  /\ nworkers \in 0 .. MaxWorkers
  /\ handle \in 0 .. nworkers
  /\ pc \in [Threads -> {"unborn", "idle", "done"} \cup StartPCs \cup WorkerPCs]
  /\ old \in [Threads \cup {Main} -> 0 .. nworkers]
  /\ live \subseteq Starters
  /\ mode \in [Workers -> {"network", "usb", "direct"}]
  /\ kpc \in [Cancellers -> {"idle", "teardown"}]
  /\ dpc \in [Readers -> {"idle", "waiting"}]
  /\ main \in {"up", "take", "join", "stop", "down"}
  /\ \A w \in Workers : pc[w] = "unborn" <=> w > nworkers
  /\ \A t \in Threads : old[t] # None <=> pc[t] = "join"

\* The status never says that an installation runs when no thread works on
\* one: no exit of a worker, no handoff and no race of starts, cancels and
\* detaches leaves is_installing behind (the web UI would wait for ever, and
\* every later start would be refused), except when the daemon shuts down.
InstallingHasWorker == is_installing /\ monitor => \E w \in Workers : Alive(w)

\* Why it holds: of the workers of an installation that is not flagged to end,
\* one is not on its way out, and does not leave without writing the status or
\* starting the next worker.
Carries(w) ==
  \/ pc[w] \in (StartPCs \cup WorkerPCs) \ {"capture", "teardown"}
  \/ pc[w] = "capture" /\ MayContinue
InstallingIsCarried ==
  /\ is_installing /\ monitor => ~cancel /\ \E w \in Workers : Carries(w)
  /\ is_installing => ~detach

\* The handle of a worker is joined by one thread (joining it twice is
\* undefined), whoever starts and hands over at the same time, and never by
\* the worker itself, which hands over while the handle is its own.
JoinedOnce ==
  \A t, u \in Threads :
    old[t] # None => old[t] # t /\ (t # u => old[t] \notin {old[u], handle})

\* The stream server outlives no installation: whatever the order of a cancel,
\* a restart of the server, a fallback and a handoff, a server that runs or
\* still has a stream has a worker that will stop it.
StreamPCs == WorkerPCs \ {"begin", "clear", "open", "direct", "resubmit", "mdirect",
                          "mresubmit", "hofail"}
Streams(w) == mode[w] # "direct" /\ pc[w] \in StreamPCs
ServerHasWorker ==
  /\ server => \E w \in Workers : Streams(w)
  /\ running => \E w \in Workers : Streams(w) /\ w \notin shut

\* Why it holds: a worker that starts or stops a server is not installing
\* directly, and a thread is in a stop where it has called it.
PlacesOK ==
  /\ \A w \in Workers : pc[w] \in OpenPCs \cup (StopPCs \ EndPCs) => mode[w] # "direct"
  /\ \A t \in shut : AtStop(t)

\* The inductive invariant.
IInv == TypeOK /\ InstallingIsCarried /\ JoinedOnce /\ ServerHasWorker /\ PlacesOK

\* A stop that nobody will wake, though the readers have left: stream_vs_release
\* has woken another one (StreamServer's StopReturns), or none since a start has
\* cleared g_ss.stopping.
Stranded(t) == t \in asleep /\ refs = 0
StrandedWorker == \E w \in Workers : Stranded(w)

\* A cancel returns, though it waits for the readers of the session and one of
\* them may wait for a disc: "the disc waiter breaks on cancel/shutdown flags"
\* (stream_server.c:1189).  It does not when a start takes the flag back, nor
\* when its stop overlaps the worker's and is the one that is not woken.
CancelReturns ==
  \A k \in Cancellers :
    (cancel /\ kpc[k] = "teardown") ~> (~cancel \/ kpc[k] = "idle" \/ Stranded(k))

\* A cancel is obeyed by every worker, wherever it is, as long as no start
\* takes it back, but for a worker whose stop is not woken.
Quiet == \A w \in Workers : ~Alive(w)
CancelObeyed == cancel ~> (~cancel \/ Quiet \/ StrandedWorker)

\* So is a detach.
DetachObeyed == detach ~> (~detach \/ Quiet \/ StrandedWorker)

\* A shutdown ends, in the middle of a handoff too, unless its own stop or that
\* of the worker it joins is not woken.
ShutdownEnds == main = "take" ~> (main = "down" \/ Stranded(Main) \/ StrandedWorker)

\* "The next worker must only start after the first worker has completely
\* stopped using the stream server." (installer.c:2030)
OneServerUser ==
  \A v, w \in Workers :
    v # w /\ Streams(v) => ~Streams(w) /\ pc[w] \notin {"begin", "clear", "open"}

\* A cancel holds until the user starts another installation (a handoff to a
\* queued update does not take it back).
CancelHolds == [][cancel /\ ~cancel' => \E s \in Starters : pc[s] # pc'[s]]_vars

(* What the workers, the cancels and the shutdown make of the stream       *)
(* server, while one worker uses it at a time, is what StreamServer        *)
(* provides.                                                               *)
Lease == INSTANCE StreamLease WITH
  Users <- Readers, Sources <- {1}, NoStream <- None,
  current <- IF server THEN 1 ELSE None,
  held <- [r \in Readers |-> IF dpc[r] = "waiting" THEN 1 ELSE None]

ImplementsLease == Lease!Spec
=============================================================================
