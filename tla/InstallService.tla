---------------------------- MODULE InstallService ----------------------------
(***************************************************************************)
(* An installation's second process: the client side of                    *)
(* src/src/install_service.c and install_process.c in the daemon, and the  *)
(* helper of src/src/install_helper.c, one new process per start, with its *)
(* protocol thread and the watcher of its parent.  They share a socket and *)
(* nothing else; native calls may never return, either side may die.       *)
(*                                                                         *)
(* Several callers may run at once: the install worker and the thread that *)
(* registers the shortcut.  Both listen on one port, so a helper may be    *)
(* accepted by another caller than the one that spawned it, or by a later  *)
(* start than its own.                                                     *)
(*                                                                         *)
(* The socket keeps order, so messages are numbered instead of kept: reply *)
(* 1 of a helper is READY, request k is answered by reply k + 1.           *)
(***************************************************************************)
EXTENDS Integers

CONSTANTS
  Callers,      \* threads that use the service
  Pollers,      \* those that install and poll; the others register a shortcut
  NoCaller,
  MaxHelpers,   \* bound: helpers spawned in one behaviour
  MaxRequests   \* bound: requests sent to one helper before its CLOSE

ASSUME CallersAssumption == Pollers \subseteq Callers /\ NoCaller \notin Callers
ASSUME BoundsAssumption == MaxHelpers \in Nat /\ MaxRequests \in Nat \ {0}

Helpers  == 1 .. MaxHelpers   \* also their process ids
NoHelper == 0

VARIABLES
  alive,     \* the daemon runs
  \* install_service_t, and where its owner is
  cst, conn, pid, usable,
  \* a helper's place, the listener it connected to, and what it was given
  spawned, hst, link, initialized, installed, job,
  killed,    \* processes that were sent SIGKILL
  \* the socket: requests sent and taken, replies sent and read
  sent, taken, replied, read,
  closing,   \* the last request sent is CLOSE
  eof        \* the daemon's end of the helper's socket is gone

clientVars == <<cst, conn, pid, usable>>
helperVars == <<hst, link, initialized, installed, job>>
socketVars == <<sent, taken, replied, read, closing, eof>>
vars == <<alive, clientVars, spawned, killed, helperVars, socketVars>>

CStates == {"idle", "listening", "greeting", "open", "waiting", "leaving",
            "closing", "reaping"}
HStates == {"none", "booting", "init", "ready", "native", "ending", "dead"}

\* A helper in install_helper_serve.
Serving(h) == hst[h] \in {"init", "ready", "native", "ending"}
Given(h) == job[h] # NoCaller

Init ==
  /\ alive = TRUE
  /\ cst = [c \in Callers |-> "idle"]
  /\ conn = [c \in Callers |-> NoHelper]
  /\ pid = [c \in Callers |-> NoHelper]
  /\ usable = [c \in Callers |-> FALSE]
  /\ spawned = 0 /\ killed = {}
  /\ hst = [h \in Helpers |-> "none"]
  /\ link = [h \in Helpers |-> NoCaller]
  /\ initialized = [h \in Helpers |-> FALSE]
  /\ installed = [h \in Helpers |-> FALSE]
  /\ job = [h \in Helpers |-> NoCaller]
  /\ sent = [h \in Helpers |-> 0]
  /\ taken = [h \in Helpers |-> 0]
  /\ replied = [h \in Helpers |-> 0]
  /\ read = [h \in Helpers |-> 0]
  /\ closing = [h \in Helpers |-> FALSE]
  /\ eof = [h \in Helpers |-> FALSE]

-----------------------------------------------------------------------------
(* The daemon                                                              *)

(* install_service_start, open_service, install_process_start: listen,     *)
(* hand the program to the loader; or fail on the way.                     *)
Start(c) ==
  /\ alive
  /\ cst[c] = "idle"
  /\ spawned < MaxHelpers
  /\ spawned' = spawned + 1
  /\ hst' = [hst EXCEPT ![spawned + 1] = "booting"]
  /\ cst' = [cst EXCEPT ![c] = "listening"]
  /\ UNCHANGED <<alive, conn, pid, usable, killed, link, initialized, installed, job,
                 socketVars>>

\* The helpers in the backlog of c's listener: a close resets them.
Backlog(c) == {h \in Helpers : link[h] = c /\ conn[c] # h /\ ~eof[h]}
Reset(S) == [h \in Helpers |-> h \in S \/ eof[h]]

Accept(c, h) ==
  /\ alive
  /\ cst[c] = "listening"
  /\ h \in Backlog(c)
  /\ conn' = [conn EXCEPT ![c] = h]
  /\ eof' = Reset(Backlog(c) \ {h})
  /\ cst' = [cst EXCEPT ![c] = "greeting"]
  /\ UNCHANGED <<alive, pid, usable, spawned, killed, helperVars, sent, taken,
                 replied, read, closing>>

(* Nobody connected within 25 s, or an error.                              *)
AcceptFails(c) ==
  /\ alive
  /\ cst[c] = "listening"
  /\ eof' = Reset(Backlog(c))
  /\ cst' = [cst EXCEPT ![c] = "leaving"]
  /\ UNCHANGED <<alive, conn, pid, usable, spawned, killed, helperVars, sent, taken,
                 replied, read, closing>>

\* A whole reply lies in the socket.
Readable(c) == read[conn[c]] < replied[conn[c]]

(* receive_response of READY: the helper's pid is learned from it.         *)
Greet(c) ==
  /\ alive
  /\ cst[c] = "greeting"
  /\ Readable(c)
  /\ read' = [read EXCEPT ![conn[c]] = @ + 1]
  /\ pid' = [pid EXCEPT ![c] = conn[c]]
  /\ usable' = [usable EXCEPT ![c] = initialized[conn[c]]]
  /\ cst' = [cst EXCEPT ![c] = IF initialized[conn[c]] THEN "open" ELSE "leaving"]
  /\ UNCHANGED <<alive, conn, spawned, killed, helperVars, sent, taken, replied,
                 closing, eof>>

\* What a caller may ask next: its one job, then, if it was accepted, how the
\* installation is doing.
MayAsk(c) ==
  LET h == conn[c] IN
    /\ sent[h] < MaxRequests
    /\ sent[h] = 0 \/ (c \in Pollers /\ installed[h])

(* exchange: the request is sent ...                                       *)
Ask(c) ==
  /\ alive
  /\ cst[c] = "open"
  /\ MayAsk(c)
  /\ sent' = [sent EXCEPT ![conn[c]] = @ + 1]
  /\ cst' = [cst EXCEPT ![c] = "waiting"]
  /\ UNCHANGED <<alive, conn, pid, usable, spawned, killed, helperVars, taken,
                 replied, read, closing, eof>>

(* ... and its reply is read.                                              *)
Answered(c) ==
  /\ alive
  /\ cst[c] = "waiting"
  /\ Readable(c)
  /\ read' = [read EXCEPT ![conn[c]] = @ + 1]
  /\ cst' = [cst EXCEPT ![c] = "open"]
  /\ UNCHANGED <<alive, conn, pid, usable, spawned, killed, helperVars, sent, taken,
                 replied, closing, eof>>

\* Mutant: a caller that was not answered in time asks again.
AskAgain == "open"

\* A caller that was not answered stops using the service.
Stop == "leaving"

\* Mutant: the service stays usable.
StillUsable(c) == usable

\* install_ipc_transfer failed.
Unusable(c) == [usable EXCEPT ![c] = FALSE]

(* The deadline passed, the caller was canceled or the peer is gone, in    *)
(* any transfer; nothing was sent if it was the job's.                     *)
TransferFails(c) ==
  /\ alive
  /\ cst[c] \in {"greeting", "open", "waiting"}
  /\ cst[c] = "open" => MayAsk(c)
  /\ usable' = Unusable(c)
  /\ cst' = [cst EXCEPT ![c] = Stop]
  /\ UNCHANGED <<alive, conn, pid, spawned, killed, helperVars, socketVars>>

(* The installation ended, failed or was let go.                           *)
Leave(c) ==
  /\ alive
  /\ cst[c] = "open"
  /\ sent[conn[c]] > 0
  /\ cst' = [cst EXCEPT ![c] = "leaving"]
  /\ UNCHANGED <<alive, conn, pid, usable, spawned, killed, helperVars, socketVars>>

\* shutdown and close of the socket, then a wait for the process if its pid
\* is known.
HangUp(c) ==
  /\ eof' = Reset({conn[c]})
  /\ conn' = [conn EXCEPT ![c] = NoHelper]
  /\ usable' = [usable EXCEPT ![c] = FALSE]
  /\ cst' = [cst EXCEPT ![c] = IF pid[c] = NoHelper THEN "idle" ELSE "reaping"]

(* install_service_close: CLOSE only over a socket in a known state ...    *)
CloseAsks(c) ==
  /\ alive
  /\ cst[c] = "leaving"
  /\ usable[c]
  /\ sent' = [sent EXCEPT ![conn[c]] = @ + 1]
  /\ closing' = [closing EXCEPT ![conn[c]] = TRUE]
  /\ cst' = [cst EXCEPT ![c] = "closing"]
  /\ UNCHANGED <<alive, conn, pid, usable, spawned, killed, helperVars, taken,
                 replied, read, eof>>

(* ... whose answer is awaited for a second ...                            *)
CloseHangsUp(c) ==
  /\ alive
  /\ \/ cst[c] = "leaving" /\ ~usable[c]
     \/ cst[c] = "closing"
  /\ HangUp(c)
  /\ UNCHANGED <<alive, pid, spawned, killed, helperVars, sent, taken, replied, read,
                 closing>>

(* ... then the process gets a second to exit ...                          *)
Reaped(c) ==
  /\ alive
  /\ cst[c] = "reaping"
  /\ hst[pid[c]] = "dead"
  /\ pid' = [pid EXCEPT ![c] = NoHelper]
  /\ cst' = [cst EXCEPT ![c] = "idle"]
  /\ UNCHANGED <<alive, conn, usable, spawned, killed, helperVars, socketVars>>

\* Mutant: a process that does not exit is left behind.
LeftBehind(h) == killed

\* "A system service call may be stuck; never reuse that process."
Killed(h) == killed \cup {h}

(* ... and is killed otherwise, and forgotten whatever came of it: a kill  *)
(* that fails is only logged, and the loader's child cannot be waited for. *)
(* The process may die at any time (Exits), or live on.                    *)
Kill(c) ==
  /\ alive
  /\ cst[c] = "reaping"
  /\ killed' = Killed(pid[c])
  /\ pid' = [pid EXCEPT ![c] = NoHelper]
  /\ cst' = [cst EXCEPT ![c] = "idle"]
  /\ UNCHANGED <<alive, conn, usable, spawned, helperVars, socketVars>>

(* The daemon dies: its sockets close.                                     *)
DaemonDies ==
  /\ alive
  /\ alive' = FALSE
  /\ eof' = Reset({h \in Helpers : link[h] # NoCaller})
  /\ UNCHANGED <<clientVars, spawned, killed, helperVars, sent, taken, replied, read,
                 closing>>

-----------------------------------------------------------------------------
(* The helper                                                              *)

(* main: connects to whoever listens, trying 200 times ...                 *)
Connect(h) ==
  /\ hst[h] = "booting"
  /\ alive
  /\ \E c \in Callers :
       /\ cst[c] = "listening"
       /\ link' = [link EXCEPT ![h] = c]
  /\ hst' = [hst EXCEPT ![h] = "init"]
  /\ UNCHANGED <<alive, clientVars, spawned, killed, initialized, installed, job,
                 socketVars>>

(* ... and exits.                                                          *)
NobodyListens(h) ==
  /\ hst[h] = "booting"
  /\ hst' = [hst EXCEPT ![h] = "dead"]
  /\ UNCHANGED <<alive, clientVars, spawned, killed, link, initialized, installed,
                 job, socketVars>>

(* sceAppInstUtilInitialize returned; READY carries its result.            *)
Initialize(h, ok) ==
  /\ hst[h] = "init"
  /\ initialized' = [initialized EXCEPT ![h] = ok]
  /\ replied' = [replied EXCEPT ![h] = 1]
  /\ hst' = [hst EXCEPT ![h] = IF ok THEN "ready" ELSE "dead"]
  /\ UNCHANGED <<alive, clientVars, spawned, killed, link, installed, job, sent,
                 taken, read, closing, eof>>

(* A request is taken off the socket, and its native call begins.          *)
Take(h) ==
  /\ hst[h] = "ready"
  /\ taken[h] < sent[h]
  /\ taken' = [taken EXCEPT ![h] = @ + 1]
  /\ job' = [job EXCEPT ![h] = link[h]]
  /\ hst' = [hst EXCEPT ![h] = "native"]
  /\ UNCHANGED <<alive, clientVars, spawned, killed, link, initialized, installed,
                 sent, replied, read, closing, eof>>

\* The call in progress is that of CLOSE.
ClosingCall(h) == closing[h] /\ taken[h] = sent[h]

(* The native call returned and the response is sent, which fails once the *)
(* daemon's end is gone.                                                   *)
Return(h, ok) ==
  /\ hst[h] = "native"
  /\ installed' = [installed EXCEPT ![h] = IF taken[h] = 1 THEN ok ELSE @]
  /\ replied' = [replied EXCEPT ![h] = @ + 1]
  /\ hst' = [hst EXCEPT ![h] = IF ClosingCall(h) THEN "dead" ELSE "ready"]
  /\ UNCHANGED <<alive, clientVars, spawned, killed, link, initialized, job, sent,
                 taken, read, closing, eof>>

(* The protocol thread leaves its loop, on the end of the socket or after  *)
(* two minutes without a request, and terminates its session.  The         *)
(* deadline is tested before the socket: a request may just have come.     *)
LoopEnds(h) ==
  /\ hst[h] = "ready"
  /\ hst' = [hst EXCEPT ![h] = "ending"]
  /\ UNCHANGED <<alive, clientVars, spawned, killed, link, initialized, installed,
                 job, socketVars>>

(* sceAppInstUtilTerminate returned, the process crashed or was killed.    *)
Exits(h) ==
  /\ Serving(h)
  /\ hst' = [hst EXCEPT ![h] = "dead"]
  /\ UNCHANGED <<alive, clientVars, spawned, killed, link, initialized, installed,
                 job, socketVars>>

\* Mutant: the watcher only looks between two calls.
WatchedIdle(h) == hst[h] = "ready"

\* The watcher runs beside every native call.
Watched(h) == Serving(h)

(* watch_parent: the end of the socket shows only when no unread request   *)
(* lies before it.                                                         *)
WatcherExits(h) ==
  /\ Watched(h)
  /\ eof[h]
  /\ taken[h] = sent[h]
  /\ hst' = [hst EXCEPT ![h] = "dead"]
  /\ UNCHANGED <<alive, clientVars, spawned, killed, link, initialized, installed,
                 job, socketVars>>

-----------------------------------------------------------------------------
CallerStep(c) ==
  \/ Start(c) \/ AcceptFails(c) \/ Greet(c) \/ Ask(c) \/ Answered(c)
  \/ TransferFails(c) \/ Leave(c) \/ CloseAsks(c) \/ CloseHangsUp(c)
  \/ Reaped(c) \/ Kill(c)
  \/ \E h \in Helpers : Accept(c, h)

HelperStep(h) ==
  \/ Connect(h) \/ NobodyListens(h) \/ Take(h) \/ LoopEnds(h)
  \/ Exits(h) \/ WatcherExits(h)
  \/ \E ok \in BOOLEAN : Initialize(h, ok) \/ Return(h, ok)

Next ==
  \/ DaemonDies
  \/ \E c \in Callers : CallerStep(c)
  \/ \E h \in Helpers : HelperStep(h)

Spec == Init /\ [][Next]_vars

(* The threads of a helper run; its attempts to connect run out.  Native   *)
(* calls need not return, and nothing is assumed of the daemon.            *)
Fairness ==
  \A h \in Helpers :
    WF_vars(NobodyListens(h)) /\ WF_vars(Take(h)) /\ WF_vars(WatcherExits(h))

FairSpec == Spec /\ Fairness

-----------------------------------------------------------------------------
(* Properties                                                              *)

TypeOK ==
  /\ alive \in BOOLEAN
  /\ cst \in [Callers -> CStates]
  /\ conn \in [Callers -> Helpers \cup {NoHelper}]
  /\ pid \in [Callers -> Helpers \cup {NoHelper}]
  /\ usable \in [Callers -> BOOLEAN]
  /\ spawned \in 0 .. MaxHelpers /\ killed \subseteq Helpers
  /\ hst \in [Helpers -> HStates]
  /\ link \in [Helpers -> Callers \cup {NoCaller}]
  /\ initialized \in [Helpers -> BOOLEAN]
  /\ installed \in [Helpers -> BOOLEAN]
  /\ job \in [Helpers -> Callers \cup {NoCaller}]
  /\ sent \in [Helpers -> Nat]
  /\ taken \in [Helpers -> Nat]
  /\ replied \in [Helpers -> Nat]
  /\ read \in [Helpers -> Nat]
  /\ closing \in [Helpers -> BOOLEAN]
  /\ eof \in [Helpers -> BOOLEAN]

\* The reply a caller took is that of the request it sent last, also after
\* timeouts, cancels and helpers that answer late: a stale STATUS would be
\* read as the progress of another moment (install_service.c:15).
AnswerIsOwn ==
  \A c \in Callers :
    cst[c] = "open" \/ (cst[c] = "leaving" /\ usable[c])
      => read[conn[c]] = sent[conn[c]] + 1

\* "Parent death must also retire the helper while a native call is blocked"
\* (install_helper.c:53): the watcher only peeks, so an unread request would
\* hide the end of the socket from it.  None is ever sent during a call.
WatcherSees == \A h \in Helpers : hst[h] = "native" => taken[h] = sent[h]

\* "A system service call may be stuck; never reuse that process"
\* (install_service.c:161): whoever accepted whom, at most one of the live
\* processes that were given jobs of a caller has not been sent SIGKILL.  One
\* that was may live on beside the next.
JobsDoNotOverlap ==
  \A g, h \in Helpers :
    job[g] = job[h] /\ Given(g) /\ hst[g] # "dead" /\ hst[h] # "dead"
      => g = h \/ g \in killed \/ h \in killed

\* A helper whose parent closed the socket or died exits, though its native
\* call never returns, unless the request lies unread that it left its loop
\* without.
HelpersRetire ==
  \A h \in Helpers :
    eof[h] ~> (hst[h] = "dead" \/ (hst[h] = "ending" /\ taken[h] < sent[h]))

\* The same without the exception, as the comment at install_helper.c:53 says.
ParentDeathRetires == \A h \in Helpers : eof[h] ~> hst[h] = "dead"

(* The strengthening that makes the invariants inductive.                  *)

\* Requests and replies alternate.
SocketOK ==
  \A h \in Helpers :
    /\ taken[h] <= sent[h] /\ sent[h] <= read[h]
    /\ read[h] <= replied[h] /\ replied[h] <= taken[h] + 1
    /\ hst[h] \in {"none", "booting", "init"} => replied[h] = 0
    /\ hst[h] = "native" => replied[h] = taken[h]
    /\ hst[h] = "ready" => replied[h] = taken[h] + 1
    /\ hst[h] \in {"none", "booting"} => link[h] = NoCaller
    /\ h > spawned => hst[h] = "none"

\* What a caller's place says of its service.
CallersOK ==
  \A c \in Callers :
    /\ cst[c] \in {"idle", "listening", "greeting"} => pid[c] = NoHelper /\ ~usable[c]
    /\ cst[c] \in {"idle", "listening", "reaping"} => conn[c] = NoHelper
    /\ cst[c] \in {"greeting", "open", "waiting", "closing"} => conn[c] # NoHelper
    /\ cst[c] \in {"open", "waiting", "closing"} \/ usable[c]
         => pid[c] # NoHelper /\ pid[c] = conn[c]
    /\ cst[c] = "reaping" => pid[c] # NoHelper /\ ~usable[c]
    /\ conn[c] # NoHelper => link[conn[c]] = c
    /\ pid[c] # NoHelper => read[pid[c]] > 0
    /\ cst[c] = "greeting" => read[conn[c]] = 0
    /\ cst[c] = "waiting" => read[conn[c]] = sent[conn[c]]

\* A helper that nobody accepted yet was not spoken to.
BacklogOK ==
  \A h \in Helpers :
    read[h] > 0 => link[h] # NoCaller /\ (eof[h] \/ conn[link[h]] = h)

\* Only a helper whose pid its caller knows gets requests; it is forgotten
\* when it is dead or has been killed.
JobsOK ==
  \A h \in Helpers :
    /\ Given(h) => job[h] = link[h] /\ sent[h] > 0
    /\ sent[h] > 0 /\ hst[h] # "dead" /\ h \notin killed
         => link[h] # NoCaller /\ pid[link[h]] = h

IInv == TypeOK /\ SocketOK /\ CallersOK /\ BacklogOK /\ JobsOK /\ AnswerIsOwn
=============================================================================
