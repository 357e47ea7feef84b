----------------------------- MODULE DirectUpload -----------------------------
(***************************************************************************)
(* Who owns an upload, in src/src/ws_upload.c: browser windows open, resume *)
(* and cancel the one live session over HTTP, their sockets send it over    *)
(* WebSocket, one socket is the uplink that seeks go to, and an             *)
(* installation (installer.c) reads it.  Every one of them may end the      *)
(* session: a window, the end of the uplink's socket, and the teardown of   *)
(* whatever installation runs.                                              *)
(*                                                                          *)
(* A session is a number, what it stores is LiveStream.tla, the sending of  *)
(* segments UploadLink.tla, the worker's life Installer.tla.                *)
(***************************************************************************)
EXTENDS Integers

CONSTANTS
  Windows,      \* browser windows: the owner tokens
  Socks,        \* descriptors of upload sockets, used again once closed
  Nobody,       \* an empty g_owner, a free lock, no socket
  Kinds,        \* other installations: over the network server ...
  Direct,       \* ... or by the system itself, which may be one of Kinds
  MaxSessions   \* bound: sessions created

ASSUME NobodyAssumption == Nobody \notin Windows \cup Socks
ASSUME ThreadsAssumption == Windows \cap Socks = {}
ASSUME KindsAssumption == (Kinds \cup {Direct}) \cap Nat = {}
ASSUME MaxSessionsAssumption == MaxSessions \in Nat

Sessions == 1 .. MaxSessions
None     == 0

\* What an installation installs: a session or another package.
Jobs == Kinds \cup Sessions

VARIABLES
  \* ws_stream.c: the active session, the last one created
  session, created, aborted, header, reading,
  \* ws_upload.c
  owner, ownerSid, ownerMu, uplink,
  have,          \* the session id a window keeps
  asked,         \* the session that the one install request in flight names,
  headed,        \* and whether it saw a header
  spc, auth, fin, \* a socket's place, authorized_sid and finish_received
  cpc,           \* a thread's place in a cancel
  \* installer.c: is_installing, and the worker
  job, wpc, wjob

streamVars  == <<session, created, aborted, header, reading>>
ownerVars   == <<owner, ownerSid, ownerMu, uplink>>
windowVars  == <<have, asked, headed>>
socketVars  == <<spc, auth, fin>>
installVars == <<job, wpc, wjob>>
vars == <<streamVars, ownerVars, windowVars, socketVars, cpc, installVars>>

Threads == Windows \cup Socks
Cancels == {"idle", "cancel", "check", "abort", "stop", "unlink", "drop", "destroy"}
InLoop  == {"open", "matched", "storing"}

Init ==
  /\ session = None /\ created = 0 /\ aborted = FALSE /\ header = FALSE
  /\ reading = None
  /\ owner = Nobody /\ ownerSid = None /\ ownerMu = Nobody /\ uplink = Nobody
  /\ have = [w \in Windows |-> None]
  /\ asked = None /\ headed = FALSE
  /\ spc = [s \in Socks |-> "closed"]
  /\ auth = [s \in Socks |-> None]
  /\ fin = [s \in Socks |-> FALSE]
  /\ cpc = [t \in Threads |-> "idle"]
  /\ job = None /\ wpc = "none" /\ wjob = None

-----------------------------------------------------------------------------
(* A window's requests                                                     *)

\* ws_direct_owner_matches, g_owner_mu taken.
Matches(w, id) == id # None /\ owner = w /\ ownerSid = id /\ session = id

\* Mutant: a session may begin beside a reader of the last one.
ReadersForgotten == TRUE

\* ws_live_create is refused while a reader of the last session is attached.
ReadersGone == reading = None

(* ws_direct_init_owned with no session active.  Another window's session, *)
(* or readers that are not gone yet, are an answer without effect; so is a *)
(* resume.  If nobody listens, the HTTP handler cancels the session and    *)
(* the window does not get it.                                             *)
HttpInit(w) ==
  /\ ownerMu = Nobody /\ cpc[w] = "idle"
  /\ session = None /\ ReadersGone
  /\ created < MaxSessions
  /\ created' = created + 1
  /\ session' = created + 1
  /\ aborted' = FALSE
  /\ header' = FALSE
  /\ owner' = w
  /\ ownerSid' = created + 1
  /\ \/ have' = [have EXCEPT ![w] = created + 1] /\ UNCHANGED cpc
     \/ cpc' = [cpc EXCEPT ![w] = "unlink"] /\ UNCHANGED have
  /\ UNCHANGED <<reading, ownerMu, uplink, asked, headed, socketVars, installVars>>

(* ws_direct_cancel_owned: the lock stays taken during the cancel.         *)
HttpCancel(w) ==
  /\ ownerMu = Nobody /\ cpc[w] = "idle"
  /\ have[w] # None
  /\ have' = [have EXCEPT ![w] = None]
  /\ IF Matches(w, have[w])
     THEN ownerMu' = w /\ cpc' = [cpc EXCEPT ![w] = "cancel"]
     ELSE UNCHANGED <<ownerMu, cpc>>
  /\ UNCHANGED <<streamVars, owner, ownerSid, uplink, asked, headed, socketVars,
                 installVars>>

(* installer_start_live: the id is checked ...                             *)
AskInstall(w) ==
  /\ have[w] # None /\ asked = None
  /\ session = have[w]
  /\ job = None
  /\ asked' = have[w]
  /\ UNCHANGED <<streamVars, ownerVars, have, headed, socketVars, cpc, installVars>>

(* ... a header is waited for, that of whatever session is active ...      *)
HeaderArrives ==
  /\ asked # None /\ ~headed
  /\ session # None /\ header /\ ~aborted
  /\ headed' = TRUE
  /\ UNCHANGED <<streamVars, ownerVars, have, asked, socketVars, cpc, installVars>>

(* ... and the installation committed, which reads the metadata under      *)
(* g_owner_mu; here, one worker at a time.                                 *)
InstallLive ==
  /\ headed
  /\ ownerMu = Nobody
  /\ job = None /\ wpc = "none"
  /\ job' = asked
  /\ wjob' = asked
  /\ wpc' = "running"
  /\ asked' = None /\ headed' = FALSE
  /\ UNCHANGED <<streamVars, ownerVars, have, socketVars, cpc>>

InstallRefused ==
  /\ asked # None
  /\ asked' = None /\ headed' = FALSE
  /\ UNCHANGED <<streamVars, ownerVars, have, socketVars, cpc, installVars>>

-----------------------------------------------------------------------------
(* A socket's worker, ws_conn_worker                                       *)

\* The descriptor is free for another connection.
Closed(s) ==
  /\ spc' = [spc EXCEPT ![s] = "closed"]
  /\ auth' = [auth EXCEPT ![s] = None]
  /\ fin' = [fin EXCEPT ![s] = FALSE]

InFrameLoop(s) == spc[s] = "open" /\ cpc[s] = "idle"

(* "init", of a new socket or one that was refused: the owner is matched   *)
(* under its lock ...                                                      *)
InitMatches(s, w) ==
  /\ spc[s] = "closed" \/ (InFrameLoop(s) /\ auth[s] = None)
  /\ ownerMu = Nobody
  /\ Matches(w, have[w])
  /\ spc' = [spc EXCEPT ![s] = "matched"]
  /\ auth' = [auth EXCEPT ![s] = have[w]]
  /\ UNCHANGED <<streamVars, ownerVars, windowVars, fin, cpc, installVars>>

\* Mutant: the last socket takes the seeks over.
AnyUplink(s) == TRUE

\* "a second connection cannot take over seeks"
MayUplink(s) == uplink \in {Nobody, s}

(* ... then the uplink is taken, or "Uploader already connected", which    *)
(* leaves the socket in its loop, unauthorized.                            *)
TakeUplink(s) ==
  /\ spc[s] = "matched"
  /\ spc' = [spc EXCEPT ![s] = "open"]
  /\ IF MayUplink(s)
     THEN uplink' = s /\ UNCHANGED auth
     ELSE auth' = [auth EXCEPT ![s] = None] /\ UNCHANGED uplink
  /\ UNCHANGED <<streamVars, owner, ownerSid, ownerMu, windowVars, fin, cpc,
                 installVars>>

\* authorized && ws_live_check_id(authorized_sid)
Authorized(s) == spc[s] # "matched" /\ auth[s] # None /\ auth[s] = session

(* A segment: checked ...                                                  *)
CheckSegment(s) ==
  /\ InFrameLoop(s)
  /\ Authorized(s)
  /\ spc' = [spc EXCEPT ![s] = "storing"]
  /\ UNCHANGED <<streamVars, ownerVars, windowVars, auth, fin, cpc, installVars>>

(* ... and stored in the session that is active then.                      *)
StoreSegment(s) ==
  /\ spc[s] = "storing"
  /\ header' = (header \/ (session # None /\ ~aborted))
  /\ spc' = [spc EXCEPT ![s] = "open"]
  /\ UNCHANGED <<session, created, aborted, reading, ownerVars, windowVars,
                 auth, fin, cpc, installVars>>

(* "finish", every segment being there.                                    *)
Finish(s) ==
  /\ InFrameLoop(s)
  /\ Authorized(s)
  /\ header /\ ~aborted
  /\ fin' = [fin EXCEPT ![s] = TRUE]
  /\ UNCHANGED <<streamVars, ownerVars, windowVars, spc, auth, cpc, installVars>>

(* "cancel"                                                                *)
AskCancel(s) ==
  /\ InFrameLoop(s)
  /\ Authorized(s)
  /\ cpc' = [cpc EXCEPT ![s] = "unlink"]
  /\ UNCHANGED <<streamVars, ownerVars, windowVars, socketVars, installVars>>

\* Mutant: the uplink is left to the descriptor's next socket.
LeftLinked(s) == uplink

Unlinked(s) == IF uplink = s THEN Nobody ELSE uplink

(* conn_done: "uploader disconnected before completion; canceling install" *)
Disconnect(s) ==
  /\ InFrameLoop(s)
  /\ uplink' = Unlinked(s)
  /\ IF uplink = s /\ ~fin[s]
     THEN /\ spc' = [spc EXCEPT ![s] = "ended"]
          /\ cpc' = [cpc EXCEPT ![s] = "cancel"]
          /\ UNCHANGED <<auth, fin>>
     ELSE Closed(s) /\ UNCHANGED cpc
  /\ UNCHANGED <<streamVars, owner, ownerSid, ownerMu, windowVars, installVars>>

Close(s) ==
  /\ spc[s] = "ended" /\ cpc[s] = "idle"
  /\ Closed(s)
  /\ UNCHANGED <<streamVars, ownerVars, windowVars, cpc, installVars>>

-----------------------------------------------------------------------------
(* Cancels, by a window that holds g_owner_mu or by a socket that ended    *)

\* Mutant: readers are waited for before they are woken.
StopFirst == "stop"

\* "unblock live readers before the stop drains vs_refs, then free"
AbortFirst == "abort"

\* Mutant: only the installer is canceled.
InstallerOnly(t) == "idle"

\* ws_direct_cancel_session, if there was nothing to cancel; a socket looks
\* first whether a session is active.
Otherwise(t) == IF t \in Windows THEN "unlink" ELSE "check"

\* g_owner_mu is given back when a cancel ends.
Released(t, place) ==
  IF place = "idle" /\ ownerMu = t THEN Nobody ELSE ownerMu

(* installer_cancel: whatever is installed, unless the system does it ...  *)
CancelInstaller(t) ==
  /\ cpc[t] = "cancel"
  /\ LET cancels == job \notin {None, Direct}
         next == IF cancels THEN AbortFirst ELSE Otherwise(t)
     IN /\ job' = IF cancels THEN None ELSE job
        /\ cpc' = [cpc EXCEPT ![t] = next]
        /\ ownerMu' = Released(t, next)
  /\ UNCHANGED <<streamVars, owner, ownerSid, uplink, windowVars, socketVars, wpc,
                 wjob>>

CheckSession(s) ==
  /\ cpc[s] = "check"
  /\ cpc' = [cpc EXCEPT ![s] = IF session # None THEN "unlink" ELSE "idle"]
  /\ UNCHANGED <<streamVars, ownerVars, windowVars, socketVars, installVars>>

\* A reader's ws_live_read fails: its session was aborted or destroyed.
Woken == aborted \/ session # reading

\* ws_live_abort
Abort == aborted' = (session # None)

(* ... ws_live_abort ...                                                   *)
CancelAborts(t) ==
  /\ cpc[t] = "abort"
  /\ Abort
  /\ cpc' = [cpc EXCEPT ![t] = "stop"]
  /\ UNCHANGED <<session, created, header, reading, ownerVars, windowVars,
                 socketVars, installVars>>

(* ... stream_server_session_stop, which waits for the reader.             *)
CancelStops(t) ==
  /\ cpc[t] = "stop"
  /\ reading = None
  /\ cpc' = [cpc EXCEPT ![t] = "destroy"]
  /\ UNCHANGED <<streamVars, ownerVars, windowVars, socketVars, installVars>>

(* ws_direct_cancel_session: the uplink, ws_live_abort ...                 *)
Unlink(t) ==
  /\ cpc[t] = "unlink"
  /\ uplink' = Nobody
  /\ cpc' = [cpc EXCEPT ![t] = "drop"]
  /\ UNCHANGED <<streamVars, owner, ownerSid, ownerMu, windowVars, socketVars,
                 installVars>>

Drop(t) ==
  /\ cpc[t] = "drop"
  /\ Abort
  /\ cpc' = [cpc EXCEPT ![t] = "destroy"]
  /\ UNCHANGED <<session, created, header, reading, ownerVars, windowVars,
                 socketVars, installVars>>

\* ws_live_destroy
Destroy == session' = None /\ aborted' = FALSE /\ header' = FALSE

(* ... and, in both, ws_live_destroy.                                      *)
CancelDestroys(t) ==
  /\ cpc[t] = "destroy"
  /\ Destroy
  /\ cpc' = [cpc EXCEPT ![t] = "idle"]
  /\ ownerMu' = Released(t, "idle")
  /\ UNCHANGED <<created, reading, owner, ownerSid, uplink, windowVars, socketVars,
                 installVars>>

-----------------------------------------------------------------------------
(* The installer                                                           *)

(* An installation from a disk or a share.                                 *)
InstallOther(kind) ==
  /\ job = None /\ wpc = "none"
  /\ job' = kind /\ wjob' = kind /\ wpc' = "running"
  /\ UNCHANGED <<streamVars, ownerVars, windowVars, socketVars, cpc>>

(* The system reads the package through the live session.                  *)
Attach ==
  /\ wpc = "running"
  /\ wjob = session /\ wjob \in Sessions
  /\ ~aborted /\ reading = None
  /\ reading' = session
  /\ UNCHANGED <<session, created, aborted, header, ownerVars, windowVars,
                 socketVars, cpc, installVars>>

Detach ==
  /\ reading # None
  /\ reading' = None
  /\ UNCHANGED <<session, created, aborted, header, ownerVars, windowVars,
                 socketVars, cpc, installVars>>

(* The worker ends by itself or because it was canceled: is_installing is  *)
(* cleared first, then it releases the live session ("noop for disk        *)
(* installs"): ws_live_abort, the stop of the server, ws_live_destroy.     *)
WorkerEnds ==
  /\ wpc = "running"
  /\ job' = None
  /\ wpc' = "aborting"
  /\ UNCHANGED <<streamVars, ownerVars, windowVars, socketVars, cpc, wjob>>

WorkerAborts ==
  /\ wpc = "aborting"
  /\ Abort
  /\ wpc' = "stopping"
  /\ UNCHANGED <<session, created, header, reading, ownerVars, windowVars,
                 socketVars, cpc, job, wjob>>

WorkerDestroys ==
  /\ wpc = "stopping"
  /\ wjob # Direct => reading = None
  /\ Destroy
  /\ wpc' = "none"
  /\ wjob' = None
  /\ UNCHANGED <<created, reading, ownerVars, windowVars, socketVars, cpc, job>>

-----------------------------------------------------------------------------
WindowStep(w) ==
  HttpInit(w) \/ HttpCancel(w) \/ AskInstall(w)

SocketStep(s) ==
  \/ TakeUplink(s) \/ CheckSegment(s) \/ StoreSegment(s)
  \/ Finish(s) \/ AskCancel(s) \/ Disconnect(s) \/ CheckSession(s) \/ Close(s)
  \/ \E w \in Windows : InitMatches(s, w)

CancelStep(t) ==
  \/ CancelInstaller(t) \/ CancelAborts(t) \/ CancelStops(t)
  \/ Unlink(t) \/ Drop(t) \/ CancelDestroys(t)

InstallerStep ==
  \/ HeaderArrives \/ InstallLive \/ InstallRefused \/ Attach \/ Detach \/ WorkerEnds \/ WorkerAborts \/ WorkerDestroys
  \/ \E kind \in Kinds : InstallOther(kind)

Next ==
  \/ \E w \in Windows : WindowStep(w)
  \/ \E s \in Socks : SocketStep(s)
  \/ \E t \in Threads : CancelStep(t)
  \/ InstallerStep

Spec == Init /\ [][Next]_vars

-----------------------------------------------------------------------------
(* Properties                                                              *)

TypeOK ==
  /\ session \in Sessions \cup {None}
  /\ created \in 0 .. MaxSessions
  /\ aborted \in BOOLEAN
  /\ header \in BOOLEAN
  /\ reading \in Sessions \cup {None}
  /\ owner \in Windows \cup {Nobody}
  /\ ownerSid \in Sessions \cup {None}
  /\ ownerMu \in Windows \cup {Nobody}
  /\ uplink \in Socks \cup {Nobody}
  /\ have \in [Windows -> Sessions \cup {None}]
  /\ asked \in Sessions \cup {None}
  /\ headed \in BOOLEAN
  /\ spc \in [Socks -> InLoop \cup {"ended", "closed"}]
  /\ auth \in [Socks -> Sessions \cup {None}]
  /\ fin \in [Socks -> BOOLEAN]
  /\ cpc \in [Threads -> Cancels]
  /\ job \in Jobs \cup {None}
  /\ wpc \in {"none", "running", "aborting", "stopping"}
  /\ wjob \in Jobs \cup {None}

\* A seek is written to the socket of an authenticated uploader that is still
\* in its loop, never to a descriptor that was closed and may be another
\* connection's now (ws_upload.c:70).
UplinkIsOpen == uplink # Nobody => spc[uplink] \in InLoop /\ auth[uplink] # None

\* The uploader of the active session hears its seeks, or the installer would
\* wait for segments nobody sends: no other socket, old or new, has the uplink
\* unless somebody is about to abort the session (ws_upload.h:20).
UploaderHearsSeeks ==
  \A s \in Socks :
    spc[s] \in InLoop /\ Authorized(s) /\ ~aborted
      => uplink = s \/ \E t \in Threads : cpc[t] = "drop"

\* When the uploader's socket ended before "finish" and its worker is done, its
\* session is not active any more, whatever the installer and the others did
\* meanwhile (test_uploader_disconnect_aborts_session).
DisconnectEnds ==
  \A s \in Socks : spc[s] = "ended" /\ cpc[s] = "idle" => session # auth[s]

\* A window's cancel holds g_owner_mu, which every other window needs, while it
\* waits for the readers (ws_upload.c:270): it waits for none but such as have
\* been woken, never for those of a later session.
OwnerCancelReturns ==
  \A w \in Windows : cpc[w] = "stop" /\ reading # None => Woken

-----------------------------------------------------------------------------
(* The inductive invariant (DirectUploadProofs)                            *)

\* Nobody names a session that was not created yet: ids are not used again.
KnownIds ==
  /\ session <= created /\ ownerSid <= created
  /\ \A w \in Windows : have[w] <= created
  /\ \A s \in Socks : auth[s] <= created

\* A socket that was let in has the id it was let in with.
LetIn == \A s \in Socks : spc[s] \in {"matched", "storing", "ended"} => auth[s] # None

\* A window's cancel keeps the lock until it is over.
OwnerHolds ==
  \A w \in Windows : cpc[w] \in {"cancel", "abort", "stop"} => ownerMu = w

\* A session that a window's cancel waits to destroy is aborted, and there is
\* no other: creating one needs the lock.
StopAborted ==
  \A w \in Windows : cpc[w] = "stop" => aborted \/ session = None

IInv ==
  /\ TypeOK
  /\ KnownIds
  /\ LetIn
  /\ UplinkIsOpen
  /\ UploaderHearsSeeks
  /\ DisconnectEnds
  /\ OwnerHolds
  /\ StopAborted

-----------------------------------------------------------------------------
\* "release the live RAM session (noop for disk installs)" (installer.c:2056):
\* the end of an installation that read no session ends no session.
DiskEndSparesUpload ==
  [][WorkerAborts \/ WorkerDestroys
       => wjob \in Sessions \/ UNCHANGED <<session, aborted>>]_vars

(* The session that windows, sockets and installations share is the feed   *)
(* that LiveStream implements: of its segments only the header, of its     *)
(* readers only the system's.                                              *)
Feed == INSTANCE SegmentFeed WITH
  Readers <- {Nobody}, Segs <- {0}, NoOut <- None,
  gen <- created,
  phase <- IF session = None THEN "none" ELSE IF aborted THEN "aborted" ELSE "live",
  landed <- IF session # None /\ header THEN {0} ELSE {},
  complete <- FALSE,
  src <- [r \in {Nobody} |-> reading],
  out <- [r \in {Nobody} |-> None]

ImplementsFeed == Feed!Spec
=============================================================================
