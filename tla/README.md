# PKG Manager: a TLA+ model of its concurrent core

PKG Manager is a daemon that runs on a games console and installs packages from
USB drives, discs, SMB shares or straight from a browser. The console's own
installer only fetches a package over HTTP, so the daemon serves it one from a
local server, drives the installer through a helper process, and follows its
progress. Almost everything that is hard about it is concurrency: a dozen
threads, one mutex per component, resources torn down by whoever cancels first.

This directory holds TLA+ modules translated from the C sources, TLC
configurations that check them on small instances, and TLAPS proofs that hold for
every instance. Paths below are relative to the repository; line numbers are
those of the commit modelled. `PROJECT.json` maps each definition to its lines.

To check: `tlc -config <run>.cfg MC<module>.tla`, `tlapm <module>Proofs.tla`.

## 1. The system

```
 BROWSER --WebSocket--> DIRECT UPLOAD --segments--> LIVE SESSION <--ranges--+
    |                    ws_upload.c                 ws_stream.c            |
    |                        |cancel                                       |
    +--HTTP--> http server --+--> INSTALLER --start/stop--> STREAM SERVER --+--> virtual stream
               http_server.c      installer.c               stream_server.c     multipart.c
                    |                 |                         ^               (files, discs,
                    v                 v                         | GET            SMB, live)
                 scanner         INSTALL SERVICE ----IPC--> HELPER PROCESS --> system installer
```

Capitals: modelled here.

| Component | State it keeps | Operations | Correct when |
|---|---|---|---|
| Live session, `src/ws_stream.c` | one session (`g_lv`): flags, reference count, a RAM ring of slots, what is resident and what was ever received, waiters per segment | create, try_write, finish, abort, destroy; attach, read, detach | reads return what was uploaded in the reader's session; memory lives exactly as long as it is used; a demanded segment is never refused or evicted |
| Stream server, `src/stream_server.c` | one session (`g_ss`): running, stopping, the stream and its reference count, tracked sockets, the pinned name | start, set name, stop; listener; connections | no stream is freed under a transfer or leaked; a stop ends and reaches every transfer |
| Installer, `src/installer.c` | one status record, cancel, detach and shutdown flags, a queued update, the handle of the last worker | start, start live, cancel, detach, shutdown; worker; disc wait | the status never claims an installation nobody runs; one worker at a time; cancels are obeyed |
| Direct upload, `src/ws_upload.c` | owner and session id, the uplink socket, the listener, 16 tracked sockets | init, seg and binary frames, finish, cancel, close; listener start, stop, stop if idle | the uploader of the active session hears its seeks; a broken upload leaves no session; a cancel that holds the owner's lock ends |
| Browser uploader, `frontend/src/utils/segmentSender.js` | demands, read-ahead, flights, retries, baseline | request, ack, busy, pump, stop | every demanded segment is sent until acknowledged, none twice at once; refused read-ahead does not pile up |
| Virtual stream, `src/multipart.c` | parts with offsets and file descriptors | open, read, close; swap of a disc | a read returns the bytes of its range; no descriptor is used after its close or leaked |
| Install service, `src/install_service.c`, `install_helper.c`, `install_process.c`, `install_ipc.c` | socket and pid of a helper process | start, status, close; the helper's loop and its watcher of the parent | a helper serves one caller, a reply is read as the one it is; no helper outlives its parent or its close |
| Scanner, `src/pkg_scanner.c` | the catalogue, scanned files, drives, one claim | full scan, quick scan, queries, manifest | one scan at a time; a failed listing purges nothing in a quick scan |
| SMB client, `src/smb_client.c` | a connection per file, a pipeline of reads | open, read, close; listing | a read returns a contiguous prefix |
| Others | settings, caches, logs, queries of the console's database, the watchdog of `main.c` | | mostly sequential |

How they interact:

* **Threads.** The web server has one thread per connection, so `installer_start`,
  `installer_cancel` and `installer_detach_direct_storage` may all run at once. An
  installation has one worker thread. The stream server has a listener thread and
  a detached thread per connection. The upload has a listener and a thread per
  socket. The main thread polls a watchdog and shuts the daemon down.
* **Locks.** Each component has one mutex, held over its own state only; joins,
  waits for a disc, seeks and teardowns are made with it released. What was read
  before is used after, and this is where the hazards are.
* **Callbacks.** A read of the live session calls the uplink to ask the browser for
  a segment; a read of a split package calls the installer to wait for a disc, up
  to an hour, while it pins the stream.
* **Teardown.** A cancel writes the status under the lock, then, without it, aborts
  the live session, stops the stream server (which waits for its connections, which
  may wait for a segment or a disc) and destroys the session; the worker does the
  same when it sees the flag.

The hazards of the code, each at its line with the properties that watch it, are
listed in `PROJECT.json`, also those in components without a module.

## 2. Plan

1. `SegmentFeed`, `LiveStream`: the live session and what it promises. **Done.**
2. `StreamServer`. **Done.**
3. `Installer`. **Done.**
4. `UploadLink`: the browser's sender, the socket and the session that accepts or refuses.
   **Done.**
5. `InstallService`: the daemon, its helper processes and their watchers, with deaths on both
   sides. **Done.**
6. `DirectUpload`: windows, sockets, the owner's lock, the installations that end sessions.
   **Done.**
7. `SegmentStore`, `StreamLease`: what the modules take each other for, implemented on both
   sides of a seam and proved to be. **Done.**
8. Left: `VirtualStream` (`multipart.c` 605-786: the swap of descriptors under concurrent
   reads), the listener's lifecycle of `ws_upload.c`, an abstract specification of *one
   installation* for `Installer`, `PipelinedRead` (`smb_client.c` 1084-1281) and `FindRange`
   (`stream_server.c` 286 on) as algorithms, `Scanner` (claims, quick scans against queries).

The modules stay separate: the product of any two is out of TLC's reach. They are tied
at their seams instead: each takes what the others may do as its environment, and what one
assumes another shows. At three seams that is formal: an abstract specification stands
between the two, the module that has the detail is proved to implement it, and the module that
abstracts from the detail is proved to behave as the same specification allows. What the
abstract specification is proved to promise then holds on both sides. (The second half says
that the abstraction does nothing the specification forbids; that it does *everything* the
other side may do is a matter of reading, as a refinement cannot say it.)

| Seam | One side | Other side |
|---|---|---|
| Writes, seeks, evictions | `UploadLink` stores, refuses and evicts as `ws_live_try_write` may (`Stored`, `TakeSegment`): `StoreAssumed` | `SegmentStore`, implemented by `LiveStream`: `StoreImplemented` |
| Sessions | `DirectUpload` numbers sessions and keeps "created", "aborted", "has a header" and one reader: `FeedAssumed` | `SegmentFeed`, implemented by `LiveStream`: `Implementation`. `AbortReleases` is why a reader of an aborted session goes away |
| The stream server | `Installer` has the server running or not, its stream, a count of readers that may wait, and stops that overlap: `LeaseAssumed`, while one worker at a time uses the server | `StreamLease`, implemented by `StreamServer`: `LeaseImplemented` |
| Where seeks go | `UploadLink` has one browser that hears every seek | `DirectUpload`: `UploaderHearsSeeks` |
| Install and cancel | `DirectUpload` has one job and one worker that may end at any time | `Installer` has the worker's life |
| Answers of the helper | `Installer` takes any answer at any time | `InstallService`: which answers there are, and that they are current |

## 3. The modules

### SegmentFeed

What the live session promises, without cache, slots or waiting: one session at a
time, a reader belongs to the session it opened, a read returns the bytes uploaded in
that session, complete means that everything landed, no session begins while a reader
of the last one is attached. Its variables: the session's number and phase, what landed,
and for each reader its session and its last result.

### SegmentStore

The same session seen by writers and parked readers: the resident segments and what was
received, what each reader waits for, the seek it is about to send and the two-second limit.
A write fits or replaces a segment that is neither the header nor awaited; a reader waits only
for what is missing; contents go away only when nobody waits. No slots, no order of use, no
bytes. Its `Init` admits a session that goes on with part of its file, where `UploadLink`
starts.

### StreamLease

What the threads that start and stop the stream server may rely on: at most one stream is
published; a connection holds it, the same one, for the length of its transfer; it is retired,
and another published, only when no connection holds it. How a stop drains, and who else
stops, is hidden.

### LiveStream (`src/ws_stream.c`)

| Variables | Code |
|---|---|
| `sid active aborted upload_complete refs free_pending arrays` | the session's fields of `g_lv`; `arrays` says whether its arrays are allocated |
| `present slot_of slot_seg bytes older acked_ever` | the slot ring; `bytes` is the token of what was copied into a slot; `older` is the order that the stamps `last_use` define |
| `run_hi peak_seg waiters seek_sent` | the marks of the eviction rules, the waiter counts, the two-second limit on seeks |
| `pc want src req need out` | a reader in `virtual_stream_open`, `ws_live_read`, `virtual_stream_close` |

Every function takes the one mutex, so an action is a critical section. A blocking read is
several: the scan that parks, the seek emitted without the mutex (`emitting`), each wake,
the timeout. `OpenCheck` and `OpenAttach` are two actions because the code's are two
critical sections. Create, destroy, abort, writes and finishes come from an environment
that may do anything the API allows at any time.

Abstracted: offsets count units and segments are SEG units; the last segment is full;
a write is of one whole segment (the upload layer rejects any other); a free slot is taken in
any order (the code: the lowest index; nothing depends on it); create with the same
name and size, which returns the running session, changes nothing.

### StreamServer (`src/stream_server.c`)

`running` to `session_name` are the fields of `g_ss`; `bound open listeners issued` are the
resources outside it: the bound port, open streams, listener threads, URIs handed out; `tpc
join lfd kick signalled` are the local variables of the threads that start and stop; `cpc
req pin kicked` those of a connection. Streams, sockets and threads are named by the session
that made them, so "the wrong one" can be expressed. A stop is four steps as in the code:
flags and copies under the lock, shutdown of the sockets without, the join without, the wait
and the close under it again. The condition variable is modelled with its signals, including
the spurious wake-up POSIX allows.

Assumed of the environment: one install worker starts sessions, and stops what it started
before it starts again; so the `if (running) stop` at the top of the start is unreachable
here (two workers can overlap, see section 6). Not modelled: descriptor numbers used again
between the copy and the shutdown (1171-1176), the `pthread_join` of a handle that another
start has overwritten (1183) is there as `thread` but for one worker only, the inline
service of a connection when no thread can be made, icons, ranges.

### Installer (`src/installer.c`)

| Variables | Code |
|---|---|
| `is_installing failed is_direct` | `g_status` |
| `cancel detach monitor pending` | `g_cancel_stream`, `g_detach_direct_storage`, `g_monitor_running`, `g_pending_pkg_path` not empty |
| `handle` | `g_stream_thread` while `g_stream_thread_created` |
| `running stopping server refs` | of the stream server, `g_ss.running`, `stopping`, whether `vs` is not NULL, `vs_refs` |
| `shut asleep` | the threads between the two critical sections of a stop, and those that wait on `vs_cond` |
| `nworkers pc old live mode` | threads: a worker's or starter's place, the worker it must join, live starters, how a worker installs |
| `kpc dpc main` | cancels between their critical section and teardown, connections in `installer_wait_for_part`, the main thread in `installer_shutdown` |

`installer_start_internal` is `StartCheck` (fast check), `StartTake` (the handle),
`StartJoin`, then `StartReject`, `StartCommit` or `StartNoThread`; the handoff to a queued
update is the same operation run by a worker, with its own checks. The worker goes from
`begin` through launch, retries, the fallback to the drive and the monitor loop to capture,
teardown and handoff; each critical section is an action, and what the helper answers is
nondeterministic at any time. A stop of the stream server is run by a worker at the places
`StopPCs`, by a cancel and by the main thread, and any of them may overlap: `StopBegins` is the
first critical section, `StopSleeps` and `StopEnds` are the second, which waits until no reader
holds the stream (`Drained`). The last reader to leave wakes *one* of the threads that sleep
(`DiscEnds`, `pthread_cond_signal`), and none if a start has cleared `stopping` meanwhile. A
start (`WorkerOpen`) stops a server it finds running first (`clear`, `reclear`), needs the port
to be free, and may fail before or after the session was published (`NotOpened`). What happens
to sockets and the listener between the two sections of a stop is the business of StreamServer.

Abstracted: texts, progress, `completed`; retries happen once instead of twice; times.

### UploadLink (`frontend/src/utils/segmentSender.js`, `ws_upload.c`, `ws_stream.c`)

| Variables | Code |
|---|---|
| `window limit` | `demandWindow`, the flights `ready` allows (`maxInFlight`) |
| `snd` | the variables of `createSegmentSender`: `demands`, `ahead`, `sent` (flights whose `sentAt` is set), `reading` (the flight whose file read goes on), `retry` (none, a timer waiting, due), `baseline`, and the acknowledged set of the dispatcher |
| `stopped` | `inactive()` |
| `up down hand` | the two directions of the socket, in order, and the answer a connection thread is about to send |
| `present received over waiting emit seek_sent` | the session: residents, what was ever received, whether it ended or failed, readers parked on a segment, a seek about to go out, the two-second limit |
| `incomplete reads sought` | a history and two bounds |

An action is one callback of the browser's event loop run to its end (`Pump` up to its
`await`), one step of the connection's thread, or one critical section of a reader. The
queue operations are pure operators on `snd`, named as in the source; those that may end in
`pump()` give the set of the one sender it leaves. Which resident a write evicts is any but the
header and awaited ones: the choice of `LiveStream` is one of these. A session that is over
rejects what still arrives, which fails the upload.

Abstracted: the socket is one connection and does not lose messages (a failure ends the upload:
`Fail`); the header poll and installation are in DirectUpload; rates, pings, progress.

### InstallService (`install_service.c`, `install_process.c`, `install_ipc.c`, `install_helper.c`)

| Variables | Code |
|---|---|
| `cst conn pid usable` | a caller's place and its `install_service_t`: the accepted socket, the helper's pid, `usable` |
| `hst link` | a helper's place in `main` and `install_helper_serve`; the listener it connected to |
| `initialized installed job` | what its native calls returned, the caller it was given work by |
| `sent taken replied read closing eof` | the socket between them |
| `alive spawned killed` | the daemon, the bound, and the processes that were sent SIGKILL |

The socket keeps order, so requests and replies are counted instead of queued: reply 1 is
READY, reply *k + 1* answers request *k*, and "the reply I read is mine" is an equation. A
native call is entered and need not return. The watcher of a helper is a thread of its own
that only peeks at the socket: it sees the end only if no unread request lies before it.
Both callers of the daemon (the install worker, the thread that registers the shortcut)
listen on one port, and a helper says nothing when it connects that tells whose it is.

A process that does not exit in time is sent SIGKILL and forgotten, whatever comes of it (`Kill`):
a kill that fails is only logged, and `waitpid` of a process that the loader started returns
ECHILD at once (`install_service.c:161-173`, `install_process.c:83`). So it may die at any later
time (`Exits`) or live on beside the caller's next helper; `killed` remembers it.

Abstracted: a message is sent whole or its transfer fails; a deadline may pass at any time.

### DirectUpload (`ws_upload.c`, with what `installer.c` and `ws_stream.c` do to a session)

| Variables | Code |
|---|---|
| `session created aborted header reading` | the live session, as a number; whether segment 0 arrived; the session a reader of the stream server is attached to |
| `owner ownerSid ownerMu uplink` | `g_owner`, `g_owner_sid`, who holds `g_owner_mu` (only where it is held across other steps), `g_uplink_fd` |
| `have asked headed` | the id a window keeps, and the request to install: id checked, header seen |
| `spc auth fin` | a socket's place in `ws_conn_worker`, `authorized_sid`, `finish_received` |
| `cpc` | where a thread is in a cancel |
| `job wpc wjob` | what is installed, and the worker with what it installs |

Sockets are descriptors: a closed one is used again by the next connection, so a stale
uplink is visible as one. A cancel is its critical sections in the code's order: the
installer's flag, abort, stop of the server (which waits for the reader), unlink of the
uplink, destroy; a socket that ended looks whether a session is active before it drops it
(`CheckSession`). A socket refused as second uploader stays in its loop, unauthorized, and may
send another "init". A worker that ends aborts and destroys whatever session there is.

Abstracted: one install request is in flight and one worker exists at a time (two are
Installer's matter); the listener is up or not (`HttpInit`'s two outcomes); segments are told
apart only as "a header arrived".

## 4. The runs

All runs turn the deadlock check off: each instance bounds the number of sessions or
workers, and the system stops when the bound is used up and nobody has
anything to do; the daemon itself stops after a shutdown too.

| Run | Instance | Shows |
|---|---|---|
| `live_sessions` | 2 readers, 4 slots, 2 segments of 2 units, 2 sessions, fairness; 261,571 states | `ReadIntegrity`, `MemorySafe`, refinement of SegmentFeed (`ImplementsFeed`), `AbortReleases`, `DestroyFrees` |
| `live_eviction` | 2 readers, 4 slots, 5 segments, 1 session; 733,808 states | refinement of SegmentStore (`ImplementsStore`), `SlotMapOK`, `WaitersExact`, `WaitedWriteNeverBusy`, `HeaderPinned`, `AwaitedSegmentStays`, `ReceivedOnlyGrows` |
| `stream_safe` | worker, 1 canceller, 2 connections, 2 sessions; 610,002 states | refinement of StreamLease (`ImplementsLease`), `PinnedOpen`, `NoLeak`, `DrainReachesAll` |
| `stream_stop` | the same with one tracking entry, 1 session, fairness; 212,094 states | `StoppingEnds`, `KickedEnds` |
| `stream_return` | worker, 1 canceller, 1 connection, 1 session | a violation: `StopReturns` |
| `install_races` | 2 starters, 1 canceller, 2 workers, both kinds; 1,517,628 states | `InstallingHasWorker`, `JoinedOnce`, `ServerHasWorker` |
| `install_stops` | 1 starter, 1 canceller, 1 disc waiter, USB, shutdown, fairness; 169,204 states | refinement of StreamLease (`ImplementsLease`), `CancelReturns`, `CancelObeyed`, `DetachObeyed`, `ShutdownEnds` |
| `install_cancel` | 1 starter, 1 canceller, 2 workers | a violation: `CancelHolds` |
| `upload_served` | 1 reader, 4 segments, 2 slots, 1 or 2 flights, window 0 or 2, fresh or resumed with a gap, 2 misses, fairness; 927,154 states | refinement of SegmentStore (`ImplementsStore`), `FlightsAnswered`, `SpeculationBounded`, `AckedWasReceived`, `DemandServed` |
| `helper_lives` | 2 callers (one polls), 2 helpers, 2 requests each, deaths, fairness; 205,930 states | `AnswerIsOwn`, `WatcherSees`, `JobsDoNotOverlap`, `HelpersRetire` |
| `upload_owners` | 2 windows, 2 sockets, 2 sessions, both other kinds of installation; 2,762,975 states | refinement of SegmentFeed (`ImplementsFeed`), `UplinkIsOpen`, `UploaderHearsSeeks`, `DisconnectEnds`, `OwnerCancelReturns` |
| `upload_disk` | the same, with an installation by the system | a violation: `DiskEndSparesUpload` |

Why the bounds are enough to be interesting:

* Four slots is the code's minimum (`ws_stream.c` never allocates fewer). With the header
  pinned and two readers that may each shield a segment, five segments force every eviction
  rule, and the case that a rule refuses. Segments of two units in `live_sessions` make
  reads that start and end inside a segment. Two sessions are one reader's stale session and
  the next one; a third adds nothing, since a session cannot begin while a reader of any
  other is attached.
* Two connections share one session or sit in two; a table of one entry makes the second
  invisible to a stop. Two threads stop; the third stopper would do what the second does.
* Two workers: the installation and its update, or two installations that overlap.
  `install_stops` takes USB packages because they have all of the worker's paths: streaming,
  the fallback, and direct. In it the cancel's stop, the worker's and the shutdown's overlap,
  and one reader is enough for a stop that is not woken, as a signal is lost among stops.
* `upload_served`: two slots hold the header and one other segment, so every store of a third
  evicts or is refused; with four segments and two flights a demand, a read-ahead and a
  refused segment compete, and the baseline has something to skip. `MaxReads` bounds how many
  reads begin, not what happens to one. The code's windows are up to 8 and its session larger;
  nothing depends on either but how often a refusal happens.
* `helper_lives`: the second helper is another caller's or the same caller's next one, and
  either may be accepted by the wrong listener. Two requests are the job and one poll; the
  invariants are proved for any number.
* `upload_owners`: two sessions are the old and the new, two sockets its uploader and a
  stranger, or a descriptor used twice; also proved for any number.
* Symmetry is used in safety runs only, over readers and slots, connections, starters,
  windows and sockets: nothing in the modules tells members of these sets apart.

The inductive invariants `IInv` of the proofs are no properties of the runs: TLC found them to
hold on these instances before they were proved, and the proofs cover every instance.

Every property has a mutant: a definition of the model replaced by what a plausible bug
would make of it, under which TLC finds the property violated. The mutants stand in the
modules above the definition they replace.

## 5. Fairness

* **LiveStream.** A waiting reader is woken by every broadcast and by its one-second tick
  (`tick_wait`), so its wake is weakly fair. The stream server closes the stream of a
  session that is over. Nothing is assumed of the browser, of new reads, of the deadline:
  `AbortReleases` holds without the timeout.
* **StreamServer.** Every thread keeps running, and transfers end: sockets have timeouts and
  the loop tests `running`. No spurious wake-up is assumed, nor that anyone starts or stops
  anything.
* **UploadLink.** File reads end, timers fire, callbacks run, the socket delivers in order, each
  thread runs, and the two seconds after a seek pass. Nothing is assumed of reads, deadlines,
  acknowledgements' outcome, the end of the installation or failures: `DemandServed` holds
  until the upload stops, without the reader's own timeout.
* **InstallService.** A helper's own threads run (`Take`, the watcher) and its attempts to
  connect run out. Native calls need not return, and the daemon need not do anything.
* **DirectUpload.** None: its properties are invariants. What waits is shown to wait for
  somebody who has been woken (`OwnerCancelReturns`), and that he then goes is `AbortReleases`.
  That the stop then returns is not said: a stop that overlaps another may be the one that is
  not woken (`stream_return`), and then keeps the owner's lock.
* **Installer.** Every thread keeps running: the steps of a start, of a worker, of a stop and of
  the shutdown are weakly fair, and a reader sees what breaks its wait. No strong fairness is
  assumed: a stop shuts the door (`running` is cleared) before it waits, so that readers only
  leave. A thread that sleeps on `vs_cond` is only woken by a reader that picks it; it may be
  stranded. `CancelReturns`, `CancelObeyed`, `DetachObeyed` and `ShutdownEnds` therefore say that
  what they promise happens *or a stop is stranded* (`Stranded`: it sleeps and no reader is left
  to wake it); without the exception each of them is violated, by the defect that
  `stream_return` shows. What remains is what they are about: no worker, reader or shutdown
  misses the flags, and no one waits for ever but in that place. A disc is never promised to be
  inserted, the hour never to pass, and the helper may report progress for ever.

## 6. What the runs found

Three statements made by the repository are not what the code does; each has a run and an
entry under `findings`.

* **A stop of the stream server can wait for ever** (`stream_server.c:218`): two threads
  stop the same session while a transfer is in flight, the last release signals the
  condition once, and the thread it wakes clears `stopping`, so nobody signals again. Only a
  spurious wake-up helps. In Installer such a thread is `Stranded`: a cancel, the worker that
  the next start joins, or the shutdown may hang there.
* **A cancel during the handoff to an update is undone** (`installer.c:2065`): the update's
  commit resets the cancel flag and tests only the detach.
* **The end of an installation aborts an upload it has nothing to do with**
  (`installer.c:2059`): the release of the live session is "noop for disk installs" only as
  long as no window opened one meanwhile, and opening one looks at no installation.

Other behaviour met while modelling, that a maintainer would want to know of. The first four
are stated as definitions that hold of the intent and not of the code: `OpenKeepsId`
(LiveStream), `ServedAsNamed` (StreamServer), `OneServerUser` (Installer), `ParentDeathRetires`
(InstallService). No run lists them; added to a configuration, TLC answers with the trace.

* The id of a live session is checked and its stream attached in two critical sections
  (`multipart.c:405-422`): a destroy and a create fit between them, and the stream is attached
  to another session than the one asked for.
* A connection checks the session's name before it acquires the stream (`stream_server.c:224`),
  and the name is pinned only after the server runs: bytes of another package can be served
  under a session's name.
* Two starts pass the check and the handle while no worker exists; the first commits; a cancel
  clears `is_installing`; the second commits without anything to join: two workers use one
  stream server (`installer.c:2163`).
* A helper whose idle deadline passes as a request arrives leaves its loop without it
  (`install_helper.c:125`); while it terminates its session, that unread request hides the end
  of the socket from its watcher. If the terminate call is stuck and the daemon dies, nobody
  retires it. `HelpersRetire` excepts this case only.
* A cancel lets a new installation begin before it stops the stream server
  (`installer.c:2540-2543`): between its critical section and its stop the next worker may start
  its server, which the late stop brings down. The worker does not notice; the system's download
  fails. Between the two sections of the stop, a start clears `stopping` and `vs_refs`
  (`stream_server.c:1101-1107`), and the late stop closes the new stream if nobody has pinned
  it yet, while `running` stays set. The lease allows a stream that nobody holds to be retired.
* The main thread reads and joins the handle of the worker without the lock
  (`installer.c:2709`), which a start may be joining too. `JoinedOnce` is of the other threads.
* A helper that does not exit is sent SIGKILL and forgotten even if the kill fails, and cannot
  be waited for (`install_service.c:163-169`): the next installation may begin beside it.
  `JobsDoNotOverlap` excepts a process that was sent SIGKILL, and only that.
* A window's cancel, and the end of an uploader's socket, call `installer_cancel` whatever is
  installed. The browser sends that cancel by itself when its request to install is refused
  because another installation runs (`useDirectUpload.js:211`).
* A segment is checked against the session's id and then written without it
  (`ws_upload.c:956-974`): between the two the session may be destroyed and another created.
* The watchdog stops the upload's listener while a request may start it
  (`main.c:298`, `ws_upload.c:1080`): the old thread reads the flag and the descriptor anew,
  may take over the new socket, and the join of it does not return.
* The mark `run_hi` is said (`ws_stream.c:701-705`) to pass only what was read, but a read that
  starts within a segment of it moves it past a segment nobody read. What rule A then evicts is
  demanded again, so no property of the reads is lost.

## 7. The proofs

Each detailed module has a module of proofs beside it. They prove, for every value of the
constants that satisfies the named assumptions (finite sets where something is counted,
positive sizes, requests inside the file, threads that are not also workers), what the safety
runs check on one instance. In each the argument is an inductive invariant `IInv`: it holds
initially and every step keeps it, with one lemma per conjunct or per action. A refinement is
proved on top of it: the initial states map to initial states, and under the invariant every
step maps to a step of the abstract specification or a stutter. `SegmentFeedProofs` and
`SegmentStoreProofs` prove what the abstract specifications promise, once; those theorems are
carried over to the modules that implement them by instantiating the proofs with the
refinement's mapping.

* **LiveStream.** `IInv` is types, the slot map, `SessionOK` (how the flags, the arrays and
  the deferred free go together), `ReadersOK` (an attached reader's session is the current
  one, and its arrays exist), `RefsExact`, `ReadIntegrity` and `CompleteMeansReceived`.
  `MemorySafe` is not inductive: that arrays exist while a reader waits needs that its
  reference is counted, that creation is refused while a reference is held, and that destroy
  defers the free; these are `ReadersOK`, `RefsExact`, `SessionOK`. The slot map carries
  `ReadIntegrity`: what a slot holds is its segment's bytes *of this session*. From `IInv`
  follow `TypeCorrect`, `SlotMapCorrect`, `ReadsAreExact`, `MemoryIsSafe`, `RefsAreExact`,
  `CompleteIsReceived`, the action properties `HeaderStays` and `ReceivedGrows`, and
  `Implementation`: each step of LiveStream is a step of SegmentFeed or a stutter; by it
  `NoSessionUnderStream` carries over.
  `WaitersAreExact` is a second invariant on top of it: a reader is added to the count of its
  segment as it goes to wait and taken off at every exit. With it, `WaitedIsStored` is a
  pigeonhole argument: if no slot were free or evictable for a segment that reader *r* awaits,
  every slot would hold a segment another reader awaits, or the header, to which *r* itself
  can be assigned: as many readers as slots. And `LandedStays` follows since no
  eviction takes a segment whose count is not zero.
  `StoreImplemented` maps the session to SegmentStore: a parked reader's segment is missing
  when it goes to wait, the count that shields a segment is exact (`WaitersAreExact`), so
  whichever slot the three rules pick is one the store may replace, and slots and residents
  are as many.
* **StreamServer.** `PinnedOpen` needs that the count of pins is exact (`PinsExact`, by the
  cardinality of a finite set), that every pin is on the current stream, and that the worker
  publishes a new stream only when there is none (`SessionOK`). `DrainReachesAll` needs that
  the table, the copies of the stops and the kicked sockets cover all connections
  (`TrackedOK`), under the condition that the table is large enough. Theorems:
  `ServerInductive`, `NoReadAfterClose`, `StreamsNeverLeak`, `StopReachesTransfers`,
  `LeaseImplemented` (a session is closed and replaced only at a count of zero, which
  `PinsExact` makes "no connection holds it").
* **Installer.** `InstallingHasWorker` is far from inductive: a worker that lives may be on
  its way out. `InstallingIsCarried` says that of the workers of an installation that is not
  flagged to end one is a *carrier*: it will still write the status or start the next
  worker. Each exit of a worker is either after such a write, or entered with the cancel or
  detach flag, which only a write that ends the installation sets. `ServerHasWorker` needs
  `PlacesOK`: a worker that starts or stops a server does not install directly, and a thread is
  in a stop only where it has called one. Theorems: `InstallerInductive`,
  `NeverStuckInstalling`, `WorkersJoinedOnce`, `ServerIsStopped`. A second invariant says that a
  reader waits for a disc only while the server has its stream, that `vs_refs` counts those
  readers (by the cardinality of a finite set), and that a worker that starts its server again
  has no stream left. A start
  that resets the count under a reader of an overlapping worker would break it, and the code
  does not exclude that (section 6), so `ReadersAreServed` and `LeaseAssumed` have the
  hypothesis `[]OneServerUser`: one worker at a time uses the stream server, as the comment at
  `installer.c:2030` demands. Stops may overlap or come late under it all the same.
* **UploadLink.** The helpers of the sender are described first, each by what it does to
  demands, flights and what backs off; nothing is needed of the order of the read-ahead or of
  where the baseline stands. `SpeculationBounded` alone is not inductive: a flight that is
  refused becomes one more segment that backs off. `Spoken` bounds both together, and says
  that a demand was sought or backs off, so that taking one adds nothing to what nobody
  sought. `Flown` counts the copies and answers of each segment in both queues and in the
  thread's hand; acknowledgements under way are of received segments, and "finish" is under
  way only when all was received. Theorems: `LinkInductive`, `FlightsAreAnswered`,
  `AckedIsReceived`, `SpeculationStaysBounded`. With `ResidentReceived` (what is resident was
  received; `ResidentsWereReceived`) the session here is a SegmentStore, `StoreAssumed`, and
  two theorems of the store carry over: `AwaitedIsTaken` (a segment that a reader waits for
  always finds room, so nobody waits for ever on "busy") and `LandedIsKept` (once it landed
  no write evicts it before its reader runs).
* **InstallService.** `SocketOK` orders the counters of a socket (taken <= sent <= read <=
  replied <= taken + 1, narrowed by the helper's place); `CallersOK` says what a caller's place
  tells of its connection, of the helper it knows and of what it read; `BacklogOK` that a
  helper nobody accepted was not heard; `JobsOK` that a helper has work of the caller it
  connected to only, and that a live one with requests is the one whose pid its caller knows, or
  was sent SIGKILL. sent <= read holds because a caller
  that gives up on a reply never uses the socket again, which is why `NoStaleReply` follows.
  Theorems: `ServiceInductive`, `NoStaleReply`, `WatcherAlwaysSees`, `OneHelperPerCaller`
  (and `ServiceTypes`).
* **DirectUpload.** `KnownIds` says that nobody holds the id of a session to come, `LetIn` that a
  socket that was matched, stores or ended has the id it was let in with, `OwnerHolds` where a
  window's cancel holds the owner's lock, `StopAborted` that the session it then waits to destroy
  is aborted and cannot be replaced, as creating one needs that lock. `UploaderHearsSeeks` rests
  on the first, `UplinkIsOpen` on the second: without `KnownIds` a socket left from an earlier session could be the uploader of
  the next. Theorems: `OwnershipInductive`, `SeeksGoToUploader`, `UploaderKeepsUplink`,
  `BrokenUploadEnds`, `OwnerWaitsForWoken` (and `OwnershipTypes`). `Latest`, the active session is
  the last one created (`ActiveIsLatest`), gives `FeedAssumed`, and by it
  `NoSessionUnderInstallation` carries over.
* **SegmentStore.** `StoreInv`: residents were received, fit the slots and keep the header; a
  seek about to go out is for the segment waited for; nobody waits without a session
  (`StoreHolds`). `AwaitedIsKept` follows step by step. `RoomForAwaited` is the pigeonhole
  argument once more, without slots: the reader of a missing segment waits for no resident,
  and the others are fewer than the residents that are not the header. It assumes fewer
  readers than slots, as both modules that use it do. The code does not enforce that: it has
  four slots at least, and relies on few connections reading at once.
* **SegmentFeed.** `FeedInv`: a reader's session is the last one begun, what it holds was
  read from that session, and a complete session has every segment (`FeedHolds`);
  `NoSessionUnderReader`, the action property.

Model-checked only: liveness under fairness everywhere (out of the prover's reach). The
action property `DiskEndSparesUpload`, like the properties of the other two runs that end in a
violation, does not hold.

## 8. What is not modelled

Components without a module:

* **Virtual stream**: reads of a split package and the swap of a part's descriptor under them
  (`multipart.c` 605-786); hazards without a property.
* **Package scanner**: the admission of scans, full and quick scans, the manifest.
* **SMB client**: the pipelined read; the rest is I/O through a library.
* **Package parser and cache, icons**: sequential decoding of formats, which tests reach.
* **HTTP server, main loop**: routes call one operation of another component and are its
  threads there; the watchdog's stop of the upload listener is an observation of section 6.
* **Installed apps and leftovers, logs, notifications, React views**: queries, files, wording.
* **Vendored code** (SQLite, miniz, stb_image): nine tenths of the lines under `src/`, and not
  the program's own.

Of the modelled components: `ws_live_write` (a blocking write only tests call), header and
status queries, progress and texts of the status, storage checks, HTTP and WebSocket parsing,
the table of tracked upload sockets, the bytes of a message to the helper. Descriptors and
thread handles that are reused by number are modelled for the uplink only. Allocation failure
is modelled only where it changes state that outlives the call.
