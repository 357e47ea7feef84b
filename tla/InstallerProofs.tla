--------------------------- MODULE InstallerProofs ----------------------------
(***************************************************************************)
(* For every number of web server threads and of installations: the status *)
(* never says that an installation runs when no worker does, no worker is  *)
(* joined twice, and the stream server outlives no installation; while one *)
(* worker uses that server at a time, what all make of it is the lease     *)
(* that StreamServer implements.                                           *)
(***************************************************************************)
EXTENDS Installer, FiniteSetTheorems, TLAPS

PCs == {"unborn", "idle", "done"} \cup StartPCs \cup WorkerPCs

-----------------------------------------------------------------------------
(* Types                                                                   *)

\* Where a stop leads.
LEMMA Continues ==
  /\ StopPCs = {"clear", "restart", "reclear", "offline", "moffline", "release", "teardown"}
  /\ AfterStop["clear"] = "open" /\ AfterStop["restart"] = "rebegin"
  /\ AfterStop["reclear"] = "reopen" /\ AfterStop["offline"] = "direct"
  /\ AfterStop["moffline"] = "mdirect" /\ AfterStop["release"] = "check"
  /\ AfterStop["teardown"] = "done"
BY DEF StopPCs, AfterStop

\* A step of a worker moves it, and leaves to others what Kept names.
LEMMA WorkerMoves ==
  ASSUME NEW w \in Workers, WorkerStep(w)
  PROVE  /\ pc[w] \in WorkerPCs
         /\ \E p \in WorkerPCs \cup {"done", "check"} : Goto(w, p)
         /\ Kept
BY Continues DEF WorkerStep, WorkerBegin, WorkerOpen, WorkerBeginFails, WorkerLaunch,
   WorkerRetry, WorkerRebegin, WorkerReopenFails, WorkerVerify, WorkerDirect,
   WorkerResubmit, WorkerFailing, WorkerMonitor, WorkerPoll, WorkerPollFails,
   WorkerPollOffline, WorkerMResubmit, WorkerComplete, WorkerCapture,
   WorkerLeaves, WorkerHandoffFails,
   Leave, Ends, EndPCs, OpenPCs, WorkerPCs

\* It keeps the types of what it writes,
LEMMA WorkerTypes ==
  ASSUME TypeOK, NEW w \in Workers, WorkerStep(w)
  PROVE  /\ is_installing' \in BOOLEAN /\ failed' \in BOOLEAN /\ is_direct' \in BOOLEAN
         /\ pending' \in BOOLEAN
         /\ running' \in BOOLEAN /\ stopping' \in BOOLEAN /\ server' \in BOOLEAN
         /\ refs' \in Nat /\ UNCHANGED <<shut, asleep>>
         /\ mode' \in [Workers -> {"network", "usb", "direct"}]
<1>1. CASE WorkerOpen(w) \/ WorkerBeginFails(w) \/ WorkerReopenFails(w)
  <2>1. ASSUME NotOpened
        PROVE  /\ running' \in BOOLEAN /\ stopping' \in BOOLEAN /\ server' \in BOOLEAN
               /\ refs' \in Nat /\ UNCHANGED <<shut, asleep>>
    <3>1. UNCHANGED serverVars \/ refs' = 0
      BY <2>1 DEF NotOpened
    <3>2. /\ running' = running /\ UNCHANGED <<shut, asleep>>
          /\ stopping' \in {stopping, FALSE} /\ server' \in {server, FALSE}
      BY <2>1 DEF NotOpened, serverVars
    <3>3. /\ running \in BOOLEAN /\ stopping \in BOOLEAN /\ server \in BOOLEAN
          /\ refs \in Nat
      BY DEF TypeOK
    <3>4. refs' \in Nat
      BY <3>1, <3>3 DEF serverVars
    <3>5. QED
      BY Zenon, <3>2, <3>3, <3>4
  <2>2. CASE WorkerOpen(w)
    BY <2>2 DEF TypeOK, WorkerOpen, statusVars
  <2>3. CASE WorkerBeginFails(w)
    BY <2>1, <2>3 DEF TypeOK, Error, WorkerBeginFails
  <2>4. CASE WorkerReopenFails(w)
    BY <2>1, <2>4 DEF TypeOK, WorkerReopenFails, statusVars
  <2>5. QED
    BY <1>1, <2>2, <2>3, <2>4
<1>2. CASE ~WorkerOpen(w) /\ ~WorkerBeginFails(w) /\ ~WorkerReopenFails(w)
  <2>1. UNCHANGED serverVars
    BY <1>2 DEF WorkerStep, WorkerBegin, WorkerOpen, WorkerBeginFails, WorkerLaunch,
       WorkerRetry, WorkerRebegin, WorkerReopenFails, WorkerVerify, WorkerDirect,
       WorkerResubmit, WorkerFailing, WorkerMonitor, WorkerPoll, WorkerPollFails,
       WorkerPollOffline, WorkerMResubmit, WorkerComplete, WorkerCapture,
       WorkerLeaves, WorkerHandoffFails
  <2>2. is_installing' \in BOOLEAN /\ failed' \in BOOLEAN /\ is_direct' \in BOOLEAN
    BY <1>2 DEF TypeOK, Error, HandoffError, MayContinue, statusVars,
       WorkerStep, WorkerBegin, WorkerOpen, WorkerBeginFails, WorkerLaunch,
       WorkerRetry, WorkerRebegin, WorkerReopenFails, WorkerVerify, WorkerDirect,
       WorkerResubmit, WorkerFailing, WorkerMonitor, WorkerPoll, WorkerPollFails,
       WorkerPollOffline, WorkerMResubmit, WorkerComplete, WorkerCapture,
       WorkerLeaves, WorkerHandoffFails
  <2>3. pending' \in BOOLEAN
    BY <1>2 DEF TypeOK,
       WorkerStep, WorkerBegin, WorkerOpen, WorkerBeginFails, WorkerLaunch,
       WorkerRetry, WorkerRebegin, WorkerReopenFails, WorkerVerify, WorkerDirect,
       WorkerResubmit, WorkerFailing, WorkerMonitor, WorkerPoll, WorkerPollFails,
       WorkerPollOffline, WorkerMResubmit, WorkerComplete, WorkerCapture,
       WorkerLeaves, WorkerHandoffFails
  <2>4. mode' \in [Workers -> {"network", "usb", "direct"}]
    BY <1>2 DEF TypeOK, Leave,
       WorkerStep, WorkerBegin, WorkerOpen, WorkerBeginFails, WorkerLaunch,
       WorkerRetry, WorkerRebegin, WorkerReopenFails, WorkerVerify, WorkerDirect,
       WorkerResubmit, WorkerFailing, WorkerMonitor, WorkerPoll, WorkerPollFails,
       WorkerPollOffline, WorkerMResubmit, WorkerComplete, WorkerCapture,
       WorkerLeaves, WorkerHandoffFails
  <2>5. QED
    BY <2>1, <2>2, <2>3, <2>4 DEF TypeOK, serverVars
<1>3. QED
  BY <1>1, <1>2

\* A thread in a stop is where it has called it.
LEMMA AtStops ==
  ASSUME PlacesOK, NEW t \in shut
  PROVE  /\ AtStop(t)
         /\ t \in Workers => pc[t] \in StopPCs /\ (Ends(t) => StopsAtEnd(t))
BY ThreadsAssumption, WorkersAssumption DEF PlacesOK, AtStop, Workers, Main

\* and so does every step.
LEMMA TypeStep ==
  ASSUME TypeOK, PlacesOK, [Next]_vars
  PROVE  TypeOK'
<1>. USE ThreadsAssumption, WorkersAssumption DEF Workers, Threads, None, Main
<1>1. ASSUME NEW s \in Starters, Start(s)
      PROVE  TypeOK'
  BY <1>1 DEF TypeOK, Start, Goto, StartPCs, statusVars, flagVars, serverVars,
     otherVars
<1>2. ASSUME NEW t \in Threads, StartStep(t)
      PROVE  TypeOK'
  <2>1. CASE t \in Starters /\ StartCheck(t)
    BY SMTT(30), <2>1 DEF TypeOK, StartCheck, Idle, Goto, StartPCs, WorkerPCs,
       statusVars, serverVars, otherVars
  <2>2. CASE t \in Starters /\ StartReject(t)
    BY <2>2 DEF TypeOK, StartReject, Idle, Goto, statusVars, flagVars,
       serverVars, otherVars
  <2>3. CASE t \in Workers /\ HandoffCheck(t)
    BY <2>3 DEF TypeOK, HandoffCheck, Goto, StartPCs, statusVars,
       serverVars, jobVars, otherVars
  <2>4. CASE t \in Workers /\ HandoffReject(t)
    <3>1. PICK p \in {"hofail", "done"} : pc' = [pc EXCEPT ![t] = p]
      BY <2>4 DEF HandoffReject, Goto
    <3>2. QED
      BY <2>4, <3>1 DEF TypeOK, HandoffReject, WorkerPCs, statusVars,
         flagVars, serverVars, jobVars, otherVars
  <2>5. CASE StartTake(t)
    BY <2>5 DEF TypeOK, StartTake, ToJoin, HandleTaken, Goto, StartPCs,
       statusVars, flagVars, serverVars, otherVars
  <2>6. CASE StartJoin(t)
    BY <2>6 DEF TypeOK, StartJoin, Goto, StartPCs, statusVars, flagVars,
       serverVars, otherVars
  <2>7. CASE StartCommit(t)
    <3>1. /\ cancel' \in BOOLEAN /\ detach' \in BOOLEAN /\ pending' \in BOOLEAN
          /\ is_direct' \in BOOLEAN /\ monitor' \in BOOLEAN
          /\ is_installing' \in BOOLEAN /\ failed' \in BOOLEAN
      BY <2>7 DEF TypeOK, StartCommit, Committed, KindsOf
    <3>2. mode' \in [Workers -> {"network", "usb", "direct"}]
      BY <2>7, KindsAssumption DEF TypeOK, StartCommit, KindsOf
    <3>3. PICK p \in {"idle", "done"} :
            pc' = [pc EXCEPT ![t] = p, ![nworkers + 1] = "begin"]
      BY <2>7 DEF StartCommit
    <3>4. pc[t] = "prepare" /\ nworkers' = nworkers + 1 /\ nworkers' \in Workers
      BY <2>7 DEF StartCommit, MayCommit
    <3>5. pc' \in [Threads -> PCs]
      BY <3>3, <3>4 DEF TypeOK, PCs, WorkerPCs
    <3>6. \A v \in Workers : (pc[v] = "unborn" <=> v > nworkers)'
      <4>1. t # nworkers + 1
        BY <3>4 DEF TypeOK
      <4>2. \A v \in Workers :
              pc'[v] = IF v = nworkers' THEN "begin" ELSE IF v = t THEN p ELSE pc[v]
        BY <3>3, <3>4, <4>1 DEF TypeOK
      <4>3. QED
        BY <3>4, <4>2 DEF TypeOK
    <3>7. \A u \in Threads : (old[u] # None <=> pc[u] = "join")'
      BY <2>7, <3>3, <3>4 DEF TypeOK, StartCommit
    <3>8. old' \in [Threads \cup {Main} -> 0 .. nworkers'] /\ handle' \in 0 .. nworkers'
      BY <2>7, <3>4 DEF TypeOK, StartCommit
    <3>9. live' \subseteq Starters /\ UNCHANGED <<serverVars, kpc, dpc, main>>
      BY <2>7 DEF TypeOK, StartCommit, otherVars
    <3>10. QED
      BY <3>1, <3>2, <3>4, <3>5, <3>6, <3>7, <3>8, <3>9 DEF TypeOK, PCs, serverVars
  <2>8. CASE StartNoThread(t)
    BY <2>8 DEF TypeOK, StartNoThread, MayCommit, Committed, KindsOf, Goto,
       WorkerPCs, serverVars, otherVars
  <2>9. QED
    BY <1>2, <2>1, <2>2, <2>3, <2>4, <2>5, <2>6, <2>7, <2>8 DEF StartStep
<1>3. ASSUME NEW w \in Workers, WorkerStep(w)
      PROVE  TypeOK'
  <2>1. PICK p \in WorkerPCs \cup {"done", "check"} : pc' = [pc EXCEPT ![w] = p]
    BY <1>3, WorkerMoves DEF Goto
  <2>2. pc[w] \in WorkerPCs /\ Kept
    BY <1>3, WorkerMoves
  <2>3. pc' \in [Threads -> PCs]
    BY <2>1 DEF TypeOK, PCs, StartPCs
  <2>4. \A v \in Workers : (pc[v] = "unborn" <=> v > nworkers)'
    BY <2>1, <2>2 DEF TypeOK, Kept, WorkerPCs
  <2>5. \A t \in Threads : (old[t] # None <=> pc[t] = "join")'
    BY <2>1, <2>2 DEF TypeOK, Kept, WorkerPCs
  <2>6. QED
    BY <1>3, <2>2, <2>3, <2>4, <2>5, WorkerTypes DEF TypeOK, Kept, PCs,
       otherVars
<1>4. ASSUME NEW k \in Cancellers, Cancel(k) \/ Detach(k)
      PROVE  TypeOK'
  <2>1. CASE Cancel(k)
    BY <2>1 DEF TypeOK, Cancel, Error, serverVars, jobVars
  <2>2. CASE Detach(k)
    BY <2>2 DEF TypeOK, Detach, serverVars, jobVars, otherVars
  <2>3. QED
    BY <1>4, <2>1, <2>2
<1>5. ASSUME NEW r \in Readers, DiscWait(r) \/ DiscFound(r) \/ DiscTimeout(r)
      PROVE  TypeOK'
  <2>1. CASE DiscWait(r)
    BY <2>1 DEF TypeOK, DiscWait, statusVars, flagVars, jobVars
  <2>2. ASSUME DiscEnds(r)
        PROVE  /\ dpc' \in [Readers -> {"idle", "waiting"}] /\ refs' \in Nat
               /\ asleep' \subseteq shut'
               /\ UNCHANGED <<flagVars, handle, running, stopping, server, shut, jobVars,
                              pc, kpc, main>>
    BY <2>2 DEF DiscEnds, TypeOK
  <2>3. ASSUME DiscFound(r) \/ DiscTimeout(r)
        PROVE  is_installing' \in BOOLEAN /\ failed' \in BOOLEAN /\ is_direct' \in BOOLEAN
    BY <2>3 DEF DiscFound, DiscTimeout, Error, TypeOK, statusVars
  <2>4. CASE DiscFound(r) \/ DiscTimeout(r)
    BY <2>2, <2>3, <2>4 DEF TypeOK, DiscFound, DiscTimeout, flagVars, jobVars
  <2>5. QED
    BY <1>5, <2>1, <2>4
<1>6. CASE ShutdownBegin \/ Shutdown
  <2>1. CASE ShutdownBegin
    BY <2>1 DEF TypeOK, ShutdownBegin, statusVars, serverVars, jobVars
  <2>2. CASE ShutdownTake
    <3>1. /\ old' \in [Threads \cup {Main} -> 0 .. nworkers]
          /\ \A t \in Threads : old'[t] = old[t]
      BY <2>2 DEF TypeOK, ShutdownTake
    <3>2. main' = "join" /\ UNCHANGED <<statusVars, flagVars, handle, serverVars,
                                       nworkers, live, mode, pc, kpc, dpc>>
      BY <2>2 DEF ShutdownTake
    <3>3. QED
      BY <3>1, <3>2 DEF TypeOK, statusVars, flagVars, serverVars
  <2>3. CASE ShutdownJoin
    BY <2>3 DEF TypeOK, ShutdownJoin, statusVars, flagVars, serverVars
  <2>4. QED
    BY <1>6, <2>1, <2>2, <2>3 DEF Shutdown
<1>7. CASE UNCHANGED vars
  BY <1>7 DEF TypeOK, vars, statusVars, flagVars, serverVars, jobVars, otherVars
<1>8. ASSUME NEW t \in Stoppers, StopStep(t) \/ SpuriousWake(t)
      PROVE  TypeOK'
  <2>1. CASE StopBegins(t)
    BY <2>1 DEF TypeOK, StopBegins, statusVars, flagVars, jobVars, otherVars
  <2>2. CASE StopSleeps(t) \/ SpuriousWake(t)
    <3>1. asleep' \subseteq shut'
      BY <2>2 DEF TypeOK, StopSleeps, SpuriousWake
    <3>2. UNCHANGED <<statusVars, flagVars, handle, running, stopping, server, refs,
                      shut, jobVars, pc, otherVars>>
      BY <2>2 DEF StopSleeps, SpuriousWake
    <3>3. QED
      BY <3>1, <3>2 DEF TypeOK, statusVars, flagVars, jobVars, otherVars
  <2>3. CASE StopEnds(t)
    <3>1. /\ UNCHANGED <<statusVars, flagVars, handle, running, refs, asleep, nworkers,
                         old, live, dpc>>
          /\ server' = FALSE /\ stopping' = FALSE
          /\ shut' \subseteq Stoppers /\ asleep' \subseteq shut'
      BY <2>3 DEF StopEnds, TypeOK
    <3>2. CASE t \in Workers /\ Leave(t) /\ UNCHANGED <<kpc, main>>
      <4>1. PICK p \in {"open", "rebegin", "reopen", "direct", "mdirect", "check", "done"} :
              pc' = [pc EXCEPT ![t] = p]
        BY <2>3, <3>2, AtStops, Continues DEF StopEnds, Leave, Goto
      <4>2. pc[t] \in StopPCs
        BY <2>3, <3>2, AtStops DEF StopEnds
      <4>3. pc' \in [Threads -> PCs] /\ pc[t] \notin {"unborn", "join"}
        BY <4>1, <4>2, Continues DEF TypeOK, PCs, StartPCs, WorkerPCs
      <4>4. mode' \in [Workers -> {"network", "usb", "direct"}]
        BY <3>2 DEF Leave, TypeOK
      <4>5. /\ \A w \in Workers : (pc[w] = "unborn" <=> w > nworkers)'
            /\ \A u \in Threads : (old[u] # None <=> pc[u] = "join")'
        BY <3>1, <4>1, <4>3 DEF TypeOK
      <4>6. QED
        BY <3>1, <3>2, <4>3, <4>4, <4>5 DEF TypeOK, PCs, statusVars, flagVars
    <3>3. CASE /\ t \in Cancellers /\ kpc' = [kpc EXCEPT ![t] = "idle"]
               /\ UNCHANGED <<pc, mode, main>>
      BY <3>1, <3>3 DEF TypeOK, statusVars, flagVars
    <3>4. CASE t = Main /\ main' = "down" /\ UNCHANGED <<pc, mode, kpc>>
      BY <3>1, <3>4 DEF TypeOK, statusVars, flagVars
    <3>5. QED
      BY <2>3, <3>2, <3>3, <3>4 DEF StopEnds, Returns
  <2>4. QED
    BY <1>8, <2>1, <2>2, <2>3 DEF StopStep
<1>9. QED
  BY <1>1, <1>2, <1>3, <1>4, <1>5, <1>6, <1>7, <1>8 DEF Next

-----------------------------------------------------------------------------
(* The joins                                                               *)

\* Only these steps touch the handle or what a thread has taken of it.
LEMMA JoinStep ==
  ASSUME TypeOK, JoinedOnce, [Next]_vars
  PROVE  JoinedOnce'
<1>. USE ThreadsAssumption, WorkersAssumption DEF Workers, Threads, None, Main
<1>1. CASE UNCHANGED <<old, handle>>
  BY <1>1 DEF JoinedOnce
<1>2. ASSUME NEW t \in Threads, StartTake(t)
      PROVE  JoinedOnce'
  BY <1>2 DEF JoinedOnce, StartTake, ToJoin, HandleTaken
<1>3. ASSUME NEW t \in Threads, StartJoin(t)
      PROVE  JoinedOnce'
  BY <1>3 DEF JoinedOnce, StartJoin
<1>4. ASSUME NEW t \in Threads, StartCommit(t)
      PROVE  JoinedOnce'
  BY <1>4 DEF TypeOK, JoinedOnce, StartCommit
<1>5. CASE ShutdownTake \/ ShutdownJoin
  <2>1. Main \notin Threads /\ \A t \in Threads : old'[t] = old[t]
    BY SMTT(30), <1>5 DEF TypeOK, ShutdownTake, ShutdownJoin
  <2>2. handle' \in {handle, None}
    BY <1>5 DEF ShutdownTake, ShutdownJoin
  <2>3. QED
    BY <2>1, <2>2 DEF JoinedOnce
<1>6. ASSUME NEW t \in Threads, StartStep(t)
      PROVE  JoinedOnce'
  BY <1>1, <1>2, <1>3, <1>4, <1>6 DEF StartStep, StartCheck, StartReject,
     HandoffCheck, HandoffReject, StartNoThread, jobVars
<1>7. ASSUME NEW w \in Workers, WorkerStep(w)
      PROVE  JoinedOnce'
  BY <1>1, <1>7, WorkerMoves DEF Kept
<1>8. QED
  BY <1>1, <1>5, <1>6, <1>7 DEF Next, Start, StopStep, StopBegins, StopSleeps,
     StopEnds, SpuriousWake, Cancel, Detach, DiscWait, DiscEnds, DiscFound,
     DiscTimeout, ShutdownBegin, Shutdown, vars, jobVars

-----------------------------------------------------------------------------
(* The worker that carries an installation                                 *)

\* A worker goes on, writes the status, or hands over.
LEMMA WorkerCarries ==
  ASSUME TypeOK, InstallingIsCarried, NEW w \in Workers, WorkerStep(w)
  PROVE  InstallingIsCarried'
<1>. USE WorkersAssumption DEF Workers, Threads
<1>. DEFINE On == (StartPCs \cup WorkerPCs) \ {"capture", "teardown"}
<1>0. ASSUME Kept, is_installing' = is_installing, NEW p \in On,
             pc' = [pc EXCEPT ![w] = p]
      PROVE  InstallingIsCarried'
  <2>1. Carries(w)'
    BY <1>0 DEF Carries, TypeOK
  <2>2. QED
    BY <1>0, <2>1 DEF InstallingIsCarried, Kept
<1>1. CASE WorkerBeginFails(w)
  BY <1>1 DEF InstallingIsCarried, WorkerBeginFails, Error
<1>2. CASE WorkerBegin(w) \/ WorkerOpen(w)
  <2>1. Kept /\ is_installing' = is_installing
    BY <1>2 DEF WorkerBegin, WorkerOpen, statusVars
  <2>2. \E p \in {"launch", "clear", "again"} : pc' = [pc EXCEPT ![w] = p]
    BY <1>2 DEF WorkerBegin, WorkerOpen, Goto
  <2>3. QED
    BY <1>0, <2>1, <2>2 DEF WorkerPCs
<1>3. CASE WorkerLaunch(w)
  BY <1>3 DEF TypeOK, InstallingIsCarried, Carries, Kept, Goto, StartPCs,
     WorkerPCs, WorkerLaunch, Canceled
<1>4. CASE WorkerRetry(w)
  BY <1>4 DEF InstallingIsCarried, Carries, Kept, Goto, WorkerPCs,
     WorkerRetry, statusVars
<1>5. CASE WorkerVerify(w)
  <2>1. Kept /\ is_installing' = is_installing
    BY <1>5 DEF WorkerVerify, statusVars
  <2>2. CASE detach \/ Canceled
    BY <1>5, <2>1, <2>2 DEF InstallingIsCarried, Kept, Canceled
  <2>3. CASE ~(detach \/ Canceled)
    <3>1. \E p \in {"failing", "monitor", "offline"} : pc' = [pc EXCEPT ![w] = p]
      BY <1>5, <2>3 DEF WorkerVerify, Goto
    <3>2. QED
      BY <1>0, <2>1, <3>1 DEF WorkerPCs
  <2>4. QED
    BY <2>2, <2>3
<1>6. CASE WorkerDirect(w)
  BY <1>6 DEF InstallingIsCarried, Carries, Kept, Goto, WorkerPCs,
     WorkerDirect
<1>7. CASE WorkerResubmit(w)
  BY <1>7 DEF InstallingIsCarried, Carries, Kept, Goto, WorkerPCs,
     WorkerResubmit, statusVars
<1>8. CASE WorkerFailing(w)
  BY <1>8 DEF InstallingIsCarried, WorkerFailing, Error
<1>9. CASE WorkerMonitor(w)
  BY <1>9 DEF InstallingIsCarried, Carries, Kept, Goto, WorkerPCs,
     WorkerMonitor, KeepGoing, Canceled, statusVars
<1>10. CASE WorkerPoll(w)
  BY <1>10 DEF InstallingIsCarried, Carries, Kept, Goto, WorkerPCs, WorkerPoll
<1>11. CASE WorkerPollFails(w)
  BY <1>11 DEF InstallingIsCarried, Kept, WorkerPollFails, Error, Canceled,
     statusVars
<1>12. CASE WorkerMResubmit(w)
  BY <1>12 DEF TypeOK, InstallingIsCarried, Carries, Kept, Goto, WorkerPCs,
     WorkerMResubmit, Error, statusVars
<1>13. CASE WorkerComplete(w)
  BY <1>13 DEF TypeOK, InstallingIsCarried, Carries, Kept, Goto,
     WorkerComplete, MayContinue, Canceled
<1>14. CASE WorkerCapture(w)
  BY <1>14 DEF TypeOK, InstallingIsCarried, Carries, Kept, Goto, WorkerPCs,
     WorkerCapture, statusVars
<1>15. CASE WorkerHandoffFails(w)
  BY <1>15 DEF InstallingIsCarried, WorkerHandoffFails, Error, HandoffError
<1>16. CASE WorkerRebegin(w) \/ WorkerReopenFails(w)
  <2>1. Kept /\ is_installing' = is_installing
    BY <1>16 DEF WorkerRebegin, WorkerReopenFails, statusVars
  <2>2. \E p \in {"reclear", "refused"} : pc' = [pc EXCEPT ![w] = p]
    BY <1>16 DEF WorkerRebegin, WorkerReopenFails, Goto
  <2>3. QED
    BY <1>0, <2>1, <2>2 DEF WorkerPCs
<1>17. CASE WorkerPollOffline(w)
  BY <1>17 DEF InstallingIsCarried, Carries, Kept, Goto, WorkerPCs,
     WorkerPollOffline, statusVars
<1>18. CASE WorkerLeaves(w)
  BY <1>18, Continues DEF InstallingIsCarried, Carries, Kept, Goto, StartPCs,
     WorkerLeaves, Leave, Ends, EndPCs, statusVars, MayContinue, Canceled
<1>. QED
  BY <1>1, <1>2, <1>3, <1>4, <1>5, <1>6, <1>7, <1>8, <1>9, <1>10, <1>11,
     <1>12, <1>13, <1>14, <1>15, <1>16, <1>17, <1>18 DEF WorkerStep

\* A stop that ends moves a worker that made it, and no other.
LEMMA WorkerReturns ==
  ASSUME PlacesOK, NEW t \in Stoppers, StopEnds(t)
  PROVE  \/ t \notin Workers /\ UNCHANGED <<pc, mode>>
         \/ /\ t \in Workers /\ pc[t] \in StopPCs /\ (Ends(t) => StopsAtEnd(t))
            /\ Leave(t)
<1>1. Returns(t) /\ t \in shut
  BY DEF StopEnds
<1>2. t \in Workers => t \notin Cancellers /\ t # Main
  BY ThreadsAssumption, WorkersAssumption DEF Workers, Main
<1>3. QED
  BY <1>1, <1>2, AtStops DEF Returns

\* A thread that starts leaves the worker that carries alone, or commits.
LEMMA CarryStep ==
  ASSUME TypeOK, PlacesOK, InstallingIsCarried, [Next]_vars
  PROVE  InstallingIsCarried'
<1>. USE ThreadsAssumption, WorkersAssumption DEF Workers, Threads
<1>1. ASSUME NEW s \in Starters, Start(s)
      PROVE  InstallingIsCarried'
  BY <1>1 DEF InstallingIsCarried, Carries, Start, Goto, MayContinue,
     Canceled, statusVars, flagVars
<1>2. ASSUME NEW t \in Threads, StartStep(t)
      PROVE  InstallingIsCarried'
  <2>1. CASE t \in Starters /\ StartCheck(t)
    <3>1. CASE ~is_installing
      BY <2>1, <3>1 DEF InstallingIsCarried, StartCheck, statusVars
    <3>2. CASE is_installing
      <4>1. pc' = [pc EXCEPT ![t] = "idle"] /\ pending' = pending
        BY <2>1, <3>2 DEF StartCheck, Idle, Goto
      <4>2. QED
        BY <2>1, <4>1 DEF InstallingIsCarried, Carries, StartCheck,
           MayContinue, Canceled, statusVars
    <3>3. QED
      BY <3>1, <3>2
  <2>2. CASE t \in Starters /\ StartReject(t)
    <3>1. pc' = [pc EXCEPT ![t] = "idle"]
      BY <2>2 DEF StartReject, Idle, Goto
    <3>2. QED
      BY <2>2, <3>1 DEF InstallingIsCarried, Carries, StartReject,
         MayContinue, Canceled, statusVars, flagVars
  <2>3. CASE t \in Workers /\ HandoffCheck(t)
    BY <2>3 DEF InstallingIsCarried, Carries, HandoffCheck, Goto, StartPCs,
       statusVars
  <2>4. CASE t \in Workers /\ HandoffReject(t)
    BY <2>4 DEF TypeOK, InstallingIsCarried, Carries, HandoffReject, Goto,
       WorkerPCs, MayContinue, Canceled, statusVars, flagVars
  <2>5. CASE StartTake(t)
    BY <2>5 DEF InstallingIsCarried, Carries, StartTake, Goto, StartPCs,
       MayContinue, Canceled, statusVars, flagVars
  <2>6. CASE StartJoin(t)
    BY <2>6 DEF InstallingIsCarried, Carries, StartJoin, Goto, StartPCs,
       MayContinue, Canceled, statusVars, flagVars
  <2>7. CASE StartCommit(t)
    BY <2>7 DEF TypeOK, InstallingIsCarried, Carries, StartCommit, Committed,
       WorkerPCs
  <2>8. CASE StartNoThread(t)
    BY <2>8 DEF InstallingIsCarried, StartNoThread
  <2>9. QED
    BY <1>2, <2>1, <2>2, <2>3, <2>4, <2>5, <2>6, <2>7, <2>8 DEF StartStep
<1>3. ASSUME NEW w \in Workers, WorkerStep(w)
      PROVE  InstallingIsCarried'
  BY <1>3, WorkerCarries
<1>4. CASE UNCHANGED <<statusVars, flagVars, pc>>
  BY <1>4 DEF InstallingIsCarried, Carries, MayContinue, Canceled, statusVars,
     flagVars
<1>5. ASSUME ~is_installing' \/ ~monitor', is_installing' => is_installing /\ ~detach'
      PROVE  InstallingIsCarried'
  BY <1>5 DEF InstallingIsCarried
<1>6. ASSUME NEW t \in Stoppers, StopEnds(t)
      PROVE  InstallingIsCarried'
  <2>1. CASE UNCHANGED pc
    BY <1>6, <2>1 DEF InstallingIsCarried, Carries, MayContinue, Canceled,
       StopEnds, statusVars, flagVars
  <2>2. CASE t \in Workers /\ pc[t] \in StopPCs /\ Leave(t)
    BY <1>6, <2>2, Continues DEF InstallingIsCarried, Carries, MayContinue,
       Canceled, Leave, Goto, StopEnds, StartPCs, WorkerPCs, statusVars, flagVars
  <2>3. QED
    BY <1>6, <2>1, <2>2, WorkerReturns
<1>7. ASSUME NEW t \in Stoppers, StopStep(t) \/ SpuriousWake(t)
      PROVE  InstallingIsCarried'
  BY <1>4, <1>6, <1>7 DEF StopStep, StopBegins, StopSleeps, SpuriousWake
<1>8. QED
  BY <1>1, <1>2, <1>3, <1>4, <1>5, <1>7 DEF InstallingIsCarried, Next, Cancel,
     Detach, DiscWait, DiscEnds, DiscFound, DiscTimeout, Error, ShutdownBegin,
     Shutdown, ShutdownTake, ShutdownJoin, vars, statusVars

-----------------------------------------------------------------------------
(* The worker that stops the stream server                                 *)

\* A worker in a stop takes no other step.
LEMMA Awake ==
  ASSUME PlacesOK, NEW w \in Workers, WorkerStep(w)
  PROVE  w \notin shut
<1>1. w \in shut => pc[w] \in StopPCs /\ (Ends(w) => StopsAtEnd(w))
  BY AtStops
<1>2. pc[w] \in StopPCs => Ends(w) /\ ~StopsAtEnd(w)
  BY Continues DEF WorkerStep, WorkerBegin, WorkerOpen, WorkerBeginFails, WorkerLaunch,
   WorkerRetry, WorkerRebegin, WorkerReopenFails, WorkerVerify, WorkerDirect,
   WorkerResubmit, WorkerFailing, WorkerMonitor, WorkerPoll, WorkerPollFails,
   WorkerPollOffline, WorkerMResubmit, WorkerComplete, WorkerCapture,
   WorkerLeaves, WorkerHandoffFails,
     OpenPCs
<1>3. QED
  BY <1>1, <1>2

\* The other workers stay where they are.
LEMMA OthersStay ==
  ASSUME TypeOK, NEW w \in Workers, WorkerStep(w)
  PROVE  \A v \in Workers \ {w} : pc'[v] = pc[v] /\ mode'[v] = mode[v]
<1>1. UNCHANGED mode \/ \E m \in {"network", "usb", "direct"} : mode' = [mode EXCEPT ![w] = m]
  BY DEF Leave, Kept,
     WorkerStep, WorkerBegin, WorkerOpen, WorkerBeginFails, WorkerLaunch,
   WorkerRetry, WorkerRebegin, WorkerReopenFails, WorkerVerify, WorkerDirect,
   WorkerResubmit, WorkerFailing, WorkerMonitor, WorkerPoll, WorkerPollFails,
   WorkerPollOffline, WorkerMResubmit, WorkerComplete, WorkerCapture,
   WorkerLeaves, WorkerHandoffFails
<1>2. QED
  BY <1>1, WorkerMoves DEF TypeOK, Goto, Threads

\* A worker installs directly only past the places where it starts the server
\* or falls back.
LEMMA WorkerPlaces ==
  ASSUME TypeOK, PlacesOK, NEW w \in Workers, WorkerStep(w)
  PROVE  pc'[w] \in OpenPCs \cup (StopPCs \ EndPCs) => mode'[w] # "direct"
<1>. USE WorkersAssumption DEF Workers, Threads
<1>1. CASE WorkerBegin(w) \/ WorkerRetry(w) \/ WorkerRebegin(w) \/ WorkerPollOffline(w)
  BY <1>1, Continues DEF TypeOK, PlacesOK, WorkerBegin, WorkerRetry,
     WorkerRebegin, WorkerPollOffline, Goto, OpenPCs, EndPCs
<1>2. CASE WorkerVerify(w)
  BY <1>2, Continues DEF TypeOK, WorkerVerify, Goto, OpenPCs, EndPCs
<1>3. CASE WorkerLeaves(w)
  BY <1>3, Continues DEF TypeOK, WorkerLeaves, Leave, Goto, OpenPCs, EndPCs, Ends
<1>4. CASE WorkerOpen(w) \/ WorkerBeginFails(w) \/ WorkerLaunch(w) \/ WorkerReopenFails(w)
             \/ WorkerDirect(w) \/ WorkerResubmit(w) \/ WorkerFailing(w)
  <2>1. \E p \in {"launch", "again", "done", "teardown", "submit", "refused", "resubmit",
                  "mresubmit", "monitor", "failing"} : pc' = [pc EXCEPT ![w] = p]
    BY <1>4 DEF WorkerOpen, WorkerBeginFails, WorkerLaunch, WorkerReopenFails,
       WorkerDirect, WorkerResubmit, WorkerFailing, Goto
  <2>2. QED
    BY <2>1, Continues DEF TypeOK, OpenPCs, EndPCs
<1>5. CASE WorkerMonitor(w) \/ WorkerPoll(w) \/ WorkerPollFails(w) \/ WorkerMResubmit(w)
             \/ WorkerComplete(w) \/ WorkerCapture(w) \/ WorkerHandoffFails(w)
  BY <1>5, Continues DEF TypeOK, WorkerMonitor, WorkerPoll, WorkerPollFails,
     WorkerMResubmit, WorkerComplete, WorkerCapture, WorkerHandoffFails, Goto,
     OpenPCs, EndPCs
<1>6. QED
  BY <1>1, <1>2, <1>3, <1>4, <1>5 DEF WorkerStep

\* What a commit makes of the workers.
LEMMA Commits ==
  ASSUME TypeOK, NEW t \in Threads, StartCommit(t)
  PROVE  /\ nworkers + 1 \in Workers /\ pc[nworkers + 1] = "unborn" /\ t # nworkers + 1
         /\ mode'[nworkers + 1] # "direct" /\ pc'[nworkers + 1] = "begin"
         /\ pc[t] = "prepare" /\ pc'[t] \in {"idle", "done"}
         /\ \A w \in Workers \ {nworkers + 1} : mode'[w] = mode[w]
         /\ \A w \in Threads \ {nworkers + 1, t} : pc'[w] = pc[w]
         /\ UNCHANGED <<serverVars, kpc, dpc, main>>
<1>. USE ThreadsAssumption, WorkersAssumption DEF Workers, Threads
<1>1. nworkers + 1 \in Workers /\ pc[t] = "prepare" /\ UNCHANGED <<serverVars, kpc, dpc, main>>
  BY DEF StartCommit, MayCommit, otherVars
<1>2. pc[nworkers + 1] = "unborn" /\ t # nworkers + 1
  BY <1>1 DEF TypeOK
<1>3. /\ mode'[nworkers + 1] # "direct"
      /\ \A w \in Workers \ {nworkers + 1} : mode'[w] = mode[w]
  BY <1>1, KindsAssumption DEF StartCommit, KindsOf, TypeOK
<1>4. PICK p \in {"idle", "done"} :
        pc' = [pc EXCEPT ![t] = p, ![nworkers + 1] = "begin"]
  BY DEF StartCommit
<1>5. QED
  BY <1>1, <1>2, <1>3, <1>4 DEF TypeOK

\* What a step of a start, or of the stop, leaves alone.
LEMMA StartMoves ==
  ASSUME NEW t \in Threads, StartStep(t) \/ (t \in Starters /\ Start(t)), ~StartCommit(t)
  PROVE  /\ pc[t] \in StartPCs \cup {"idle"}
         /\ \E p \in StartPCs \cup {"idle", "done", "hofail"} : Goto(t, p)
         /\ UNCHANGED <<serverVars, mode, kpc, dpc, main>>
BY DEF StartStep, Start, StartCheck, StartReject, HandoffCheck, HandoffReject,
   StartTake, StartJoin, StartNoThread, MayCommit, Idle, StartPCs, jobVars, otherVars

LEMMA PlacesStep ==
  ASSUME TypeOK, PlacesOK, [Next]_vars
  PROVE  PlacesOK'
<1>. USE ThreadsAssumption, WorkersAssumption DEF Workers, Threads, Main
<1>. DEFINE Place(v) == pc[v] \in OpenPCs \cup (StopPCs \ EndPCs) => mode[v] # "direct"
<1>1. ASSUME NEW v \in Stoppers, AtStop(v),
             v \in Workers => pc'[v] = pc[v] /\ mode'[v] = mode[v],
             v \in Cancellers => kpc'[v] = kpc[v], v = Main => main' = main
      PROVE  AtStop(v)'
  BY <1>1 DEF AtStop, Ends, StopsAtEnd
<1>2. \A v \in shut : v \in Stoppers /\ AtStop(v)
  BY DEF PlacesOK, TypeOK
<1>3. ASSUME NEW w \in Workers, WorkerStep(w)
      PROVE  PlacesOK'
  <2>1. w \notin shut /\ UNCHANGED <<shut, kpc, main>>
    BY <1>3, Awake, WorkerTypes, WorkerMoves DEF Kept, otherVars
  <2>2. \A v \in Workers \ {w} : pc'[v] = pc[v] /\ mode'[v] = mode[v]
    BY <1>3, OthersStay
  <2>3. \A v \in shut' : AtStop(v)'
    BY <1>1, <1>2, <2>1, <2>2
  <2>4. \A v \in Workers : Place(v)'
    BY <1>3, <2>2, WorkerPlaces DEF PlacesOK
  <2>5. QED
    BY <2>3, <2>4 DEF PlacesOK
<1>4. ASSUME NEW t \in Threads, StartCommit(t)
      PROVE  PlacesOK'
  <2>1. nworkers + 1 \notin shut /\ (t \in Workers => t \notin shut)
    BY <1>4, AtStops, Commits, Continues
  <2>2. \A v \in shut' : AtStop(v)'
    BY <1>1, <1>2, <1>4, <2>1, Commits DEF serverVars
  <2>3. \A v \in Workers : Place(v)'
    BY <1>4, Commits, Continues DEF PlacesOK, OpenPCs
  <2>4. QED
    BY <2>2, <2>3 DEF PlacesOK
<1>5. ASSUME NEW t \in Threads, StartStep(t) \/ (t \in Starters /\ Start(t)), ~StartCommit(t)
      PROVE  PlacesOK'
  <2>1. PICK p \in StartPCs \cup {"idle", "done", "hofail"} : pc' = [pc EXCEPT ![t] = p]
    BY <1>5, StartMoves DEF Goto
  <2>2. t \in Workers => t \notin shut
    BY <1>5, AtStops, StartMoves, Continues DEF StartPCs
  <2>3. \A v \in shut' : AtStop(v)'
    BY <1>1, <1>2, <1>5, <2>1, <2>2, StartMoves DEF serverVars
  <2>4. \A v \in Workers : Place(v)'
    BY <1>5, <2>1, StartMoves, Continues DEF PlacesOK, OpenPCs, StartPCs, TypeOK
  <2>5. QED
    BY <2>3, <2>4 DEF PlacesOK
<1>6. ASSUME NEW t \in Stoppers, StopBegins(t)
      PROVE  PlacesOK'
  BY <1>6 DEF StopBegins, PlacesOK, AtStop, Ends, StopsAtEnd, jobVars, otherVars
<1>7. ASSUME NEW t \in Stoppers, StopEnds(t)
      PROVE  PlacesOK'
  <2>1. shut' = shut \ {t}
    BY <1>7 DEF StopEnds
  <2>2. CASE t \notin Workers /\ UNCHANGED <<pc, mode>>
    <3>1. \A v \in shut' : (v \in Cancellers => kpc'[v] = kpc[v]) /\ (v = Main => main' = main)
      BY <1>7, <2>1, <2>2 DEF StopEnds, Returns, TypeOK
    <3>2. \A v \in shut' : AtStop(v)'
      BY <1>1, <1>2, <2>1, <2>2, <3>1
    <3>3. QED
      BY <2>2, <3>2 DEF PlacesOK
  <2>3. CASE t \in Workers /\ pc[t] \in StopPCs /\ Leave(t)
    <3>1. \A v \in Workers \ {t} : pc'[v] = pc[v] /\ mode'[v] = mode[v]
      BY <2>3 DEF TypeOK, Leave, Goto
    <3>2. UNCHANGED <<kpc, main>>
      BY <1>7, <2>3 DEF StopEnds, Returns
    <3>3. \A v \in shut' : AtStop(v)'
      BY <1>1, <1>2, <2>1, <3>1, <3>2
    <3>4. Place(t)'
      BY <2>3, Continues DEF PlacesOK, TypeOK, Leave, Goto, Ends, OpenPCs, EndPCs
    <3>5. QED
      BY <3>1, <3>3, <3>4 DEF PlacesOK
  <2>4. QED
    BY <1>7, <2>2, <2>3, WorkerReturns
<1>8. ASSUME NEW k \in Cancellers, Cancel(k)
      PROVE  PlacesOK'
  <2>1. \A v \in shut' : AtStop(v)'
    BY <1>2, <1>8 DEF Cancel, AtStop, Ends, StopsAtEnd, TypeOK, serverVars, jobVars
  <2>2. QED
    BY <1>8, <2>1 DEF PlacesOK, Cancel, jobVars
<1>9. CASE ShutdownBegin \/ ShutdownTake \/ ShutdownJoin
  <2>1. \A v \in shut' : AtStop(v)'
    BY <1>2, <1>9 DEF ShutdownBegin, ShutdownTake, ShutdownJoin, AtStop, Ends,
       StopsAtEnd, serverVars, jobVars
  <2>2. QED
    BY <1>9, <2>1 DEF PlacesOK, ShutdownBegin, ShutdownTake, ShutdownJoin, jobVars
<1>10. CASE UNCHANGED <<pc, mode, shut, kpc, main>>
  BY <1>10 DEF PlacesOK, AtStop, Ends, StopsAtEnd
<1>11. QED
  BY <1>3, <1>4, <1>5, <1>6, <1>7, <1>8, <1>9, <1>10 DEF Next, StopStep,
     StopSleeps, SpuriousWake, Detach, DiscWait, DiscEnds, DiscFound,
     DiscTimeout, Shutdown, vars, serverVars, jobVars, otherVars

\* A worker that streams goes on streaming until its stop has ended.
LEMMA WorkerStreams ==
  ASSUME TypeOK, PlacesOK, NEW w \in Workers, WorkerStep(w)
  PROVE  /\ Streams(w) => Streams(w)'
         /\ server' => server \/ Streams(w)'
         /\ running' => running \/ Streams(w)'
<1>. USE WorkersAssumption DEF Workers, Threads, TypeOK, PlacesOK, Streams, StreamPCs,
     WorkerPCs, Goto, serverVars
<1>1. CASE WorkerOpen(w)
  BY <1>1 DEF WorkerOpen, OpenPCs
<1>2. CASE WorkerBegin(w) \/ WorkerBeginFails(w) \/ WorkerReopenFails(w) \/ WorkerRebegin(w)
  BY <1>2 DEF WorkerBegin, WorkerBeginFails, WorkerReopenFails, WorkerRebegin, NotOpened
<1>3. CASE WorkerLaunch(w) \/ WorkerRetry(w) \/ WorkerDirect(w) \/ WorkerResubmit(w)
  BY <1>3 DEF WorkerLaunch, WorkerRetry, WorkerDirect, WorkerResubmit
<1>4. CASE WorkerVerify(w)
  BY <1>4 DEF WorkerVerify
<1>5. CASE WorkerFailing(w) \/ WorkerMonitor(w) \/ WorkerPoll(w) \/ WorkerPollFails(w)
             \/ WorkerPollOffline(w)
  BY <1>5 DEF WorkerFailing, WorkerMonitor, WorkerPoll, WorkerPollFails, WorkerPollOffline
<1>6. CASE WorkerMResubmit(w) \/ WorkerComplete(w) \/ WorkerCapture(w) \/ WorkerHandoffFails(w)
  BY <1>6 DEF WorkerMResubmit, WorkerComplete, WorkerCapture, WorkerHandoffFails
<1>7. CASE WorkerLeaves(w)
  BY <1>7 DEF WorkerLeaves, StopsAtEnd
<1>8. QED
  BY <1>1, <1>2, <1>3, <1>4, <1>5, <1>6, <1>7 DEF WorkerStep

LEMMA ServerStep ==
  ASSUME TypeOK, PlacesOK, ServerHasWorker, [Next]_vars
  PROVE  ServerHasWorker'
<1>. USE ThreadsAssumption, WorkersAssumption DEF Workers, Threads
<1>1. ASSUME \A v \in Workers : Streams(v) => Streams(v)',
             UNCHANGED <<server, running>>, \A v \in Workers : v \in shut' => v \in shut
      PROVE  ServerHasWorker'
  BY <1>1 DEF ServerHasWorker
<1>2. ASSUME NEW w \in Workers, WorkerStep(w)
      PROVE  ServerHasWorker'
  <2>1. w \notin shut /\ UNCHANGED shut
    BY <1>2, Awake, WorkerTypes
  <2>2. \A v \in Workers : Streams(v) => Streams(v)'
    BY <1>2, OthersStay, WorkerStreams DEF Streams
  <2>3. QED
    BY <1>2, <2>1, <2>2, WorkerStreams DEF ServerHasWorker
<1>3. ASSUME NEW t \in Threads, StartCommit(t)
      PROVE  ServerHasWorker'
  <2>1. \A v \in Workers : Streams(v) => Streams(v)'
    BY <1>3, Commits DEF Streams, StreamPCs, WorkerPCs
  <2>2. QED
    BY <1>1, <1>3, <2>1, Commits DEF serverVars
<1>4. ASSUME NEW t \in Threads, StartStep(t) \/ (t \in Starters /\ Start(t)), ~StartCommit(t)
      PROVE  ServerHasWorker'
  <2>1. PICK p \in StartPCs \cup {"idle", "done", "hofail"} : pc' = [pc EXCEPT ![t] = p]
    BY <1>4, StartMoves DEF Goto
  <2>2. \A v \in Workers : Streams(v) => Streams(v)'
    BY <1>4, <2>1, StartMoves DEF TypeOK, Streams, StreamPCs, WorkerPCs, StartPCs
  <2>3. QED
    BY <1>1, <1>4, <2>2, StartMoves DEF serverVars
<1>5. ASSUME NEW t \in Stoppers, StopBegins(t)
      PROVE  ServerHasWorker'
  BY <1>5 DEF StopBegins, ServerHasWorker, Streams, jobVars
<1>6. ASSUME NEW t \in Stoppers, StopEnds(t)
      PROVE  ServerHasWorker'
  <2>1. server' = FALSE /\ running' = running /\ t \in shut /\ shut' = shut \ {t}
    BY <1>6 DEF StopEnds
  <2>2. \A v \in Workers : v # t => pc'[v] = pc[v] /\ mode'[v] = mode[v]
    BY <1>6, WorkerReturns DEF TypeOK, Leave, Goto
  <2>3. QED
    BY <2>1, <2>2 DEF ServerHasWorker, Streams
<1>7. CASE UNCHANGED <<pc, mode, server, running, shut>>
  BY <1>7 DEF ServerHasWorker, Streams
<1>8. QED
  BY <1>2, <1>3, <1>4, <1>5, <1>6, <1>7 DEF Next, StopStep, StopSleeps,
     SpuriousWake, Cancel, Detach, DiscWait, DiscEnds, DiscFound, DiscTimeout,
     ShutdownBegin, Shutdown, ShutdownTake, ShutdownJoin, vars, serverVars, jobVars

-----------------------------------------------------------------------------
(* Theorems                                                                *)

\* The invariant holds at first, and every step keeps it.
LEMMA InitIInv == Init => IInv
<1>. USE ThreadsAssumption, WorkersAssumption DEF Workers, Threads, None
<1>1. ASSUME Init PROVE TypeOK
  <2>1. pc \in [Threads -> PCs] /\ \A t \in Threads : pc[t] \in {"idle", "unborn"}
    BY <1>1 DEF Init, PCs
  <2>2. \A w \in Workers : pc[w] = "unborn"
    BY <1>1 DEF Init
  <2>3. old \in [Threads \cup {Main} -> 0 .. nworkers] /\ \A t \in Threads : old[t] = None
    BY <1>1 DEF Init
  <2>4. mode \in [Workers -> {"network", "usb", "direct"}]
    BY <1>1 DEF Init
  <2>5. kpc \in [Cancellers -> {"idle", "teardown"}] /\ dpc \in [Readers -> {"idle", "waiting"}]
    BY <1>1 DEF Init
  <2>6. /\ nworkers \in 0 .. MaxWorkers /\ handle \in 0 .. nworkers /\ live \subseteq Starters
        /\ main \in {"up", "take", "join", "stop", "down"}
        /\ \A w \in Workers : w > nworkers
    BY <1>1 DEF Init
  <2>7. QED
    BY <1>1, <2>1, <2>2, <2>3, <2>4, <2>5, <2>6 DEF Init, TypeOK
<1>2. ASSUME Init PROVE InstallingIsCarried /\ JoinedOnce /\ ServerHasWorker /\ PlacesOK
  BY <1>2, Continues DEF Init, InstallingIsCarried, JoinedOnce,
     ServerHasWorker, PlacesOK, OpenPCs
<1>3. QED
  BY <1>1, <1>2 DEF IInv

\* IInv is an inductive invariant of the installer, for any number of threads
\* that start, cancel and detach, of readers that wait for a disc, and of
\* installations.
THEOREM InstallerInductive == Spec => []IInv
<1>1. IInv /\ [Next]_vars => IInv'
  BY TypeStep, CarryStep, JoinStep, ServerStep, PlacesStep DEF IInv
<1>2. QED
  BY InitIInv, <1>1, PTL DEF Spec

\* Whatever the races of starts, cancels, detaches and handoffs, the status
\* says "installing" only while a worker is there to change it.
THEOREM NeverStuckInstalling == Spec => []InstallingHasWorker
<1>1. IInv => InstallingHasWorker
  BY DEF IInv, InstallingIsCarried, InstallingHasWorker, Carries, Alive,
     StartPCs, WorkerPCs
<1>2. QED
  BY InstallerInductive, <1>1, PTL

\* No worker's handle is held by two threads that join it, nor by itself
\* (installer_start_internal, called by a starter or by the worker that ends).
THEOREM WorkersJoinedOnce == Spec => []JoinedOnce
<1>1. IInv => JoinedOnce
  BY DEF IInv
<1>2. QED
  BY InstallerInductive, <1>1, PTL

\* A session of the stream server always has a worker that will stop it.
THEOREM ServerIsStopped == Spec => []ServerHasWorker
<1>1. IInv => ServerHasWorker
  BY DEF IInv
<1>2. QED
  BY InstallerInductive, <1>1, PTL

-----------------------------------------------------------------------------
(* The stream server while one worker uses it at a time                    *)

Waiting == {r \in Readers : dpc[r] = "waiting"}

\* A reader waits for a disc only under a session of the stream server, which
\* counts it; and a worker that starts the server again has stopped it.
Served == Waiting # {} => server
Counted == refs = Cardinality(Waiting)
Down == \A w \in Workers : pc[w] \in {"rebegin", "reclear", "reopen"} => ~server
LeaseInv == Served /\ Counted /\ Down

LEMMA WaitingFinite == IsFiniteSet(Waiting)
BY ReadersAssumption, FS_Subset DEF Waiting

\* Who starts the server finds it down.
LEMMA FoundDown ==
  ASSUME TypeOK, PlacesOK, ServerHasWorker, LeaseInv, OneServerUser,
         NEW w \in Workers, pc[w] \in OpenPCs
  PROVE  ~server /\ Waiting = {}
<1>1. CASE pc[w] \in {"begin", "open"}
  <2>1. ~Streams(w)
    BY <1>1 DEF Streams, StreamPCs
  <2>2. \A v \in Workers : ~Streams(v)
    BY <1>1, <2>1 DEF OneServerUser
  <2>3. QED
    BY <2>2 DEF ServerHasWorker, LeaseInv, Served
<1>2. CASE pc[w] \in {"rebegin", "reopen"}
  BY <1>2 DEF LeaseInv, Served, Down
<1>3. QED
  BY <1>1, <1>2 DEF OpenPCs

\* A step publishes a stream or gives one up with no reader in it, or a reader
\* comes or goes.
Publishes == ~server /\ server' /\ Waiting = {} /\ refs' = 0 /\ UNCHANGED dpc
Retires == ~server' /\ Waiting = {} /\ refs' = 0 /\ UNCHANGED dpc
Comes(r) == DiscWait(r)
Goes(r) == DiscEnds(r)

LEMMA LeaseSteps ==
  ASSUME TypeOK, PlacesOK, ServerHasWorker, LeaseInv, OneServerUser, [Next]_vars
  PROVE  \/ Publishes \/ Retires \/ UNCHANGED <<server, refs, dpc>>
         \/ \E r \in Readers : Comes(r) \/ Goes(r)
<1>1. ASSUME NEW w \in Workers, WorkerStep(w)
      PROVE  Publishes \/ Retires \/ UNCHANGED <<server, refs, dpc>>
  <2>1. UNCHANGED dpc
    BY <1>1, WorkerMoves DEF Kept, otherVars
  <2>2. CASE WorkerOpen(w)
    BY <2>1, <2>2, FoundDown DEF WorkerOpen, Publishes
  <2>3. CASE WorkerBeginFails(w) \/ WorkerReopenFails(w)
    BY <2>1, <2>3, FoundDown DEF WorkerBeginFails, WorkerReopenFails, OpenPCs,
       NotOpened, Retires, serverVars
  <2>4. CASE ~WorkerOpen(w) /\ ~WorkerBeginFails(w) /\ ~WorkerReopenFails(w)
    <3>1. UNCHANGED serverVars
      BY <1>1, <2>4 DEF WorkerStep, WorkerBegin, WorkerOpen, WorkerBeginFails, WorkerLaunch,
   WorkerRetry, WorkerRebegin, WorkerReopenFails, WorkerVerify, WorkerDirect,
   WorkerResubmit, WorkerFailing, WorkerMonitor, WorkerPoll, WorkerPollFails,
   WorkerPollOffline, WorkerMResubmit, WorkerComplete, WorkerCapture,
   WorkerLeaves, WorkerHandoffFails
    <3>2. QED
      BY <2>1, <3>1 DEF serverVars
  <2>5. QED
    BY <2>2, <2>3, <2>4
<1>2. ASSUME NEW t \in Threads, StartStep(t) \/ (t \in Starters /\ Start(t))
      PROVE  UNCHANGED <<server, refs, dpc>>
  BY <1>2, StartMoves, Commits DEF serverVars
<1>3. ASSUME NEW t \in Stoppers, StopEnds(t)
      PROVE  Retires
  <2>1. refs = 0 /\ refs' = 0 /\ ~server' /\ UNCHANGED dpc
    BY <1>3 DEF StopEnds, Drained
  <2>2. Waiting = {}
    BY <2>1, WaitingFinite, FS_EmptySet DEF LeaseInv, Counted
  <2>3. QED
    BY <2>1, <2>2 DEF Retires
<1>4. QED
  BY <1>1, <1>2, <1>3 DEF Next, StopStep, StopBegins, StopSleeps, SpuriousWake,
     Cancel, Detach, DiscFound, DiscTimeout, ShutdownBegin, Shutdown,
     ShutdownTake, ShutdownJoin, Comes, Goes, vars, serverVars, otherVars, Threads

\* A worker gets to the places where it starts the server again by a stop.
LEMMA DownStep ==
  ASSUME TypeOK, PlacesOK, ServerHasWorker, LeaseInv, OneServerUser, [Next]_vars
  PROVE  Down'
<1>. USE ThreadsAssumption, WorkersAssumption DEF Workers, Threads
<1>. DEFINE Again(v) == pc[v] \in {"rebegin", "reclear", "reopen"}
<1>1. ASSUME server' => server, \A v \in Workers : Again(v)' => Again(v)
      PROVE  Down'
  BY <1>1 DEF LeaseInv, Down
<1>2. ASSUME NEW w \in Workers, WorkerStep(w)
      PROVE  Down'
  <2>1. \A v \in Workers \ {w} : pc'[v] = pc[v]
    BY <1>2, OthersStay
  <2>2. CASE WorkerOpen(w)
    <3>1. ~Again(w)'
      BY <2>2 DEF WorkerOpen, Goto, TypeOK
    <3>2. ASSUME NEW v \in Workers \ {w}, Again(v)' PROVE FALSE
      <4>1. Streams(v)
        BY <2>1, <3>2, Continues DEF PlacesOK, Streams, StreamPCs, WorkerPCs, OpenPCs,
           EndPCs
      <4>2. Streams(w) \/ pc[w] \in {"begin", "open"}
        BY <2>2 DEF PlacesOK, WorkerOpen, OpenPCs, Streams, StreamPCs, WorkerPCs
      <4>3. QED
        BY <4>1, <4>2 DEF OneServerUser
    <3>3. QED
      BY <3>1, <3>2 DEF Down
  <2>3. CASE ~WorkerOpen(w)
    <3>1. server' => server
      BY <1>2, <2>3 DEF NotOpened, serverVars,
         WorkerStep, WorkerBegin, WorkerOpen, WorkerBeginFails, WorkerLaunch,
   WorkerRetry, WorkerRebegin, WorkerReopenFails, WorkerVerify, WorkerDirect,
   WorkerResubmit, WorkerFailing, WorkerMonitor, WorkerPoll, WorkerPollFails,
   WorkerPollOffline, WorkerMResubmit, WorkerComplete, WorkerCapture,
   WorkerLeaves, WorkerHandoffFails
    <3>2. Again(w)' => Again(w)
      BY <1>2, <2>3, Continues DEF TypeOK, Goto, Leave, Ends, EndPCs,
         WorkerStep, WorkerBegin, WorkerOpen, WorkerBeginFails, WorkerLaunch,
   WorkerRetry, WorkerRebegin, WorkerReopenFails, WorkerVerify, WorkerDirect,
   WorkerResubmit, WorkerFailing, WorkerMonitor, WorkerPoll, WorkerPollFails,
   WorkerPollOffline, WorkerMResubmit, WorkerComplete, WorkerCapture,
   WorkerLeaves, WorkerHandoffFails
    <3>3. QED
      BY <1>1, <2>1, <3>1, <3>2
  <2>4. QED
    BY <2>2, <2>3
<1>3. ASSUME NEW t \in Threads, StartCommit(t)
      PROVE  Down'
  BY <1>1, <1>3, Commits DEF serverVars
<1>4. ASSUME NEW t \in Threads, StartStep(t) \/ (t \in Starters /\ Start(t)), ~StartCommit(t)
      PROVE  Down'
  <2>1. PICK p \in StartPCs \cup {"idle", "done", "hofail"} : pc' = [pc EXCEPT ![t] = p]
    BY <1>4, StartMoves DEF Goto
  <2>2. \A v \in Workers : Again(v)' => Again(v)
    BY <2>1 DEF TypeOK, StartPCs
  <2>3. QED
    BY <1>1, <1>4, <2>2, StartMoves DEF serverVars
<1>5. ASSUME NEW t \in Stoppers, StopEnds(t)
      PROVE  Down'
  BY <1>5 DEF StopEnds, Down
<1>6. QED
  BY <1>1, <1>2, <1>3, <1>4, <1>5 DEF Next, StopStep, StopBegins, StopSleeps,
     SpuriousWake, Cancel, Detach, DiscWait, DiscEnds, DiscFound, DiscTimeout,
     ShutdownBegin, Shutdown, ShutdownTake, ShutdownJoin, vars, serverVars

LEMMA LeaseInvStep ==
  ASSUME TypeOK, PlacesOK, ServerHasWorker, LeaseInv, OneServerUser, [Next]_vars
  PROVE  LeaseInv'
<1>1. CASE Publishes \/ Retires
  BY <1>1, DownStep, FS_EmptySet DEF Publishes, Retires, LeaseInv, Served, Counted, Waiting
<1>2. CASE UNCHANGED <<server, refs, dpc>>
  BY <1>2, DownStep DEF LeaseInv, Served, Counted, Waiting
<1>3. ASSUME NEW r \in Readers, Comes(r)
      PROVE  LeaseInv'
  <2>1. Waiting' = Waiting \cup {r} /\ r \notin Waiting /\ server' /\ refs' = refs + 1
    BY <1>3 DEF Comes, DiscWait, TypeOK, Waiting
  <2>2. QED
    BY <2>1, DownStep, WaitingFinite, FS_AddElement DEF LeaseInv, Served, Counted
<1>4. ASSUME NEW r \in Readers, Goes(r)
      PROVE  LeaseInv'
  <2>1. Waiting' = Waiting \ {r} /\ r \in Waiting /\ server' = server
    BY <1>4 DEF Goes, DiscEnds, TypeOK, Waiting
  <2>2. Cardinality(Waiting') = Cardinality(Waiting) - 1 /\ Cardinality(Waiting) \in Nat
    BY <2>1, WaitingFinite, FS_RemoveElement, FS_CardinalityType
  <2>3. refs > 0
    BY <2>1, <2>2, WaitingFinite, FS_EmptySet DEF LeaseInv, Counted
  <2>4. refs' = refs - 1
    BY <1>4, <2>3 DEF Goes, DiscEnds
  <2>5. QED
    BY <2>1, <2>2, <2>4, DownStep DEF LeaseInv, Served, Counted
<1>5. QED
  BY <1>1, <1>2, <1>3, <1>4, LeaseSteps

LEMMA LeaseInvHolds == Spec /\ []OneServerUser => []LeaseInv
<1>1. Init => LeaseInv
  <2>1. ASSUME Init PROVE Waiting = {} /\ refs = 0 /\ ~server
    BY <2>1 DEF Init, Waiting
  <2>2. ASSUME Init PROVE Down
    BY <2>1, <2>2 DEF Down
  <2>3. QED
    BY <2>1, <2>2, FS_EmptySet DEF LeaseInv, Served, Counted
<1>2. IInv /\ LeaseInv /\ OneServerUser /\ [Next]_vars => LeaseInv'
  BY LeaseInvStep DEF IInv
<1>3. QED
  BY <1>1, <1>2, InstallerInductive, PTL DEF Spec

\* While one worker uses the stream server at a time ("the next worker must
\* only start after the first worker has completely stopped using the stream
\* server"), no reader waits for a disc without a session: no stop, of a
\* worker, a cancel or the shutdown, ends under it.
THEOREM ReadersAreServed == Spec /\ []OneServerUser => []Served
<1>1. LeaseInv => Served
  BY DEF LeaseInv
<1>2. QED
  BY <1>1, LeaseInvHolds, PTL

\* Who holds the server.
Disc == [r \in Readers |-> IF dpc[r] = "waiting" THEN 1 ELSE None]

LEMMA LeaseNext ==
  ASSUME TypeOK, PlacesOK, ServerHasWorker, LeaseInv, OneServerUser, [Next]_vars
  PROVE  [Lease!Next]_(Lease!leaseVars)
<1>1. 1 # None
  BY DEF None
<1>2. Waiting = {} => \A r \in Readers : Disc[r] = None
  BY DEF Waiting, Disc
<1>3. server \in BOOLEAN /\ dpc \in [Readers -> {"idle", "waiting"}]
  BY DEF TypeOK
<1>4. CASE Publishes
  <2>1. Lease!Publish(1)
    BY <1>1, <1>2, <1>4 DEF Publishes, Lease!Publish, Lease!Free, Disc
  <2>2. QED
    BY <2>1 DEF Lease!Next
<1>5. CASE Retires
  <2>1. CASE server
    <3>1. Lease!Retire
      BY <1>1, <1>2, <1>5, <2>1 DEF Retires, Lease!Retire, Lease!Free, Disc
    <3>2. QED
      BY <3>1 DEF Lease!Next
  <2>2. CASE ~server
    BY <1>5, <2>2 DEF Retires, Lease!leaseVars, Disc
  <2>3. QED
    BY <2>1, <2>2
<1>6. CASE UNCHANGED <<server, refs, dpc>>
  BY <1>6 DEF Lease!leaseVars, Disc
<1>7. ASSUME NEW r \in Readers, Comes(r) PROVE Lease!Next
  <2>1. server /\ server' = server /\ Disc[r] = None /\ Disc' = [Disc EXCEPT ![r] = 1]
    BY <1>3, <1>7 DEF Comes, DiscWait, Disc
  <2>2. Lease!Hold(r)
    BY <1>1, <2>1 DEF Lease!Hold, Disc
  <2>3. QED
    BY <2>2 DEF Lease!Next
<1>8. ASSUME NEW r \in Readers, Goes(r) PROVE Lease!Next
  <2>1. server' = server /\ dpc[r] = "waiting" /\ dpc' = [dpc EXCEPT ![r] = "idle"]
    BY <1>8 DEF Goes, DiscEnds
  <2>2. Disc[r] = 1 /\ Disc' = [Disc EXCEPT ![r] = None]
    BY <1>3, <2>1 DEF Disc
  <2>3. Lease!LetGo(r)
    BY <1>1, <2>1, <2>2 DEF Lease!LetGo, Disc
  <2>4. QED
    BY <2>3 DEF Lease!Next
<1>9. QED
  BY <1>4, <1>5, <1>6, <1>7, <1>8, LeaseSteps

\* While one worker uses the stream server at a time, its stops (of workers,
\* of cancels that overlap them or are late, of the shutdown), starts and
\* readers behave as the lease that StreamServer implements.
THEOREM LeaseAssumed == Spec /\ []OneServerUser => ImplementsLease
<1>1. Init => Lease!Init
  <2>1. ASSUME Init PROVE Disc = [r \in Readers |-> None] /\ ~server
    BY <2>1 DEF Init, Disc
  <2>2. QED
    BY <2>1 DEF Lease!Init, Disc
<1>2. IInv /\ LeaseInv /\ OneServerUser /\ [Next]_vars => [Lease!Next]_(Lease!leaseVars)
  BY LeaseNext DEF IInv
<1>3. QED
  BY <1>1, <1>2, InstallerInductive, LeaseInvHolds, PTL
     DEF Spec, ImplementsLease, Lease!Spec
=============================================================================
