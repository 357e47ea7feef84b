-------------------------- MODULE DirectUploadProofs --------------------------
(***************************************************************************)
(* For any number of windows, sockets, sessions and kinds of installation: *)
(* the uplink belongs to a socket in its loop, the uploader of the active  *)
(* session hears its seeks, a broken upload leaves no session behind, and  *)
(* a window's cancel waits for no reader that was not woken.  The session  *)
(* they share is the SegmentFeed that LiveStream implements.               *)
(***************************************************************************)
EXTENDS DirectUpload, TLAPS

\* Every step keeps the types.
LEMMA TypeStep ==
  ASSUME IInv, [Next]_vars
  PROVE  TypeOK'
<1>1. ASSUME NEW w \in Windows, HttpInit(w)
      PROVE  TypeOK'
  <2>1. aborted' \in BOOLEAN /\ header' \in BOOLEAN
    BY <1>1
    DEF HttpInit, socketVars, installVars
  <2>2. QED
    BY <1>1, <2>1, MaxSessionsAssumption
    DEF IInv, TypeOK, Cancels, Sessions, HttpInit, socketVars, installVars
<1>2. ASSUME NEW w \in Windows, HttpCancel(w)
      PROVE  TypeOK'
  BY <1>2
  DEF IInv, TypeOK, Cancels, HttpCancel, Matches, streamVars, socketVars,
      installVars
<1>3. ASSUME NEW w \in Windows, AskInstall(w)
      PROVE  TypeOK'
  BY <1>3
  DEF IInv, TypeOK, AskInstall, streamVars, ownerVars, socketVars, installVars
<1>4. ASSUME NEW s \in Socks, TakeUplink(s)
      PROVE  TypeOK'
  BY <1>4
  DEF IInv, TypeOK, InLoop, TakeUplink, MayUplink, streamVars, windowVars,
      installVars
<1>5. ASSUME NEW s \in Socks, CheckSegment(s)
      PROVE  TypeOK'
  BY <1>5
  DEF IInv, TypeOK, InLoop, CheckSegment, InFrameLoop, Authorized, streamVars,
      ownerVars, windowVars, installVars
<1>6. ASSUME NEW s \in Socks, StoreSegment(s)
      PROVE  TypeOK'
  BY <1>6
  DEF IInv, TypeOK, InLoop, StoreSegment, ownerVars, windowVars, installVars
<1>7. ASSUME NEW s \in Socks, Finish(s)
      PROVE  TypeOK'
  BY <1>7
  DEF IInv, TypeOK, Finish, InFrameLoop, Authorized, streamVars, ownerVars,
      windowVars, installVars
<1>8. ASSUME NEW s \in Socks, AskCancel(s)
      PROVE  TypeOK'
  BY <1>8
  DEF IInv, TypeOK, Threads, Cancels, AskCancel, InFrameLoop, Authorized,
      streamVars, ownerVars, windowVars, socketVars, installVars
<1>9. ASSUME NEW s \in Socks, Disconnect(s)
      PROVE  TypeOK'
  <2>1. fin' \in [Socks -> BOOLEAN]
    BY <1>9, Zenon
    DEF IInv, TypeOK, Disconnect, InFrameLoop, Unlinked, Closed, streamVars,
        windowVars, installVars
  <2>2. QED
    BY <1>9, <2>1
    DEF IInv, TypeOK, Cancels, Disconnect, InFrameLoop, Unlinked, Closed,
        streamVars, windowVars, installVars
<1>10. ASSUME NEW s \in Socks, Close(s)
      PROVE  TypeOK'
  BY <1>10
  DEF IInv, TypeOK, Close, Closed, streamVars, ownerVars, windowVars,
      installVars
<1>11. ASSUME NEW s \in Socks, NEW w \in Windows, InitMatches(s, w)
      PROVE  TypeOK'
  BY <1>11
  DEF IInv, TypeOK, InLoop, InitMatches, Matches, streamVars, ownerVars,
      windowVars, installVars
<1>12. ASSUME NEW t \in Threads, CancelInstaller(t)
      PROVE  TypeOK'
  BY <1>12
  DEF IInv, TypeOK, Cancels, CancelInstaller, AbortFirst, Otherwise, Released,
      streamVars, windowVars, socketVars
<1>13. ASSUME NEW t \in Threads, CancelAborts(t)
      PROVE  TypeOK'
  BY <1>13
  DEF IInv, TypeOK, Cancels, CancelAborts, Abort, ownerVars, windowVars,
      socketVars, installVars
<1>14. ASSUME NEW t \in Threads, CancelStops(t)
      PROVE  TypeOK'
  BY <1>14
  DEF IInv, TypeOK, Cancels, CancelStops, streamVars, ownerVars, windowVars,
      socketVars, installVars
<1>15. ASSUME NEW t \in Threads, Unlink(t)
      PROVE  TypeOK'
  BY <1>15
  DEF IInv, TypeOK, Cancels, Unlink, streamVars, windowVars, socketVars,
      installVars
<1>16. ASSUME NEW t \in Threads, Drop(t)
      PROVE  TypeOK'
  BY <1>16
  DEF IInv, TypeOK, Cancels, Drop, Abort, ownerVars, windowVars, socketVars,
      installVars
<1>17. ASSUME NEW t \in Threads, CancelDestroys(t)
      PROVE  TypeOK'
  <2>1. aborted' \in BOOLEAN /\ header' \in BOOLEAN
    BY <1>17
    DEF CancelDestroys, Destroy, Released, windowVars, socketVars, installVars
  <2>2. QED
    BY <1>17, <2>1
    DEF IInv, TypeOK, Cancels, CancelDestroys, Destroy, Released, windowVars,
        socketVars, installVars
<1>18. ASSUME HeaderArrives
      PROVE  TypeOK'
  BY <1>18
  DEF IInv, TypeOK, HeaderArrives, streamVars, ownerVars, socketVars,
      installVars
<1>19. ASSUME InstallLive
      PROVE  TypeOK'
  <2>1. headed' \in BOOLEAN
    BY <1>19
    DEF InstallLive
  <2>2. QED
    BY <1>19, <2>1
    DEF IInv, TypeOK, Jobs, InstallLive, streamVars, ownerVars, socketVars
<1>20. ASSUME InstallRefused
      PROVE  TypeOK'
  <2>1. headed' \in BOOLEAN
    BY <1>20
    DEF InstallRefused
  <2>2. QED
    BY <1>20, <2>1
    DEF IInv, TypeOK, InstallRefused, streamVars, ownerVars, socketVars,
        installVars
<1>21. ASSUME Attach
      PROVE  TypeOK'
  BY <1>21
  DEF IInv, TypeOK, Attach, ownerVars, windowVars, socketVars, installVars
<1>22. ASSUME Detach
      PROVE  TypeOK'
  BY <1>22
  DEF IInv, TypeOK, Detach, ownerVars, windowVars, socketVars, installVars
<1>23. ASSUME WorkerEnds
      PROVE  TypeOK'
  BY <1>23
  DEF IInv, TypeOK, WorkerEnds, streamVars, ownerVars, windowVars, socketVars
<1>24. ASSUME WorkerAborts
      PROVE  TypeOK'
  BY <1>24
  DEF IInv, TypeOK, WorkerAborts, Abort, ownerVars, windowVars, socketVars
<1>25. ASSUME WorkerDestroys
      PROVE  TypeOK'
  <2>1. aborted' \in BOOLEAN /\ header' \in BOOLEAN
    BY <1>25
    DEF WorkerDestroys, Destroy
  <2>2. QED
    BY <1>25, <2>1
    DEF IInv, TypeOK, WorkerDestroys, Destroy, ownerVars, windowVars, socketVars
<1>26. ASSUME NEW kind \in Kinds, InstallOther(kind)
      PROVE  TypeOK'
  BY <1>26
  DEF IInv, TypeOK, Jobs, InstallOther, streamVars, ownerVars, windowVars,
      socketVars
<1>27. CASE UNCHANGED vars
  BY <1>27
  DEF IInv, TypeOK, Threads, Cancels, InLoop, Sessions, Jobs, None, vars,
      streamVars, ownerVars, windowVars, socketVars, installVars
<1>28. ASSUME NEW s \in Socks, CheckSession(s)
      PROVE  TypeOK'
  BY <1>28
  DEF IInv, TypeOK, Threads, Cancels, CheckSession,
      streamVars, ownerVars, windowVars, socketVars, installVars
<1>29. QED
  BY <1>28, <1>1, <1>2, <1>3, <1>4, <1>5, <1>6, <1>7, <1>8, <1>9, <1>10, <1>11, <1>12,
      <1>13, <1>14, <1>15, <1>16, <1>17, <1>18, <1>19, <1>20, <1>21, <1>22, <1>23,
      <1>24, <1>25, <1>26, <1>27
  DEF Next, WindowStep, SocketStep, CancelStep, InstallerStep

\* Every step keeps the ids known: only a creation makes one.
LEMMA IdStep ==
  ASSUME IInv, [Next]_vars
  PROVE  KnownIds'
<1>1. ASSUME NEW w \in Windows, HttpInit(w)
      PROVE  KnownIds'
  BY <1>1
  DEF IInv, TypeOK, KnownIds, Sessions, HttpInit, socketVars, installVars
<1>2. ASSUME NEW w \in Windows, HttpCancel(w)
      PROVE  KnownIds'
  BY <1>2
  DEF IInv, TypeOK, KnownIds, None, HttpCancel, Matches, streamVars, socketVars,
      installVars
<1>3. ASSUME NEW s \in Socks, TakeUplink(s)
      PROVE  KnownIds'
  BY <1>3
  DEF IInv, TypeOK, KnownIds, None, TakeUplink, MayUplink, streamVars,
      windowVars, installVars
<1>4. ASSUME NEW s \in Socks, Disconnect(s)
      PROVE  KnownIds'
  BY <1>4
  DEF IInv, TypeOK, KnownIds, None, Disconnect, InFrameLoop, Unlinked, Closed,
      streamVars, windowVars, installVars
<1>5. ASSUME NEW s \in Socks, Close(s)
      PROVE  KnownIds'
  BY <1>5
  DEF IInv, TypeOK, KnownIds, None, Close, Closed, streamVars, ownerVars,
      windowVars, installVars
<1>6. ASSUME NEW s \in Socks, NEW w \in Windows, InitMatches(s, w)
      PROVE  KnownIds'
  BY <1>6
  DEF IInv, TypeOK, KnownIds, InitMatches, Matches, streamVars, ownerVars,
      windowVars, installVars
<1>7. ASSUME NEW t \in Threads, CancelDestroys(t)
      PROVE  KnownIds'
  BY <1>7
  DEF IInv, TypeOK, KnownIds, None, CancelDestroys, Destroy, Released,
      windowVars, socketVars, installVars
<1>8. ASSUME WorkerDestroys
      PROVE  KnownIds'
  BY <1>8
  DEF IInv, TypeOK, KnownIds, None, WorkerDestroys, Destroy, ownerVars,
      windowVars, socketVars
<1>9. CASE UNCHANGED <<session, created, ownerSid, have, auth>>
  BY <1>9
  DEF IInv, TypeOK, KnownIds, Threads, Sessions, None
<1>10. ASSUME NEW w \in Windows, AskInstall(w)
      PROVE  UNCHANGED <<session, created, ownerSid, have, auth>>
  BY <1>10 DEF AskInstall, streamVars, ownerVars, socketVars, installVars
<1>11. ASSUME NEW s \in Socks, CheckSegment(s)
      PROVE  UNCHANGED <<session, created, ownerSid, have, auth>>
  BY <1>11 DEF CheckSegment, InFrameLoop, Authorized, streamVars, ownerVars,
     windowVars, installVars
<1>12. ASSUME NEW s \in Socks, StoreSegment(s)
      PROVE  UNCHANGED <<session, created, ownerSid, have, auth>>
  BY <1>12 DEF StoreSegment, ownerVars, windowVars, installVars
<1>13. ASSUME NEW s \in Socks, Finish(s)
      PROVE  UNCHANGED <<session, created, ownerSid, have, auth>>
  BY <1>13 DEF Finish, InFrameLoop, Authorized, streamVars, ownerVars, windowVars,
     installVars
<1>14. ASSUME NEW s \in Socks, AskCancel(s)
      PROVE  UNCHANGED <<session, created, ownerSid, have, auth>>
  BY <1>14 DEF AskCancel, InFrameLoop, Authorized, streamVars, ownerVars, windowVars,
     socketVars, installVars
<1>15. ASSUME NEW t \in Threads, CancelInstaller(t)
      PROVE  UNCHANGED <<session, created, ownerSid, have, auth>>
  BY <1>15 DEF CancelInstaller, AbortFirst, Otherwise, Released, streamVars,
     windowVars, socketVars
<1>16. ASSUME NEW t \in Threads, CancelAborts(t)
      PROVE  UNCHANGED <<session, created, ownerSid, have, auth>>
  BY <1>16 DEF CancelAborts, Abort, ownerVars, windowVars, socketVars, installVars
<1>17. ASSUME NEW t \in Threads, CancelStops(t)
      PROVE  UNCHANGED <<session, created, ownerSid, have, auth>>
  BY <1>17 DEF CancelStops, streamVars, ownerVars, windowVars, socketVars, installVars
<1>18. ASSUME NEW t \in Threads, Unlink(t)
      PROVE  UNCHANGED <<session, created, ownerSid, have, auth>>
  BY <1>18 DEF Unlink, streamVars, windowVars, socketVars, installVars
<1>19. ASSUME NEW t \in Threads, Drop(t)
      PROVE  UNCHANGED <<session, created, ownerSid, have, auth>>
  BY <1>19 DEF Drop, Abort, ownerVars, windowVars, socketVars, installVars
<1>20. ASSUME HeaderArrives
      PROVE  UNCHANGED <<session, created, ownerSid, have, auth>>
  BY <1>20 DEF HeaderArrives, streamVars, ownerVars, socketVars, installVars
<1>21. ASSUME InstallLive
      PROVE  UNCHANGED <<session, created, ownerSid, have, auth>>
  BY <1>21 DEF InstallLive, streamVars, ownerVars, socketVars
<1>22. ASSUME InstallRefused
      PROVE  UNCHANGED <<session, created, ownerSid, have, auth>>
  BY <1>22 DEF InstallRefused, streamVars, ownerVars, socketVars, installVars
<1>23. ASSUME Attach
      PROVE  UNCHANGED <<session, created, ownerSid, have, auth>>
  BY <1>23 DEF Attach, ownerVars, windowVars, socketVars, installVars
<1>24. ASSUME Detach
      PROVE  UNCHANGED <<session, created, ownerSid, have, auth>>
  BY <1>24 DEF Detach, ownerVars, windowVars, socketVars, installVars
<1>25. ASSUME WorkerEnds
      PROVE  UNCHANGED <<session, created, ownerSid, have, auth>>
  BY <1>25 DEF WorkerEnds, streamVars, ownerVars, windowVars, socketVars
<1>26. ASSUME WorkerAborts
      PROVE  UNCHANGED <<session, created, ownerSid, have, auth>>
  BY <1>26 DEF WorkerAborts, Abort, ownerVars, windowVars, socketVars
<1>27. ASSUME NEW kind \in Kinds, InstallOther(kind)
      PROVE  UNCHANGED <<session, created, ownerSid, have, auth>>
  BY <1>27 DEF InstallOther, streamVars, ownerVars, windowVars, socketVars
<1>28. ASSUME UNCHANGED vars
      PROVE  UNCHANGED <<session, created, ownerSid, have, auth>>
  BY <1>28 DEF vars, streamVars, ownerVars, windowVars, socketVars, installVars
<1>29. ASSUME NEW s \in Socks, CheckSession(s)
      PROVE  UNCHANGED <<session, created, ownerSid, have, auth>>
  BY <1>29 DEF CheckSession, streamVars, ownerVars, windowVars, socketVars, installVars
<1>30. QED
  BY <1>29, <1>1, <1>2, <1>3, <1>4, <1>5, <1>6, <1>7, <1>8, <1>9, <1>10, <1>11, <1>12,
      <1>13, <1>14, <1>15, <1>16, <1>17, <1>18, <1>19, <1>20, <1>21, <1>22, <1>23,
      <1>24, <1>25, <1>26, <1>27, <1>28
  DEF Next, WindowStep, SocketStep, CancelStep, InstallerStep

\* A socket has the uplink from the step that lets it in to the step that ends
\* its loop at the latest.
LEMMA LinkStep ==
  ASSUME IInv, [Next]_vars
  PROVE  LetIn' /\ UplinkIsOpen'
<1>1. ASSUME NEW s \in Socks, TakeUplink(s)
      PROVE  LetIn' /\ UplinkIsOpen'
  BY <1>1
  DEF IInv, TypeOK, LetIn, UplinkIsOpen, InLoop, TakeUplink, MayUplink,
      streamVars, windowVars, installVars
<1>2. ASSUME NEW s \in Socks, CheckSegment(s)
      PROVE  LetIn' /\ UplinkIsOpen'
  BY <1>2
  DEF IInv, TypeOK, LetIn, UplinkIsOpen, InLoop, CheckSegment, InFrameLoop,
      Authorized, streamVars, ownerVars, windowVars, installVars
<1>3. ASSUME NEW s \in Socks, StoreSegment(s)
      PROVE  LetIn' /\ UplinkIsOpen'
  BY <1>3
  DEF IInv, TypeOK, LetIn, UplinkIsOpen, InLoop, StoreSegment, ownerVars,
      windowVars, installVars
<1>4. ASSUME NEW s \in Socks, Disconnect(s)
      PROVE  LetIn' /\ UplinkIsOpen'
  <2>1. uplink = s => auth[s] # None
    BY NobodyAssumption DEF IInv, UplinkIsOpen
  <2>2. CASE uplink = s /\ ~fin[s]
    BY <1>4, <2>1, <2>2
    DEF IInv, TypeOK, LetIn, UplinkIsOpen, Disconnect, InFrameLoop, Unlinked
  <2>3. CASE ~(uplink = s /\ ~fin[s])
    BY <1>4, <2>3
    DEF IInv, TypeOK, LetIn, UplinkIsOpen, Disconnect, InFrameLoop, Unlinked, Closed
  <2>4. QED
    BY <2>2, <2>3
<1>5. ASSUME NEW s \in Socks, Close(s)
      PROVE  LetIn' /\ UplinkIsOpen'
  BY <1>5
  DEF IInv, TypeOK, LetIn, UplinkIsOpen, InLoop, Close, Closed, streamVars,
      ownerVars, windowVars, installVars
<1>6. ASSUME NEW s \in Socks, NEW w \in Windows, InitMatches(s, w)
      PROVE  LetIn' /\ UplinkIsOpen'
  BY <1>6
  DEF IInv, TypeOK, LetIn, UplinkIsOpen, InLoop, InitMatches, Matches,
      streamVars, ownerVars, windowVars, installVars
<1>7. ASSUME NEW t \in Threads, Unlink(t)
      PROVE  LetIn' /\ UplinkIsOpen'
  BY <1>7
  DEF IInv, TypeOK, LetIn, UplinkIsOpen, Unlink, streamVars, windowVars,
      socketVars, installVars
<1>8. CASE UNCHANGED <<uplink, spc, auth>>
  BY <1>8
  DEF IInv, TypeOK, LetIn, UplinkIsOpen, InLoop, Threads, None
<1>9. ASSUME NEW w \in Windows, HttpInit(w)
      PROVE  UNCHANGED <<uplink, spc, auth>>
  BY <1>9 DEF HttpInit, socketVars, installVars
<1>10. ASSUME NEW w \in Windows, HttpCancel(w)
      PROVE  UNCHANGED <<uplink, spc, auth>>
  BY <1>10 DEF HttpCancel, Matches, streamVars, socketVars, installVars
<1>11. ASSUME NEW w \in Windows, AskInstall(w)
      PROVE  UNCHANGED <<uplink, spc, auth>>
  BY <1>11 DEF AskInstall, streamVars, ownerVars, socketVars, installVars
<1>12. ASSUME NEW s \in Socks, Finish(s)
      PROVE  UNCHANGED <<uplink, spc, auth>>
  BY <1>12 DEF Finish, InFrameLoop, Authorized, streamVars, ownerVars, windowVars,
     installVars
<1>13. ASSUME NEW s \in Socks, AskCancel(s)
      PROVE  UNCHANGED <<uplink, spc, auth>>
  BY <1>13 DEF AskCancel, InFrameLoop, Authorized, streamVars, ownerVars, windowVars,
     socketVars, installVars
<1>14. ASSUME NEW t \in Threads, CancelInstaller(t)
      PROVE  UNCHANGED <<uplink, spc, auth>>
  BY <1>14 DEF CancelInstaller, AbortFirst, Otherwise, Released, streamVars,
     windowVars, socketVars
<1>15. ASSUME NEW t \in Threads, CancelAborts(t)
      PROVE  UNCHANGED <<uplink, spc, auth>>
  BY <1>15 DEF CancelAborts, Abort, ownerVars, windowVars, socketVars, installVars
<1>16. ASSUME NEW t \in Threads, CancelStops(t)
      PROVE  UNCHANGED <<uplink, spc, auth>>
  BY <1>16 DEF CancelStops, streamVars, ownerVars, windowVars, socketVars, installVars
<1>17. ASSUME NEW t \in Threads, Drop(t)
      PROVE  UNCHANGED <<uplink, spc, auth>>
  BY <1>17 DEF Drop, Abort, ownerVars, windowVars, socketVars, installVars
<1>18. ASSUME NEW t \in Threads, CancelDestroys(t)
      PROVE  UNCHANGED <<uplink, spc, auth>>
  BY <1>18 DEF CancelDestroys, Destroy, Released, windowVars, socketVars, installVars
<1>19. ASSUME HeaderArrives
      PROVE  UNCHANGED <<uplink, spc, auth>>
  BY <1>19 DEF HeaderArrives, streamVars, ownerVars, socketVars, installVars
<1>20. ASSUME InstallLive
      PROVE  UNCHANGED <<uplink, spc, auth>>
  BY <1>20 DEF InstallLive, streamVars, ownerVars, socketVars
<1>21. ASSUME InstallRefused
      PROVE  UNCHANGED <<uplink, spc, auth>>
  BY <1>21 DEF InstallRefused, streamVars, ownerVars, socketVars, installVars
<1>22. ASSUME Attach
      PROVE  UNCHANGED <<uplink, spc, auth>>
  BY <1>22 DEF Attach, ownerVars, windowVars, socketVars, installVars
<1>23. ASSUME Detach
      PROVE  UNCHANGED <<uplink, spc, auth>>
  BY <1>23 DEF Detach, ownerVars, windowVars, socketVars, installVars
<1>24. ASSUME WorkerEnds
      PROVE  UNCHANGED <<uplink, spc, auth>>
  BY <1>24 DEF WorkerEnds, streamVars, ownerVars, windowVars, socketVars
<1>25. ASSUME WorkerAborts
      PROVE  UNCHANGED <<uplink, spc, auth>>
  BY <1>25 DEF WorkerAborts, Abort, ownerVars, windowVars, socketVars
<1>26. ASSUME WorkerDestroys
      PROVE  UNCHANGED <<uplink, spc, auth>>
  BY <1>26 DEF WorkerDestroys, Destroy, ownerVars, windowVars, socketVars
<1>27. ASSUME NEW kind \in Kinds, InstallOther(kind)
      PROVE  UNCHANGED <<uplink, spc, auth>>
  BY <1>27 DEF InstallOther, streamVars, ownerVars, windowVars, socketVars
<1>28. ASSUME UNCHANGED vars
      PROVE  UNCHANGED <<uplink, spc, auth>>
  BY <1>28 DEF vars, streamVars, ownerVars, windowVars, socketVars, installVars
<1>29. ASSUME NEW s \in Socks, CheckSession(s)
      PROVE  UNCHANGED <<uplink, spc, auth>>
  BY <1>29 DEF CheckSession, streamVars, ownerVars, windowVars, socketVars, installVars
<1>30. QED
  BY <1>29, <1>1, <1>2, <1>3, <1>4, <1>5, <1>6, <1>7, <1>8, <1>9, <1>10, <1>11, <1>12,
      <1>13, <1>14, <1>15, <1>16, <1>17, <1>18, <1>19, <1>20, <1>21, <1>22, <1>23,
      <1>24, <1>25, <1>26, <1>27, <1>28
  DEF Next, WindowStep, SocketStep, CancelStep, InstallerStep

\* Nothing takes the uplink from the uploader but a cancel about to abort.
LEMMA SeekStep ==
  ASSUME IInv, [Next]_vars
  PROVE  UploaderHearsSeeks'
<1>1. ASSUME NEW w \in Windows, HttpInit(w)
      PROVE  UploaderHearsSeeks'
  BY <1>1
  DEF IInv, TypeOK, KnownIds, UploaderHearsSeeks, Authorized, HttpInit,
      socketVars, installVars
<1>2. ASSUME NEW w \in Windows, HttpCancel(w)
      PROVE  UploaderHearsSeeks'
  BY <1>2
  DEF IInv, TypeOK, UploaderHearsSeeks, Authorized, HttpCancel, Matches,
      streamVars, socketVars, installVars
<1>3. ASSUME NEW s \in Socks, TakeUplink(s)
      PROVE  UploaderHearsSeeks'
  BY <1>3, NobodyAssumption
  DEF IInv, TypeOK, UploaderHearsSeeks, Authorized, TakeUplink, MayUplink,
     streamVars, windowVars, installVars
<1>4. ASSUME NEW s \in Socks, CheckSegment(s)
      PROVE  UploaderHearsSeeks'
  BY <1>4
  DEF IInv, TypeOK, UploaderHearsSeeks, Authorized, CheckSegment, InFrameLoop,
      Authorized, streamVars, ownerVars, windowVars, installVars
<1>5. ASSUME NEW s \in Socks, StoreSegment(s)
      PROVE  UploaderHearsSeeks'
  BY <1>5
  DEF IInv, TypeOK, UploaderHearsSeeks, Authorized, StoreSegment, ownerVars,
      windowVars, installVars
<1>6. ASSUME NEW s \in Socks, AskCancel(s)
      PROVE  UploaderHearsSeeks'
  BY <1>6
  DEF IInv, TypeOK, UploaderHearsSeeks, Authorized, AskCancel, InFrameLoop,
      Authorized, streamVars, ownerVars, windowVars, socketVars, installVars
<1>7. ASSUME NEW s \in Socks, Disconnect(s)
      PROVE  UploaderHearsSeeks'
  BY <1>7
  DEF IInv, TypeOK, UploaderHearsSeeks, Authorized, InLoop, Disconnect,
      InFrameLoop, Unlinked, Closed, streamVars, windowVars, installVars
<1>8. ASSUME NEW s \in Socks, Close(s)
      PROVE  UploaderHearsSeeks'
  BY <1>8
  DEF IInv, TypeOK, UploaderHearsSeeks, Authorized, Close, Closed, streamVars,
      ownerVars, windowVars, installVars
<1>9. ASSUME NEW s \in Socks, NEW w \in Windows, InitMatches(s, w)
      PROVE  UploaderHearsSeeks'
  BY <1>9
  DEF IInv, TypeOK, UploaderHearsSeeks, Authorized, InitMatches, Matches,
      streamVars, ownerVars, windowVars, installVars
<1>10. ASSUME NEW t \in Threads, CancelInstaller(t)
      PROVE  UploaderHearsSeeks'
  BY <1>10
  DEF IInv, TypeOK, UploaderHearsSeeks, Authorized, CancelInstaller, AbortFirst,
      Otherwise, Released, streamVars, windowVars, socketVars
<1>11. ASSUME NEW t \in Threads, CancelAborts(t)
      PROVE  UploaderHearsSeeks'
  BY <1>11
  DEF IInv, TypeOK, UploaderHearsSeeks, Authorized, CancelAborts, Abort,
      ownerVars, windowVars, socketVars, installVars
<1>12. ASSUME NEW t \in Threads, CancelStops(t)
      PROVE  UploaderHearsSeeks'
  BY <1>12
  DEF IInv, TypeOK, UploaderHearsSeeks, Authorized, CancelStops, streamVars,
      ownerVars, windowVars, socketVars, installVars
<1>13. ASSUME NEW t \in Threads, Unlink(t)
      PROVE  UploaderHearsSeeks'
  BY <1>13
  DEF IInv, TypeOK, UploaderHearsSeeks, Authorized, Unlink, streamVars,
      windowVars, socketVars, installVars
<1>14. ASSUME NEW t \in Threads, Drop(t)
      PROVE  UploaderHearsSeeks'
  <2>1. aborted' \/ session' = None
    BY <1>14
    DEF Drop, Abort
  <2>2. QED
    BY <1>14, <2>1
    DEF IInv, UploaderHearsSeeks, Authorized, Drop
<1>15. ASSUME NEW t \in Threads, CancelDestroys(t)
      PROVE  UploaderHearsSeeks'
  BY <1>15
  DEF IInv, TypeOK, UploaderHearsSeeks, Authorized, CancelDestroys, Destroy,
      Released, windowVars, socketVars, installVars
<1>16. ASSUME WorkerAborts
      PROVE  UploaderHearsSeeks'
  BY <1>16
  DEF IInv, TypeOK, UploaderHearsSeeks, Authorized, WorkerAborts, Abort,
      ownerVars, windowVars, socketVars
<1>17. ASSUME WorkerDestroys
      PROVE  UploaderHearsSeeks'
  BY <1>17
  DEF IInv, TypeOK, UploaderHearsSeeks, Authorized, WorkerDestroys, Destroy,
      ownerVars, windowVars, socketVars
<1>18. CASE UNCHANGED <<session, aborted, uplink, spc, auth, cpc>>
  BY <1>18
  DEF IInv, TypeOK, KnownIds, LetIn, UploaderHearsSeeks, Authorized, InLoop,
      Threads, Sessions, None
<1>19. ASSUME NEW w \in Windows, AskInstall(w)
      PROVE  UNCHANGED <<session, aborted, uplink, spc, auth, cpc>>
  BY <1>19 DEF AskInstall, streamVars, ownerVars, socketVars, installVars
<1>20. ASSUME NEW s \in Socks, Finish(s)
      PROVE  UNCHANGED <<session, aborted, uplink, spc, auth, cpc>>
  BY <1>20 DEF Finish, InFrameLoop, Authorized, streamVars, ownerVars, windowVars,
     installVars
<1>21. ASSUME HeaderArrives
      PROVE  UNCHANGED <<session, aborted, uplink, spc, auth, cpc>>
  BY <1>21 DEF HeaderArrives, streamVars, ownerVars, socketVars, installVars
<1>22. ASSUME InstallLive
      PROVE  UNCHANGED <<session, aborted, uplink, spc, auth, cpc>>
  BY <1>22 DEF InstallLive, streamVars, ownerVars, socketVars
<1>23. ASSUME InstallRefused
      PROVE  UNCHANGED <<session, aborted, uplink, spc, auth, cpc>>
  BY <1>23 DEF InstallRefused, streamVars, ownerVars, socketVars, installVars
<1>24. ASSUME Attach
      PROVE  UNCHANGED <<session, aborted, uplink, spc, auth, cpc>>
  BY <1>24 DEF Attach, ownerVars, windowVars, socketVars, installVars
<1>25. ASSUME Detach
      PROVE  UNCHANGED <<session, aborted, uplink, spc, auth, cpc>>
  BY <1>25 DEF Detach, ownerVars, windowVars, socketVars, installVars
<1>26. ASSUME WorkerEnds
      PROVE  UNCHANGED <<session, aborted, uplink, spc, auth, cpc>>
  BY <1>26 DEF WorkerEnds, streamVars, ownerVars, windowVars, socketVars
<1>27. ASSUME NEW kind \in Kinds, InstallOther(kind)
      PROVE  UNCHANGED <<session, aborted, uplink, spc, auth, cpc>>
  BY <1>27 DEF InstallOther, streamVars, ownerVars, windowVars, socketVars
<1>28. ASSUME UNCHANGED vars
      PROVE  UNCHANGED <<session, aborted, uplink, spc, auth, cpc>>
  BY <1>28 DEF vars, streamVars, ownerVars, windowVars, socketVars, installVars
<1>29. ASSUME NEW s \in Socks, CheckSession(s)
      PROVE  UploaderHearsSeeks'
  BY <1>29
  DEF IInv, TypeOK, UploaderHearsSeeks, Authorized, CheckSession,
      streamVars, ownerVars, windowVars, socketVars, installVars
<1>30. QED
  BY <1>29, <1>1, <1>2, <1>3, <1>4, <1>5, <1>6, <1>7, <1>8, <1>9, <1>10, <1>11, <1>12,
      <1>13, <1>14, <1>15, <1>16, <1>17, <1>18, <1>19, <1>20, <1>21, <1>22, <1>23,
      <1>24, <1>25, <1>26, <1>27, <1>28
  DEF Next, WindowStep, SocketStep, CancelStep, InstallerStep

\* A socket that ended is not done before its session is.
LEMMA EndStep ==
  ASSUME IInv, [Next]_vars
  PROVE  DisconnectEnds'
<1>1. ASSUME NEW w \in Windows, HttpInit(w)
      PROVE  DisconnectEnds'
  BY <1>1
  DEF IInv, TypeOK, KnownIds, DisconnectEnds, HttpInit, socketVars, installVars
<1>2. ASSUME NEW w \in Windows, HttpCancel(w)
      PROVE  DisconnectEnds'
  BY <1>2
  DEF IInv, TypeOK, DisconnectEnds, Threads, HttpCancel, Matches, streamVars,
      socketVars, installVars
<1>3. ASSUME NEW s \in Socks, TakeUplink(s)
      PROVE  DisconnectEnds'
  BY <1>3
  DEF IInv, TypeOK, DisconnectEnds, TakeUplink, MayUplink, streamVars,
      windowVars, installVars
<1>4. ASSUME NEW s \in Socks, CheckSegment(s)
      PROVE  DisconnectEnds'
  BY <1>4
  DEF IInv, TypeOK, DisconnectEnds, CheckSegment, InFrameLoop, Authorized,
      streamVars, ownerVars, windowVars, installVars
<1>5. ASSUME NEW s \in Socks, StoreSegment(s)
      PROVE  DisconnectEnds'
  BY <1>5
  DEF IInv, TypeOK, DisconnectEnds, StoreSegment, ownerVars, windowVars,
      installVars
<1>6. ASSUME NEW s \in Socks, AskCancel(s)
      PROVE  DisconnectEnds'
  BY <1>6
  DEF IInv, TypeOK, DisconnectEnds, AskCancel, InFrameLoop, Authorized,
      streamVars, ownerVars, windowVars, socketVars, installVars
<1>7. ASSUME NEW s \in Socks, Disconnect(s)
      PROVE  DisconnectEnds'
  BY <1>7
  DEF IInv, TypeOK, DisconnectEnds, Threads, Disconnect, InFrameLoop, Unlinked,
      Closed, streamVars, windowVars, installVars
<1>8. ASSUME NEW s \in Socks, Close(s)
      PROVE  DisconnectEnds'
  BY <1>8
  DEF IInv, TypeOK, DisconnectEnds, Close, Closed, streamVars, ownerVars,
      windowVars, installVars
<1>9. ASSUME NEW s \in Socks, NEW w \in Windows, InitMatches(s, w)
      PROVE  DisconnectEnds'
  BY <1>9
  DEF IInv, TypeOK, DisconnectEnds, InitMatches, Matches, streamVars, ownerVars,
      windowVars, installVars
<1>10. ASSUME NEW t \in Threads, CancelInstaller(t)
      PROVE  DisconnectEnds'
  BY <1>10
  DEF IInv, TypeOK, LetIn, DisconnectEnds, CancelInstaller, AbortFirst,
      Otherwise, Released, streamVars, windowVars, socketVars
<1>11. ASSUME NEW t \in Threads, CancelAborts(t)
      PROVE  DisconnectEnds'
  BY <1>11
  DEF IInv, TypeOK, DisconnectEnds, CancelAborts, Abort, ownerVars, windowVars,
      socketVars, installVars
<1>12. ASSUME NEW t \in Threads, CancelStops(t)
      PROVE  DisconnectEnds'
  BY <1>12
  DEF IInv, TypeOK, DisconnectEnds, CancelStops, streamVars, ownerVars,
      windowVars, socketVars, installVars
<1>13. ASSUME NEW t \in Threads, Unlink(t)
      PROVE  DisconnectEnds'
  BY <1>13
  DEF IInv, TypeOK, DisconnectEnds, Unlink, streamVars, windowVars, socketVars,
      installVars
<1>14. ASSUME NEW t \in Threads, Drop(t)
      PROVE  DisconnectEnds'
  BY <1>14
  DEF IInv, TypeOK, DisconnectEnds, Drop, Abort, ownerVars, windowVars,
      socketVars, installVars
<1>15. ASSUME NEW t \in Threads, CancelDestroys(t)
      PROVE  DisconnectEnds'
  BY <1>15
  DEF IInv, TypeOK, LetIn, DisconnectEnds, CancelDestroys, Destroy, Released,
      windowVars, socketVars, installVars
<1>16. ASSUME WorkerDestroys
      PROVE  DisconnectEnds'
  BY <1>16
  DEF IInv, TypeOK, LetIn, DisconnectEnds, WorkerDestroys, Destroy, ownerVars,
      windowVars, socketVars
<1>17. CASE UNCHANGED <<session, spc, auth, cpc>>
  BY <1>17
  DEF IInv, TypeOK, KnownIds, LetIn, DisconnectEnds, InLoop, Threads, Sessions,
      None
<1>18. ASSUME NEW w \in Windows, AskInstall(w)
      PROVE  UNCHANGED <<session, spc, auth, cpc>>
  BY <1>18 DEF AskInstall, streamVars, ownerVars, socketVars, installVars
<1>19. ASSUME NEW s \in Socks, Finish(s)
      PROVE  UNCHANGED <<session, spc, auth, cpc>>
  BY <1>19 DEF Finish, InFrameLoop, Authorized, streamVars, ownerVars, windowVars,
     installVars
<1>20. ASSUME HeaderArrives
      PROVE  UNCHANGED <<session, spc, auth, cpc>>
  BY <1>20 DEF HeaderArrives, streamVars, ownerVars, socketVars, installVars
<1>21. ASSUME InstallLive
      PROVE  UNCHANGED <<session, spc, auth, cpc>>
  BY <1>21 DEF InstallLive, streamVars, ownerVars, socketVars
<1>22. ASSUME InstallRefused
      PROVE  UNCHANGED <<session, spc, auth, cpc>>
  BY <1>22 DEF InstallRefused, streamVars, ownerVars, socketVars, installVars
<1>23. ASSUME Attach
      PROVE  UNCHANGED <<session, spc, auth, cpc>>
  BY <1>23 DEF Attach, ownerVars, windowVars, socketVars, installVars
<1>24. ASSUME Detach
      PROVE  UNCHANGED <<session, spc, auth, cpc>>
  BY <1>24 DEF Detach, ownerVars, windowVars, socketVars, installVars
<1>25. ASSUME WorkerEnds
      PROVE  UNCHANGED <<session, spc, auth, cpc>>
  BY <1>25 DEF WorkerEnds, streamVars, ownerVars, windowVars, socketVars
<1>26. ASSUME WorkerAborts
      PROVE  UNCHANGED <<session, spc, auth, cpc>>
  BY <1>26 DEF WorkerAborts, Abort, ownerVars, windowVars, socketVars
<1>27. ASSUME NEW kind \in Kinds, InstallOther(kind)
      PROVE  UNCHANGED <<session, spc, auth, cpc>>
  BY <1>27 DEF InstallOther, streamVars, ownerVars, windowVars, socketVars
<1>28. ASSUME UNCHANGED vars
      PROVE  UNCHANGED <<session, spc, auth, cpc>>
  BY <1>28 DEF vars, streamVars, ownerVars, windowVars, socketVars, installVars
<1>29. ASSUME NEW s \in Socks, CheckSession(s)
      PROVE  DisconnectEnds'
  BY <1>29
  DEF IInv, TypeOK, DisconnectEnds, LetIn, CheckSession,
      streamVars, ownerVars, windowVars, socketVars, installVars
<1>30. QED
  BY <1>29, <1>1, <1>2, <1>3, <1>4, <1>5, <1>6, <1>7, <1>8, <1>9, <1>10, <1>11, <1>12,
      <1>13, <1>14, <1>15, <1>16, <1>17, <1>18, <1>19, <1>20, <1>21, <1>22, <1>23,
      <1>24, <1>25, <1>26, <1>27, <1>28
  DEF Next, WindowStep, SocketStep, CancelStep, InstallerStep

\* A window's cancel keeps the lock, and with it every other session away.
LEMMA LockStep ==
  ASSUME IInv, [Next]_vars
  PROVE  OwnerHolds' /\ StopAborted'
<1>1. ASSUME NEW w \in Windows, HttpInit(w)
      PROVE  OwnerHolds' /\ StopAborted'
  BY <1>1, NobodyAssumption
  DEF IInv, TypeOK, OwnerHolds, StopAborted, Threads, HttpInit, socketVars,
      installVars
<1>2. ASSUME NEW w \in Windows, HttpCancel(w)
      PROVE  OwnerHolds' /\ StopAborted'
  BY <1>2, NobodyAssumption
  DEF IInv, TypeOK, OwnerHolds, StopAborted, Threads, HttpCancel, Matches,
      streamVars, socketVars, installVars
<1>3. ASSUME NEW s \in Socks, AskCancel(s)
      PROVE  OwnerHolds' /\ StopAborted'
  BY <1>3
  DEF IInv, TypeOK, OwnerHolds, StopAborted, AskCancel, InFrameLoop, Authorized,
      streamVars, ownerVars, windowVars, socketVars, installVars
<1>4. ASSUME NEW s \in Socks, Disconnect(s)
      PROVE  OwnerHolds' /\ StopAborted'
  BY <1>4, ThreadsAssumption
  DEF IInv, TypeOK, OwnerHolds, StopAborted, Threads, Disconnect, InFrameLoop,
      Unlinked, Closed, streamVars, windowVars, installVars
<1>5. ASSUME NEW t \in Threads, CancelInstaller(t)
      PROVE  OwnerHolds' /\ StopAborted'
  BY <1>5
  DEF IInv, TypeOK, OwnerHolds, StopAborted, CancelInstaller, AbortFirst,
      Otherwise, Released, streamVars, windowVars, socketVars
<1>6. ASSUME NEW t \in Threads, CancelAborts(t)
      PROVE  OwnerHolds' /\ StopAborted'
  <2>1. aborted' \/ session' = None
    BY <1>6
    DEF CancelAborts, Abort
  <2>2. OwnerHolds'
    BY <1>6
    DEF IInv, TypeOK, OwnerHolds, CancelAborts, ownerVars
  <2>3. StopAborted'
    BY <1>6, <2>1
    DEF StopAborted
  <2>4. QED
    BY <1>6, <2>1, <2>2, <2>3, Zenon
    DEF IInv
<1>7. ASSUME NEW t \in Threads, CancelStops(t)
      PROVE  OwnerHolds' /\ StopAborted'
  BY <1>7
  DEF IInv, TypeOK, OwnerHolds, StopAborted, CancelStops, streamVars, ownerVars,
      windowVars, socketVars, installVars
<1>8. ASSUME NEW t \in Threads, Unlink(t)
      PROVE  OwnerHolds' /\ StopAborted'
  BY <1>8
  DEF IInv, TypeOK, OwnerHolds, StopAborted, Unlink, streamVars, windowVars,
      socketVars, installVars
<1>9. ASSUME NEW t \in Threads, Drop(t)
      PROVE  OwnerHolds' /\ StopAborted'
  BY <1>9
  DEF IInv, TypeOK, OwnerHolds, StopAborted, Drop, Abort, ownerVars, windowVars,
      socketVars, installVars
<1>10. ASSUME NEW t \in Threads, CancelDestroys(t)
      PROVE  OwnerHolds' /\ StopAborted'
  BY <1>10
  DEF IInv, TypeOK, OwnerHolds, StopAborted, CancelDestroys, Destroy, Released,
      windowVars, socketVars, installVars
<1>11. ASSUME WorkerAborts
      PROVE  OwnerHolds' /\ StopAborted'
  BY <1>11
  DEF IInv, TypeOK, OwnerHolds, StopAborted, WorkerAborts, Abort, ownerVars,
      windowVars, socketVars
<1>12. ASSUME WorkerDestroys
      PROVE  OwnerHolds' /\ StopAborted'
  BY <1>12
  DEF IInv, TypeOK, OwnerHolds, StopAborted, WorkerDestroys, Destroy, ownerVars,
      windowVars, socketVars
<1>13. CASE UNCHANGED <<session, aborted, ownerMu, cpc>>
  BY <1>13
  DEF IInv, TypeOK, OwnerHolds, StopAborted, Threads, Cancels, Sessions, None
<1>14. ASSUME NEW w \in Windows, AskInstall(w)
      PROVE  UNCHANGED <<session, aborted, ownerMu, cpc>>
  BY <1>14 DEF AskInstall, streamVars, ownerVars, socketVars, installVars
<1>15. ASSUME NEW s \in Socks, TakeUplink(s)
      PROVE  UNCHANGED <<session, aborted, ownerMu, cpc>>
  BY <1>15 DEF TakeUplink, MayUplink, streamVars, windowVars, installVars
<1>16. ASSUME NEW s \in Socks, CheckSegment(s)
      PROVE  UNCHANGED <<session, aborted, ownerMu, cpc>>
  BY <1>16 DEF CheckSegment, InFrameLoop, Authorized, streamVars, ownerVars,
     windowVars, installVars
<1>17. ASSUME NEW s \in Socks, StoreSegment(s)
      PROVE  UNCHANGED <<session, aborted, ownerMu, cpc>>
  BY <1>17 DEF StoreSegment, ownerVars, windowVars, installVars
<1>18. ASSUME NEW s \in Socks, Finish(s)
      PROVE  UNCHANGED <<session, aborted, ownerMu, cpc>>
  BY <1>18 DEF Finish, InFrameLoop, Authorized, streamVars, ownerVars, windowVars,
     installVars
<1>19. ASSUME NEW s \in Socks, Close(s)
      PROVE  UNCHANGED <<session, aborted, ownerMu, cpc>>
  BY <1>19 DEF Close, Closed, streamVars, ownerVars, windowVars, installVars
<1>20. ASSUME NEW s \in Socks, NEW w \in Windows, InitMatches(s, w)
      PROVE  UNCHANGED <<session, aborted, ownerMu, cpc>>
  BY <1>20 DEF InitMatches, Matches, streamVars, ownerVars, windowVars, installVars
<1>21. ASSUME HeaderArrives
      PROVE  UNCHANGED <<session, aborted, ownerMu, cpc>>
  BY <1>21 DEF HeaderArrives, streamVars, ownerVars, socketVars, installVars
<1>22. ASSUME InstallLive
      PROVE  UNCHANGED <<session, aborted, ownerMu, cpc>>
  BY <1>22 DEF InstallLive, streamVars, ownerVars, socketVars
<1>23. ASSUME InstallRefused
      PROVE  UNCHANGED <<session, aborted, ownerMu, cpc>>
  BY <1>23 DEF InstallRefused, streamVars, ownerVars, socketVars, installVars
<1>24. ASSUME Attach
      PROVE  UNCHANGED <<session, aborted, ownerMu, cpc>>
  BY <1>24 DEF Attach, ownerVars, windowVars, socketVars, installVars
<1>25. ASSUME Detach
      PROVE  UNCHANGED <<session, aborted, ownerMu, cpc>>
  BY <1>25 DEF Detach, ownerVars, windowVars, socketVars, installVars
<1>26. ASSUME WorkerEnds
      PROVE  UNCHANGED <<session, aborted, ownerMu, cpc>>
  BY <1>26 DEF WorkerEnds, streamVars, ownerVars, windowVars, socketVars
<1>27. ASSUME NEW kind \in Kinds, InstallOther(kind)
      PROVE  UNCHANGED <<session, aborted, ownerMu, cpc>>
  BY <1>27 DEF InstallOther, streamVars, ownerVars, windowVars, socketVars
<1>28. ASSUME UNCHANGED vars
      PROVE  UNCHANGED <<session, aborted, ownerMu, cpc>>
  BY <1>28 DEF vars, streamVars, ownerVars, windowVars, socketVars, installVars
<1>29. ASSUME NEW s \in Socks, CheckSession(s)
      PROVE  OwnerHolds' /\ StopAborted'
  BY <1>29
  DEF IInv, TypeOK, OwnerHolds, StopAborted, CheckSession,
      streamVars, ownerVars, windowVars, socketVars, installVars
<1>30. QED
  BY <1>29, <1>1, <1>2, <1>3, <1>4, <1>5, <1>6, <1>7, <1>8, <1>9, <1>10, <1>11, <1>12,
      <1>13, <1>14, <1>15, <1>16, <1>17, <1>18, <1>19, <1>20, <1>21, <1>22, <1>23,
      <1>24, <1>25, <1>26, <1>27, <1>28
  DEF Next, WindowStep, SocketStep, CancelStep, InstallerStep

-----------------------------------------------------------------------------
\* The strengthening holds in every reachable state (ws_upload.c, installer.c).
THEOREM OwnershipInductive == Spec => []IInv
<1>1. Init => IInv
  <2>. SUFFICES ASSUME Init
                PROVE  IInv
    OBVIOUS
  <2>1. aborted \in BOOLEAN /\ header \in BOOLEAN /\ headed \in BOOLEAN
    BY DEF Init
  <2>2. fin \in [Socks -> BOOLEAN]
    BY Zenon DEF Init
  <2>3. TypeOK
    BY <2>1, <2>2, MaxSessionsAssumption
    DEF Init, TypeOK, Cancels
  <2>4. KnownIds /\ LetIn /\ UplinkIsOpen
    BY DEF Init, KnownIds, LetIn, UplinkIsOpen, None
  <2>5. UploaderHearsSeeks /\ DisconnectEnds
    BY DEF Init, UploaderHearsSeeks, Authorized, InLoop, DisconnectEnds
  <2>6. OwnerHolds /\ StopAborted
    BY DEF Init, OwnerHolds, StopAborted, Threads
  <2>7. QED
    BY <2>3, <2>4, <2>5, <2>6 DEF IInv
<1>2. IInv /\ [Next]_vars => IInv'
  BY TypeStep, IdStep, LinkStep, SeekStep, EndStep, LockStep DEF IInv
<1>3. QED
  BY <1>1, <1>2, PTL DEF Spec

\* Every variable keeps its type (ws_upload.c, ws_stream.c, installer.c).
THEOREM OwnershipTypes == Spec => []TypeOK
<1>1. IInv => TypeOK
  BY DEF IInv
<1>2. QED
  BY <1>1, OwnershipInductive, PTL

\* A seek never goes to a descriptor whose socket is closed or was never let in
\* (uplink_seek, conn_done).
THEOREM SeeksGoToUploader == Spec => []UplinkIsOpen
<1>1. IInv => UplinkIsOpen
  BY DEF IInv
<1>2. QED
  BY <1>1, OwnershipInductive, PTL

\* The uploader of the active session keeps the uplink until somebody is about to
\* abort that session ("a second connection cannot take over seeks").
THEOREM UploaderKeepsUplink == Spec => []UploaderHearsSeeks
<1>1. IInv => UploaderHearsSeeks
  BY DEF IInv
<1>2. QED
  BY <1>1, OwnershipInductive, PTL

\* When the worker of a socket that ended too early is done, the session it
\* uploaded is not active (conn_done).
THEOREM BrokenUploadEnds == Spec => []DisconnectEnds
<1>1. IInv => DisconnectEnds
  BY DEF IInv
<1>2. QED
  BY <1>1, OwnershipInductive, PTL

\* The readers a window's cancel waits for under g_owner_mu have been woken
\* (ws_direct_cancel_owned, installer_cancel).
THEOREM OwnerWaitsForWoken == Spec => []OwnerCancelReturns
<1>1. IInv => OwnerCancelReturns
  BY DEF IInv, StopAborted, OwnerCancelReturns, Woken, TypeOK, None
<1>2. QED
  BY <1>1, OwnershipInductive, PTL

-----------------------------------------------------------------------------
(* The session as this module takes it.                                    *)

\* The active session is the last that was created: ids are not used again.
Latest == session # None => session = created

\* What can happen to the session and to its reader.
Shared ==
  \/ \E w \in Windows : HttpInit(w)
  \/ Attach \/ Detach
  \/ \E s \in Socks : StoreSegment(s)
  \/ Abort /\ UNCHANGED <<session, created, header, reading>>
  \/ Destroy /\ UNCHANGED <<created, reading>>
  \/ UNCHANGED streamVars

LEMMA SharedSteps == [Next]_vars => Shared
<1> SUFFICES ASSUME [Next]_vars PROVE Shared
  OBVIOUS
<1>1. ASSUME NEW w \in Windows, WindowStep(w) PROVE Shared
  BY <1>1 DEF WindowStep, HttpCancel, AskInstall, Shared
<1>2. ASSUME NEW s \in Socks, SocketStep(s) PROVE Shared
  BY <1>2 DEF SocketStep, TakeUplink, CheckSegment, Finish, AskCancel,
     Disconnect, CheckSession, Close, InitMatches, Shared
<1>3. ASSUME NEW t \in Threads, CancelStep(t) PROVE Shared
  BY <1>3 DEF CancelStep, CancelInstaller, CancelAborts, CancelStops, Unlink,
     Drop, CancelDestroys, Shared
<1>4. ASSUME InstallerStep PROVE Shared
  BY <1>4 DEF InstallerStep, HeaderArrives, InstallLive, InstallRefused,
     WorkerEnds, WorkerAborts, WorkerDestroys, InstallOther, Shared
<1>5. CASE UNCHANGED vars
  BY <1>5 DEF vars, Shared
<1>6. QED
  BY <1>1, <1>2, <1>3, <1>4, <1>5 DEF Next

LEMMA LatestStep ==
  ASSUME Latest, [Next]_vars
  PROVE  Latest'
  BY SharedSteps DEF Shared, HttpInit, Attach, Detach, StoreSegment, Abort,
     Destroy, streamVars, Latest

\* ws_live_create gives a new id, and the id of the active session is the last
\* one given: a reader that attaches opens the session that runs.
THEOREM ActiveIsLatest == Spec => []Latest
<1>1. Init => Latest
  BY DEF Init, Latest
<1>2. QED
  BY <1>1, LatestStep, PTL DEF Spec

\* The feed's view of the session and of its reader.
Phase == IF session = None THEN "none" ELSE IF aborted THEN "aborted" ELSE "live"
Landed == IF session # None /\ header THEN {0} ELSE {}
Source == [r \in {Nobody} |-> reading]

LEMMA FeedStutter ==
  ASSUME UNCHANGED <<created, reading>>, Phase' = Phase, Landed' = Landed
  PROVE  UNCHANGED Feed!feedVars
  BY DEF Feed!feedVars, Phase, Landed

LEMMA FeedNext ==
  ASSUME TypeOK, Latest, [Next]_vars
  PROVE  [Feed!Next]_(Feed!feedVars)
<1>1. aborted \in BOOLEAN /\ header \in BOOLEAN
  BY Zenon DEF TypeOK
<1>2. ASSUME NEW w \in Windows, HttpInit(w) PROVE Feed!Next
  <2>1. session = None /\ reading = None /\ created' = created + 1 /\ session' = created + 1
        /\ aborted' = FALSE /\ header' = FALSE /\ reading' = reading
    BY <1>2 DEF HttpInit, ReadersGone
  <2>2. created + 1 # None
    BY DEF TypeOK, None
  <2>3. Feed!Begin
    BY <2>1, <2>2 DEF Feed!Begin, None
  <2>4. QED
    BY <2>3 DEF Feed!Next
<1>3. CASE Attach
  <2>1. Source[Nobody] = 0 /\ session # None /\ session = created
        /\ Source' = [Source EXCEPT ![Nobody] = created]
    BY <1>3 DEF Attach, Source, Sessions, None, Latest
  <2>2. Feed!Open(Nobody)
    BY <1>3, <2>1 DEF Attach, Source, Feed!Open
  <2>3. QED
    BY <2>2 DEF Feed!Next
<1>4. CASE Detach
  <2>1. Source[Nobody] # 0 /\ Source' = [Source EXCEPT ![Nobody] = 0]
    BY <1>4 DEF Detach, Source, None
  <2>2. [r \in {Nobody} |-> None] = [[r \in {Nobody} |-> None] EXCEPT ![Nobody] = None]
    OBVIOUS
  <2>3. Feed!CloseReader(Nobody)
    BY <1>4, <2>1, <2>2 DEF Detach, Source, Feed!CloseReader
  <2>4. QED
    BY <2>3 DEF Feed!Next
<1>5. ASSUME NEW s \in Socks, StoreSegment(s) PROVE [Feed!Next]_(Feed!feedVars)
  <2>1. CASE session # None /\ ~aborted
    <3>1. Phase = "live" /\ Phase' = "live" /\ Landed' = Landed \cup {0}
      BY <1>1, <1>5, <2>1 DEF StoreSegment, Phase, Landed
    <3>2. Feed!Land(0)
      BY <1>5, <3>1 DEF StoreSegment, Phase, Landed, Feed!Land
    <3>3. QED
      BY <3>2 DEF Feed!Next
  <2>2. CASE ~(session # None /\ ~aborted)
    <3>1. header' = header
      BY <1>1, <1>5, <2>2, Zenon DEF StoreSegment
    <3>2. QED
      BY <1>5, <3>1, FeedStutter DEF StoreSegment, Phase, Landed
  <2>3. QED
    BY <2>1, <2>2
<1>6. ASSUME Abort, UNCHANGED <<session, created, header, reading>>
      PROVE  [Feed!Next]_(Feed!feedVars)
  <2>1. CASE Phase = "live"
    <3>1. Phase' = "aborted" /\ Landed' = Landed
      BY <1>6, <2>1 DEF Abort, Phase, Landed
    <3>2. Feed!AbortFeed
      BY <1>6, <2>1, <3>1 DEF Phase, Landed, Feed!AbortFeed
    <3>3. QED
      BY <3>2 DEF Feed!Next
  <2>2. CASE Phase # "live"
    BY <1>6, <2>2, FeedStutter DEF Abort, Phase, Landed
  <2>3. QED
    BY <2>1, <2>2
<1>7. ASSUME Destroy, UNCHANGED <<created, reading>>
      PROVE  [Feed!Next]_(Feed!feedVars)
  <2>1. Phase' = "none" /\ Landed' = {}
    BY <1>7 DEF Destroy, Phase, Landed
  <2>2. CASE session # None
    <3>1. Feed!End
      BY <1>7, <2>1, <2>2 DEF Phase, Landed, Feed!End
    <3>2. QED
      BY <3>1 DEF Feed!Next
  <2>3. CASE session = None
    BY <1>7, <2>1, <2>3, FeedStutter DEF Phase, Landed
  <2>4. QED
    BY <2>2, <2>3
<1>8. ASSUME UNCHANGED streamVars PROVE UNCHANGED Feed!feedVars
  BY <1>8, FeedStutter DEF streamVars, Phase, Landed
<1>9. QED
  BY <1>2, <1>3, <1>4, <1>5, <1>6, <1>7, <1>8, SharedSteps DEF Shared

\* The session that windows create, sockets fill, installations read and all of
\* them cancel here is the feed that LiveStream implements: one at a time, begun
\* when the last one's reader is gone, filled and opened under one id.
THEOREM FeedAssumed == Spec => ImplementsFeed
<1>1. Init => Feed!Init
  BY DEF Init, Feed!Init, None
<1>2. TypeOK /\ Latest /\ [Next]_vars => [Feed!Next]_(Feed!feedVars)
  BY FeedNext
<1>3. QED
  BY <1>1, <1>2, OwnershipTypes, ActiveIsLatest, PTL DEF Spec, ImplementsFeed, Feed!Spec

-----------------------------------------------------------------------------
(* What the feed is proved to promise holds of the uploads. *)
Promise == INSTANCE SegmentFeedProofs WITH
  Readers <- {Nobody}, Segs <- {0}, NoOut <- None,
  gen <- created,
  phase <- IF session = None THEN "none" ELSE IF aborted THEN "aborted" ELSE "live",
  landed <- IF session # None /\ header THEN {0} ELSE {},
  complete <- FALSE,
  src <- [r \in {Nobody} |-> reading],
  out <- [r \in {Nobody} |-> None]

\* The feed of the proofs is the one above.
LEMMA PromiseIsFeed == Feed!Spec => Promise!Spec
<1>1. Feed!Init => Promise!Init
  BY DEF Feed!Init, Promise!Init
<1>2. [Feed!Next]_(Feed!feedVars) => [Promise!Next]_(Promise!feedVars)
  BY DEF Feed!Next, Feed!feedVars, Feed!Begin, Feed!MarkComplete, Feed!AbortFeed,
     Feed!End,
     Feed!Land, Feed!Open, Feed!Discard, Feed!CloseReader, Feed!Read, Promise!Next,
     Promise!feedVars, Promise!Begin, Promise!MarkComplete, Promise!AbortFeed, Promise!End,
     Promise!Land, Promise!Open, Promise!Discard, Promise!CloseReader, Promise!Read
<1>3. QED
  BY <1>1, <1>2, PTL DEF Feed!Spec, Promise!Spec

\* However windows cancel and open uploads, no session is created while an
\* installation reads one, and the installation reads that one to its end
\* (ws_live_create, refused while refs is not zero).
THEOREM NoSessionUnderInstallation ==
  Spec => [][reading # None => created' = created /\ reading' \in {reading, None}]_vars
<1> DEFINE Keeps == reading # None => created' = created /\ reading' \in {reading, None}
<1>1. Promise!Stays <=> Keeps
  BY DEF Promise!Stays, None
<1>2. [Keeps]_(Promise!feedVars) => [Keeps]_vars
  BY DEF Promise!feedVars, vars, streamVars
<1>3. Promise!Spec => Promise!ReadersStay
  BY Promise!NoSessionUnderReader
<1>4. QED
  BY <1>1, <1>2, <1>3, FeedAssumed, PromiseIsFeed, PTL
     DEF ImplementsFeed, Promise!ReadersStay
=============================================================================
