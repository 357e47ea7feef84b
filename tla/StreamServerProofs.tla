-------------------------- MODULE StreamServerProofs --------------------------
(***************************************************************************)
(* For every number of connections, cancelling threads and sessions: the   *)
(* server's bookkeeping is inductive, a stream is open while a connection  *)
(* reads it, none is leaked, a stop reaches every transfer in flight, and  *)
(* the server implements StreamLease.                                      *)
(***************************************************************************)
EXTENDS StreamServer, FiniteSetTheorems, TLAPS

\* The stop's last part, from whichever place it is reached.
Ends(t) ==
  /\ tpc[t] \in {"lock", "waiting"}
  /\ Drained
  /\ CloseSession(t)
  /\ signalled' \subseteq signalled

\* The stop finds transfers in flight and waits, or waits again.
Waits(t) ==
  /\ tpc[t] \in {"lock", "waiting"}
  /\ tpc' = [tpc EXCEPT ![t] = "waiting"]
  /\ signalled' \subseteq signalled
  /\ UNCHANGED <<ssVars, worldVars, join, lfd, kick, connVars>>

\* The steps of a connection that change neither a pin nor the table.
Walk(c) ==
  /\ cpc[c] # "body"
  /\ \E q \in CPCs \ {"body"} :
       /\ cpc' = [cpc EXCEPT ![c] = q]
       /\ cpc[c] \in {"free", "accepted"} => q \in {"free", "accepted"}
  /\ req' \in [Conns -> 0 .. MaxSessions]
  /\ UNCHANGED <<ssVars, worldVars, ctlVars, pin, kicked>>

\* The pins: of the probe and of a request body.
Pin(c) == cpc[c] \in {"probe", "acquire"} /\ Acquire(c)

\* What a step of the server can be.
Step ==
  \/ StartOpen
  \/ StartFail
  \/ StartPublish
  \/ SetSessionName
  \/ \E t \in Ctl : StopEnter(t)
  \/ \E t \in Ctl : StopKick(t)
  \/ \E t \in Ctl : StopJoin(t)
  \/ \E t \in Ctl : Ends(t)
  \/ \E t \in Ctl : Waits(t)
  \/ \E n \in Sids : ListenerExit(n)
  \/ \E c \in Conns : Walk(c)
  \/ \E c \in Conns : Track(c)
  \/ \E c \in Conns : Pin(c)
  \/ \E c \in Conns : BodyEnd(c)
  \/ \E c \in Conns : CloseConn(c)
  \/ UNCHANGED vars

\* Every step of the specification is one of these.
LEMMA Steps ==
  ASSUME TypeOK, [Next]_vars
  PROVE  Step
<1>1. ASSUME NEW t \in Ctl, StopEnter(t) \/ StopStep(t) \/ SpuriousWake(t)
      PROVE  Step
  <2>1. tpc \in [Ctl -> TPCs]
    BY DEF TypeOK
  <2>2. CASE StopLock(t)
    <3>1. CASE Drained /\ CloseSession(t)
      BY <2>2, <3>1 DEF StopLock, Step, Ends
    <3>2. CASE ~(Drained /\ CloseSession(t))
      <4>1. Waits(t)
        BY <2>2, <3>2 DEF StopLock, Waits, Goto
      <4>2. QED
        BY <4>1 DEF Step
    <3>3. QED
      BY <3>1, <3>2
  <2>3. CASE StopWake(t)
    <3>1. CASE Drained /\ CloseSession(t)
      BY <2>3, <3>1 DEF StopWake, Step, Ends
    <3>2. CASE ~(Drained /\ CloseSession(t))
      <4>1. tpc' = [tpc EXCEPT ![t] = "waiting"]
        BY <2>1, <2>3, <3>2 DEF StopWake
      <4>2. QED
        BY <2>3, <3>2, <4>1 DEF StopWake, Step, Waits
    <3>3. QED
      BY <3>1, <3>2
  <2>4. CASE SpuriousWake(t)
    BY <2>4 DEF SpuriousWake, Step, Ends
  <2>5. QED
    BY <1>1, <2>2, <2>3, <2>4 DEF StopStep, Step
<1>2. ASSUME NEW c \in Conns, Probe(c)
      PROVE  Step
  <2>1. CASE Acquire(c)
    BY <1>2, <2>1 DEF Probe, Step, Pin
  <2>2. CASE ~Acquire(c)
    <3>1. Walk(c)
      BY <1>2, <2>2 DEF Probe, Walk, Move, TypeOK, CPCs
    <3>2. QED
      BY <3>1 DEF Step
  <2>3. QED
    BY <2>1, <2>2
<1>3. ASSUME NEW c \in Conns, BodyStart(c)
      PROVE  Step
  <2>1. CASE Acquire(c)
    BY <1>3, <2>1 DEF BodyStart, Step, Pin
  <2>2. CASE ~Acquire(c)
    <3>1. Walk(c)
      BY <1>3, <2>2 DEF BodyStart, Walk, Move, TypeOK, CPCs
    <3>2. QED
      BY <3>1 DEF Step
  <2>3. QED
    BY <2>1, <2>2
<1>4. ASSUME NEW c \in Conns, NEW n \in Sids,
             Accept(n, c) \/ Recv(c, n)
      PROVE  Walk(c)
  <2>1. req \in [Conns -> 0 .. MaxSessions] /\ cpc \in [Conns -> CPCs]
    BY DEF TypeOK
  <2>2. n \in 0 .. MaxSessions /\ None \in 0 .. MaxSessions
    BY BoundsAssumption DEF Sids, None
  <2>3. CASE Accept(n, c)
    BY <2>1, <2>3 DEF Accept, Move, Walk, CPCs
  <2>4. CASE Recv(c, n)
    BY <2>1, <2>2, <2>4 DEF Recv, Move, Walk, CPCs
  <2>5. QED
    BY <1>4, <2>3, <2>4
<1>5. ASSUME NEW c \in Conns, Top(c) \/ RecvEnd(c) \/ Route(c)
      PROVE  Walk(c)
  <2>1. req \in [Conns -> 0 .. MaxSessions] /\ cpc \in [Conns -> CPCs]
    BY DEF TypeOK
  <2>2. None \in 0 .. MaxSessions
    BY BoundsAssumption DEF None
  <2>3. CASE Top(c)
    BY <2>1, <2>3 DEF Top, Move, Walk, CPCs
  <2>4. CASE RecvEnd(c)
    BY <2>1, <2>4 DEF RecvEnd, Move, Walk, CPCs
  <2>5. CASE Route(c)
    BY <2>1, <2>2, <2>5 DEF Route, Move, Walk, CPCs
  <2>6. QED
    BY <1>5, <2>3, <2>4, <2>5
<1>6. QED
  BY <1>1, <1>2, <1>3, <1>4, <1>5 DEF Next, ConnStep, Step

\* Types are kept by every step.
LEMMA TypeStep ==
  ASSUME TypeOK, SessionOK, Step
  PROVE  TypeOK'
<1>1. CASE StartOpen
  BY <1>1, BoundsAssumption DEF StartOpen, Goto, TypeOK, TPCs, Sids, Ctl,
     ssVars, connVars
<1>2. CASE StartFail
  BY <1>2 DEF StartFail, ClosedAgain, Goto, TypeOK, TPCs, ssVars, connVars
<1>3. CASE StartPublish
  <2>1. running' \in BOOLEAN /\ stopping' \in BOOLEAN /\ thread_created' \in BOOLEAN
    BY <1>3 DEF StartPublish
  <2>2. /\ thread' \in 0 .. MaxSessions /\ listen_fd' \in 0 .. MaxSessions
        /\ vs' \in 0 .. MaxSessions /\ vs_refs' \in Nat
    BY <1>3 DEF StartPublish, TypeOK
  <2>3. /\ live_fds' \subseteq Conns /\ session_name' \in 0 .. MaxSessions
        /\ nsess' \in 0 .. MaxSessions /\ bound' \in 0 .. MaxSessions
    BY <1>3 DEF StartPublish, TypeOK
  <2>4. open' \subseteq Sids /\ listeners' \subseteq Sids /\ issued' \subseteq Sids
    BY <1>3 DEF StartPublish, TypeOK, SessionOK
  <2>5. /\ tpc' \in [Ctl -> TPCs] /\ lfd' \in [Ctl -> 0 .. MaxSessions]
        /\ kick' \in [Ctl -> SUBSET Conns] /\ signalled' \subseteq Ctl
    BY <1>3 DEF StartPublish, Goto, TypeOK, TPCs
  <2>6. join' \in [Ctl -> BOOLEAN]
    BY <1>3 DEF StartPublish, TypeOK
  <2>7. cpc' \in [Conns -> CPCs]
    BY <1>3 DEF StartPublish, TypeOK, connVars
  <2>8. req' \in [Conns -> 0 .. MaxSessions]
    BY <1>3 DEF StartPublish, TypeOK, connVars
  <2>9. /\ pin' \in [Conns -> 0 .. MaxSessions] /\ kicked' \subseteq Conns
    BY <1>3 DEF StartPublish, TypeOK, connVars
  <2>10. QED
    BY <2>1, <2>2, <2>3, <2>4, <2>5, <2>6, <2>7, <2>8, <2>9 DEF TypeOK
<1>4. CASE SetSessionName
  <2>1. running' \in BOOLEAN /\ stopping' \in BOOLEAN /\ thread_created' \in BOOLEAN
    BY <1>4 DEF SetSessionName, TypeOK
  <2>2. /\ thread' \in 0 .. MaxSessions /\ listen_fd' \in 0 .. MaxSessions
        /\ vs' \in 0 .. MaxSessions /\ vs_refs' \in Nat
    BY <1>4 DEF SetSessionName, TypeOK
  <2>3. /\ live_fds' \subseteq Conns /\ session_name' \in 0 .. MaxSessions
        /\ nsess' \in 0 .. MaxSessions /\ bound' \in 0 .. MaxSessions
    BY <1>4 DEF SetSessionName, TypeOK
  <2>4. open' \subseteq Sids /\ listeners' \subseteq Sids /\ issued' \subseteq Sids
    BY <1>4 DEF SetSessionName, TypeOK, SessionOK, Sids, None
  <2>5. /\ tpc' \in [Ctl -> TPCs] /\ lfd' \in [Ctl -> 0 .. MaxSessions]
        /\ kick' \in [Ctl -> SUBSET Conns] /\ signalled' \subseteq Ctl
    BY <1>4 DEF SetSessionName, TypeOK, ctlVars
  <2>6. join' \in [Ctl -> BOOLEAN]
    BY <1>4 DEF SetSessionName, TypeOK, ctlVars
  <2>7. cpc' \in [Conns -> CPCs]
    BY <1>4 DEF SetSessionName, TypeOK, connVars
  <2>8. req' \in [Conns -> 0 .. MaxSessions]
    BY <1>4 DEF SetSessionName, TypeOK, connVars
  <2>9. /\ pin' \in [Conns -> 0 .. MaxSessions] /\ kicked' \subseteq Conns
    BY <1>4 DEF SetSessionName, TypeOK, connVars
  <2>10. QED
    BY <2>1, <2>2, <2>3, <2>4, <2>5, <2>6, <2>7, <2>8, <2>9 DEF TypeOK
<1>5. CASE \E t \in Ctl : StopEnter(t)
  <2>1. running' \in BOOLEAN /\ stopping' \in BOOLEAN /\ thread_created' \in BOOLEAN
    BY <1>5 DEF StopEnter, TypeOK
  <2>2. /\ thread' \in 0 .. MaxSessions /\ listen_fd' \in 0 .. MaxSessions
        /\ vs' \in 0 .. MaxSessions /\ vs_refs' \in Nat
    BY <1>5, BoundsAssumption DEF StopEnter, TypeOK, None
  <2>3. /\ live_fds' \subseteq Conns /\ session_name' \in 0 .. MaxSessions
        /\ nsess' \in 0 .. MaxSessions /\ bound' \in 0 .. MaxSessions
    BY <1>5 DEF StopEnter, TypeOK, worldVars
  <2>4. open' \subseteq Sids /\ listeners' \subseteq Sids /\ issued' \subseteq Sids
    BY <1>5 DEF StopEnter, TypeOK, worldVars
  <2>5. /\ tpc' \in [Ctl -> TPCs] /\ lfd' \in [Ctl -> 0 .. MaxSessions]
        /\ kick' \in [Ctl -> SUBSET Conns] /\ signalled' \subseteq Ctl
    BY <1>5 DEF StopEnter, Goto, TypeOK, TPCs, Stops
  <2>6. join' \in [Ctl -> BOOLEAN]
    BY <1>5 DEF StopEnter, TypeOK
  <2>7. cpc' \in [Conns -> CPCs]
    BY <1>5 DEF StopEnter, TypeOK, connVars
  <2>8. req' \in [Conns -> 0 .. MaxSessions]
    BY <1>5 DEF StopEnter, TypeOK, connVars
  <2>9. /\ pin' \in [Conns -> 0 .. MaxSessions] /\ kicked' \subseteq Conns
    BY <1>5 DEF StopEnter, TypeOK, connVars
  <2>10. QED
    BY <2>1, <2>2, <2>3, <2>4, <2>5, <2>6, <2>7, <2>8, <2>9 DEF TypeOK
<1>6. CASE \E t \in Ctl : StopKick(t)
  BY <1>6, BoundsAssumption DEF StopKick, Goto, TypeOK, TPCs, Stops, None,
     ssVars
<1>7. CASE \E t \in Ctl : StopJoin(t)
  BY <1>7 DEF StopJoin, Goto, TypeOK, TPCs, Stops, ssVars, worldVars, connVars
<1>8. CASE \E t \in Ctl : Ends(t)
  <2>1. running' \in BOOLEAN /\ stopping' \in BOOLEAN /\ thread_created' \in BOOLEAN
    BY <1>8 DEF Ends, CloseSession, TypeOK
  <2>2. /\ thread' \in 0 .. MaxSessions /\ listen_fd' \in 0 .. MaxSessions
        /\ vs' \in 0 .. MaxSessions /\ vs_refs' \in Nat
    BY <1>8, BoundsAssumption DEF Ends, CloseSession, TypeOK, None
  <2>3. /\ live_fds' \subseteq Conns /\ session_name' \in 0 .. MaxSessions
        /\ nsess' \in 0 .. MaxSessions /\ bound' \in 0 .. MaxSessions
    BY <1>8, BoundsAssumption DEF Ends, CloseSession, TypeOK, None
  <2>4. open' \subseteq Sids /\ listeners' \subseteq Sids /\ issued' \subseteq Sids
    BY <1>8 DEF Ends, CloseSession, TypeOK
  <2>5. /\ tpc' \in [Ctl -> TPCs] /\ lfd' \in [Ctl -> 0 .. MaxSessions]
        /\ kick' \in [Ctl -> SUBSET Conns] /\ signalled' \subseteq Ctl
    BY <1>8 DEF Ends, CloseSession, Goto, TypeOK, TPCs
  <2>6. join' \in [Ctl -> BOOLEAN]
    BY <1>8 DEF Ends, CloseSession, TypeOK
  <2>7. cpc' \in [Conns -> CPCs]
    BY <1>8 DEF Ends, CloseSession, TypeOK, connVars
  <2>8. req' \in [Conns -> 0 .. MaxSessions]
    BY <1>8 DEF Ends, CloseSession, TypeOK, connVars
  <2>9. /\ pin' \in [Conns -> 0 .. MaxSessions] /\ kicked' \subseteq Conns
    BY <1>8 DEF Ends, CloseSession, TypeOK, connVars
  <2>10. QED
    BY <2>1, <2>2, <2>3, <2>4, <2>5, <2>6, <2>7, <2>8, <2>9 DEF TypeOK
<1>9. CASE \E t \in Ctl : Waits(t)
  BY <1>9 DEF Waits, TypeOK, TPCs, Stops, ssVars, worldVars, connVars
<1>10. CASE \E n \in Sids : ListenerExit(n)
  BY <1>10 DEF ListenerExit, TypeOK, ssVars, ctlVars, connVars
<1>11. CASE \E c \in Conns : Walk(c)
  <2>1. running' \in BOOLEAN /\ stopping' \in BOOLEAN /\ thread_created' \in BOOLEAN
    BY <1>11 DEF Walk, TypeOK, ssVars
  <2>2. /\ thread' \in 0 .. MaxSessions /\ listen_fd' \in 0 .. MaxSessions
        /\ vs' \in 0 .. MaxSessions /\ vs_refs' \in Nat
    BY <1>11 DEF Walk, TypeOK, ssVars
  <2>3. /\ live_fds' \subseteq Conns /\ session_name' \in 0 .. MaxSessions
        /\ nsess' \in 0 .. MaxSessions /\ bound' \in 0 .. MaxSessions
    BY <1>11 DEF Walk, TypeOK, ssVars, worldVars
  <2>4. open' \subseteq Sids /\ listeners' \subseteq Sids /\ issued' \subseteq Sids
    BY <1>11 DEF Walk, TypeOK, worldVars
  <2>5. /\ tpc' \in [Ctl -> TPCs] /\ lfd' \in [Ctl -> 0 .. MaxSessions]
        /\ kick' \in [Ctl -> SUBSET Conns] /\ signalled' \subseteq Ctl
    BY <1>11 DEF Walk, TypeOK, ctlVars
  <2>6. join' \in [Ctl -> BOOLEAN]
    BY <1>11 DEF Walk, TypeOK, ctlVars
  <2>7. cpc' \in [Conns -> CPCs]
    BY <1>11 DEF Walk, TypeOK
  <2>8. req' \in [Conns -> 0 .. MaxSessions]
    BY <1>11 DEF Walk
  <2>9. /\ pin' \in [Conns -> 0 .. MaxSessions] /\ kicked' \subseteq Conns
    BY <1>11 DEF Walk, TypeOK
  <2>10. QED
    BY <2>1, <2>2, <2>3, <2>4, <2>5, <2>6, <2>7, <2>8, <2>9 DEF TypeOK
<1>12. CASE \E c \in Conns : Track(c)
  BY <1>12 DEF Track, Move, TypeOK, CPCs, worldVars, ctlVars
<1>13. CASE \E c \in Conns : Pin(c)
  BY <1>13 DEF Pin, Acquire, Move, TypeOK, CPCs, worldVars, ctlVars
<1>14. CASE \E c \in Conns : BodyEnd(c)
  BY <1>14, BoundsAssumption DEF BodyEnd, Move, TypeOK, CPCs, None, worldVars
<1>15. CASE \E c \in Conns : CloseConn(c)
  BY <1>15, BoundsAssumption DEF CloseConn, Move, TypeOK, CPCs, None,
     worldVars, ctlVars
<1>16. CASE UNCHANGED vars
  BY <1>16 DEF vars, TypeOK, ssVars, worldVars, ctlVars, connVars
<1>17. QED
  BY <1>1, <1>2, <1>3, <1>4, <1>5, <1>6, <1>7, <1>8, <1>9, <1>10, <1>11,
     <1>12, <1>13, <1>14, <1>15, <1>16 DEF Step

\* The worker's place, the current stream and the streams open stay in step.
LEMMA SessionStep ==
  ASSUME TypeOK, PinsExact, SessionOK, NoLeak, Step
  PROVE  SessionOK' /\ NoLeak'
<1>1. CASE StartOpen
  BY <1>1 DEF StartOpen, Goto, TypeOK, SessionOK, NoLeak, Ctl, ssVars
<1>2. CASE StartFail
  BY <1>2 DEF StartFail, ClosedAgain, Goto, TypeOK, SessionOK, NoLeak, Ctl,
     ssVars
<1>3. CASE StartPublish
  BY <1>3 DEF StartPublish, Goto, TypeOK, SessionOK, NoLeak, Sids, Ctl, Stops,
     None
<1>4. CASE SetSessionName
  BY <1>4 DEF SetSessionName, SessionOK, NoLeak, ctlVars
<1>5. CASE \E t \in Ctl : StopEnter(t)
  BY <1>5 DEF StopEnter, Goto, SessionOK, NoLeak, worldVars
<1>6. CASE \E t \in Ctl : StopKick(t)
  BY <1>6 DEF StopKick, Goto, SessionOK, NoLeak, Stops, ssVars
<1>7. CASE \E t \in Ctl : StopJoin(t)
  BY <1>7 DEF StopJoin, Goto, SessionOK, NoLeak, Stops, ssVars, worldVars
<1>8. CASE \E t \in Ctl : Ends(t)
  BY <1>8 DEF Ends, CloseSession, Goto, TypeOK, SessionOK, NoLeak, Sids,
     Stops, None
<1>9. CASE \E t \in Ctl : Waits(t)
  BY <1>9 DEF Waits, SessionOK, NoLeak, Stops, ssVars, worldVars
<1>10. CASE \E n \in Sids : ListenerExit(n)
  BY <1>10 DEF ListenerExit, SessionOK, NoLeak, ssVars, ctlVars
<1>11. CASE \E c \in Conns : Walk(c)
  BY <1>11 DEF Walk, SessionOK, NoLeak, ssVars, worldVars, ctlVars
<1>12. CASE \E c \in Conns : Track(c)
  BY <1>12 DEF Track, SessionOK, NoLeak, worldVars, ctlVars
<1>13. CASE \E c \in Conns : Pin(c)
  BY <1>13 DEF Pin, Acquire, SessionOK, NoLeak, worldVars, ctlVars
<1>14. CASE \E c \in Conns : BodyEnd(c)
  BY <1>14 DEF BodyEnd, SessionOK, NoLeak, worldVars
<1>15. CASE \E c \in Conns : CloseConn(c)
  BY <1>15 DEF CloseConn, SessionOK, NoLeak, worldVars, ctlVars
<1>16. CASE UNCHANGED vars
  BY <1>16 DEF vars, SessionOK, NoLeak, ssVars, worldVars, ctlVars
<1>17. QED
  BY <1>1, <1>2, <1>3, <1>4, <1>5, <1>6, <1>7, <1>8, <1>9, <1>10, <1>11,
     <1>12, <1>13, <1>14, <1>15, <1>16 DEF Step

\* The pinned connections are finitely many.
LEMMA PinnedFinite == IsFiniteSet(Pinned)
BY FS_Subset, ThreadsAssumption DEF Pinned

\* With the count at zero nothing is pinned.
LEMMA NonePinned ==
  ASSUME PinsExact, vs_refs = 0
  PROVE  \A c \in Conns : pin[c] = None
BY PinnedFinite, FS_EmptySet DEF PinsExact, Pinned

\* The count of the pins is exact, and every pin is on the current stream.
LEMMA PinsStep ==
  ASSUME TypeOK, PinsExact, SessionOK, Step
  PROVE  PinsExact'
<1>1. CASE StartOpen
  BY <1>1 DEF StartOpen, PinsExact, Pinned, ssVars, connVars
<1>2. CASE StartFail
  BY <1>2 DEF StartFail, PinsExact, Pinned, ssVars, connVars
<1>3. CASE StartPublish
  <2>1. \A c \in Conns : pin[c] = None
    BY <1>3 DEF StartPublish, PinsExact, SessionOK
  <2>2. Pinned = {} /\ Pinned' = {}
    BY <1>3, <2>1 DEF StartPublish, Pinned, connVars
  <2>3. QED
    BY <1>3, <2>1, <2>2, FS_EmptySet DEF StartPublish, PinsExact, connVars
<1>4. CASE SetSessionName
  BY <1>4 DEF SetSessionName, PinsExact, Pinned, connVars
<1>5. CASE \E t \in Ctl : StopEnter(t)
  BY <1>5 DEF StopEnter, PinsExact, Pinned, connVars
<1>6. CASE \E t \in Ctl : StopKick(t)
  BY <1>6 DEF StopKick, PinsExact, Pinned, ssVars
<1>7. CASE \E t \in Ctl : StopJoin(t)
  BY <1>7 DEF StopJoin, PinsExact, Pinned, ssVars, connVars
<1>8. CASE \E t \in Ctl : Ends(t)
  <2>1. \A c \in Conns : pin[c] = None
    BY <1>8, NonePinned DEF Ends, Drained
  <2>2. QED
    BY <1>8, <2>1 DEF Ends, CloseSession, PinsExact, Pinned, connVars
<1>9. CASE \E t \in Ctl : Waits(t)
  BY <1>9 DEF Waits, PinsExact, Pinned, ssVars, connVars
<1>10. CASE \E n \in Sids : ListenerExit(n)
  BY <1>10 DEF ListenerExit, PinsExact, Pinned, ssVars, connVars
<1>11. CASE \E c \in Conns : Walk(c)
  BY <1>11 DEF Walk, PinsExact, Pinned, ssVars
<1>12. CASE \E c \in Conns : Track(c)
  BY <1>12 DEF Track, Move, PinsExact, Pinned
<1>13. CASE \E c \in Conns : Pin(c)
  <2>1. PICK c \in Conns : Pin(c)
    BY <1>13
  <2>2. pin[c] = None
    BY <2>1 DEF Pin, PinsExact
  <2>3. vs # None
    BY <2>1 DEF Pin, Acquire, Serving
  <2>4. Pinned' = Pinned \cup {c} /\ c \notin Pinned
    BY <2>1, <2>2, <2>3 DEF Pin, Acquire, Pinned, TypeOK
  <2>5. vs_refs' = Cardinality(Pinned')
    BY <2>1, <2>4, PinnedFinite, FS_AddElement DEF Pin, Acquire, PinsExact
  <2>6. QED
    BY <2>1, <2>3, <2>5 DEF Pin, Acquire, Move, PinsExact, TypeOK
<1>14. CASE \E c \in Conns : BodyEnd(c)
  <2>1. PICK c \in Conns : BodyEnd(c)
    BY <1>14
  <2>2. Pinned' = Pinned \ {c} /\ c \in Pinned
    BY <2>1 DEF BodyEnd, Pinned, PinsExact, TypeOK
  <2>3. Cardinality(Pinned') = Cardinality(Pinned) - 1 /\ Cardinality(Pinned') \in Nat
    BY <2>2, PinnedFinite, FS_RemoveElement, FS_CardinalityType
  <2>4. vs_refs' = Cardinality(Pinned')
    BY <2>1, <2>3 DEF BodyEnd, PinsExact, TypeOK
  <2>5. cpc' \in [Conns -> CPCs] /\ cpc'[c] # "body"
    <3>1. PICK q \in {"top", "closing"} : cpc' = [cpc EXCEPT ![c] = q]
      BY <2>1 DEF BodyEnd, Move
    <3>2. QED
      BY <3>1 DEF TypeOK, CPCs
  <2>6. QED
    BY <2>1, <2>4, <2>5 DEF BodyEnd, Move, PinsExact, TypeOK
<1>15. CASE \E c \in Conns : CloseConn(c)
  BY <1>15 DEF CloseConn, Move, PinsExact, Pinned
<1>16. CASE UNCHANGED vars
  BY <1>16 DEF vars, PinsExact, Pinned, ssVars, connVars
<1>17. QED
  BY <1>1, <1>2, <1>3, <1>4, <1>5, <1>6, <1>7, <1>8, <1>9, <1>10, <1>11,
     <1>12, <1>13, <1>14, <1>15, <1>16 DEF Step

\* A table with room takes a descriptor that is not in it.
LEMMA RoomForOne ==
  ASSUME TypeOK, Cardinality(Conns) <= MaxTracked, NEW c \in Conns, c \notin live_fds
  PROVE  Cardinality(live_fds) < MaxTracked
<1>1. live_fds \subseteq Conns
  BY DEF TypeOK
<1>2. /\ Cardinality(live_fds) <= Cardinality(Conns)
      /\ Cardinality(live_fds) = Cardinality(Conns) => live_fds = Conns
  BY <1>1, FS_Subset, ThreadsAssumption
<1>3. Cardinality(live_fds) # Cardinality(Conns)
  BY <1>2
<1>4. Cardinality(live_fds) \in Nat /\ Cardinality(Conns) \in Nat
  BY <1>1, FS_Subset, FS_CardinalityType, ThreadsAssumption
<1>5. QED
  BY <1>2, <1>3, <1>4, BoundsAssumption

\* No connection past Track is lost from sight while the table has room.
LEMMA TrackedStep ==
  ASSUME TypeOK, PinsExact, TrackedOK, Step
  PROVE  TrackedOK'
<1>1. CASE StartOpen
  BY <1>1 DEF StartOpen, Goto, TrackedOK, ssVars, connVars
<1>2. CASE StartFail
  BY <1>2 DEF StartFail, Goto, TrackedOK, ssVars, connVars
<1>3. CASE StartPublish
  BY <1>3 DEF StartPublish, Goto, TrackedOK, connVars
<1>4. CASE SetSessionName
  BY <1>4 DEF SetSessionName, TrackedOK, ctlVars, connVars
<1>5. CASE \E t \in Ctl : StopEnter(t)
  BY <1>5 DEF StopEnter, Goto, TypeOK, TrackedOK, worldVars, connVars
<1>6. CASE \E t \in Ctl : StopKick(t)
  BY <1>6 DEF StopKick, Goto, TypeOK, TrackedOK, ssVars
<1>7. CASE \E t \in Ctl : StopJoin(t)
  BY <1>7 DEF StopJoin, Goto, TrackedOK, ssVars, connVars
<1>8. CASE \E t \in Ctl : Ends(t)
  BY <1>8 DEF Ends, CloseSession, Goto, TrackedOK, connVars
<1>9. CASE \E t \in Ctl : Waits(t)
  BY <1>9 DEF Waits, TrackedOK, ssVars, connVars
<1>10. CASE \E n \in Sids : ListenerExit(n)
  BY <1>10 DEF ListenerExit, TrackedOK, ssVars, ctlVars, connVars
<1>11. CASE \E c \in Conns : Walk(c)
  BY <1>11 DEF Walk, TrackedOK, ssVars, ctlVars
<1>12. CASE \E c \in Conns : Track(c)
  <2>1. PICK c \in Conns : Track(c)
    BY <1>12
  <2>2. Cardinality(Conns) <= MaxTracked => live_fds' = live_fds \cup {c}
    BY <2>1, RoomForOne DEF Track
  <2>3. QED
    BY <2>1, <2>2 DEF Track, Move, TrackedOK, ctlVars
<1>13. CASE \E c \in Conns : Pin(c)
  BY <1>13 DEF Pin, Acquire, Move, TrackedOK, ctlVars
<1>14. CASE \E c \in Conns : BodyEnd(c)
  <2>1. PICK c \in Conns : BodyEnd(c)
    BY <1>14
  <2>2. \A d \in Conns : cpc'[d] \notin {"free", "accepted"} => cpc[d] \notin {"free", "accepted"}
    BY <2>1 DEF BodyEnd, Move
  <2>3. QED
    BY <2>1, <2>2 DEF BodyEnd, TrackedOK
<1>15. CASE \E c \in Conns : CloseConn(c)
  BY <1>15 DEF CloseConn, Move, TypeOK, TrackedOK, ctlVars
<1>16. CASE UNCHANGED vars
  BY <1>16 DEF vars, TrackedOK, ssVars, ctlVars, connVars
<1>17. QED
  BY <1>1, <1>2, <1>3, <1>4, <1>5, <1>6, <1>7, <1>8, <1>9, <1>10, <1>11,
     <1>12, <1>13, <1>14, <1>15, <1>16 DEF Step

\* A stop goes on seeing every transfer in flight.
LEMMA DrainStep ==
  ASSUME TypeOK, PinsExact, TrackedOK, stopping => ~running, DrainReachesAll, Step
  PROVE  (stopping => ~running)' /\ DrainReachesAll'
<1>1. CASE StartOpen
  BY <1>1 DEF StartOpen, DrainReachesAll, Pinned, ssVars, connVars
<1>2. CASE StartFail
  BY <1>2 DEF StartFail, DrainReachesAll, Pinned, ssVars, connVars
<1>3. CASE StartPublish
  BY <1>3 DEF StartPublish, DrainReachesAll
<1>4. CASE SetSessionName
  BY <1>4 DEF SetSessionName, DrainReachesAll, Pinned, ctlVars, connVars
<1>5. CASE \E t \in Ctl : StopEnter(t)
  <2>1. PICK t \in Ctl : StopEnter(t)
    BY <1>5
  <2>2. kick[t] = {} /\ kick' = [kick EXCEPT ![t] = live_fds] /\ kicked' = kicked
    BY <2>1 DEF StopEnter, TrackedOK, connVars
  <2>3. live_fds \cup UNION {kick[u] : u \in Ctl} = UNION {kick'[u] : u \in Ctl}
    BY <2>2 DEF TypeOK
  <2>4. Pinned' = Pinned
    BY <2>1 DEF StopEnter, Pinned, connVars
  <2>5. Cardinality(Conns) <= MaxTracked =>
          Pinned \subseteq live_fds \cup kicked \cup UNION {kick[u] : u \in Ctl}
    BY DEF Pinned, PinsExact, TrackedOK
  <2>6. DrainReachesAll'
    BY <2>2, <2>3, <2>4, <2>5 DEF DrainReachesAll
  <2>7. (stopping => ~running)'
    BY <2>1 DEF StopEnter
  <2>8. QED
    BY <2>6, <2>7
<1>6. CASE \E t \in Ctl : StopKick(t)
  BY <1>6 DEF StopKick, PinsExact, DrainReachesAll, Pinned, ssVars
<1>7. CASE \E t \in Ctl : StopJoin(t)
  BY <1>7 DEF StopJoin, DrainReachesAll, Pinned, ssVars, connVars
<1>8. CASE \E t \in Ctl : Ends(t)
  BY <1>8 DEF Ends, CloseSession, DrainReachesAll
<1>9. CASE \E t \in Ctl : Waits(t)
  BY <1>9 DEF Waits, DrainReachesAll, Pinned, ssVars, connVars
<1>10. CASE \E n \in Sids : ListenerExit(n)
  BY <1>10 DEF ListenerExit, DrainReachesAll, Pinned, ssVars, ctlVars,
     connVars
<1>11. CASE \E c \in Conns : Walk(c)
  BY <1>11 DEF Walk, DrainReachesAll, Pinned, ssVars, ctlVars
<1>12. CASE \E c \in Conns : Track(c)
  BY <1>12 DEF Track, DrainReachesAll, Pinned, ctlVars
<1>13. CASE \E c \in Conns : Pin(c)
  BY <1>13 DEF Pin, Acquire, Serving, DrainReachesAll
<1>14. CASE \E c \in Conns : BodyEnd(c)
  BY <1>14 DEF BodyEnd, DrainReachesAll, Pinned
<1>15. CASE \E c \in Conns : CloseConn(c)
  BY <1>15 DEF CloseConn, PinsExact, DrainReachesAll, Pinned, ctlVars
<1>16. CASE UNCHANGED vars
  BY <1>16 DEF vars, DrainReachesAll, Pinned, ssVars, ctlVars, connVars
<1>17. QED
  BY <1>1, <1>2, <1>3, <1>4, <1>5, <1>6, <1>7, <1>8, <1>9, <1>10, <1>11,
     <1>12, <1>13, <1>14, <1>15, <1>16 DEF Step

\* The initial state satisfies the invariant.
LEMMA Initially ==
  ASSUME Init
  PROVE  IInv
<1>1. TypeOK
  <2>1. running \in BOOLEAN /\ stopping \in BOOLEAN /\ thread_created \in BOOLEAN
    BY DEF Init
  <2>2. join \in [Ctl -> BOOLEAN]
    BY DEF Init
  <2>3. tpc \in [Ctl -> TPCs] /\ cpc \in [Conns -> CPCs]
    BY DEF Init, TPCs, CPCs
  <2>4. /\ kick \in [Ctl -> SUBSET Conns] /\ live_fds \subseteq Conns
        /\ kicked \subseteq Conns /\ signalled \subseteq Ctl
        /\ open \subseteq Sids /\ listeners \subseteq Sids /\ issued \subseteq Sids
    BY DEF Init
  <2>5. QED
    BY <2>1, <2>2, <2>3, <2>4, BoundsAssumption DEF Init, TypeOK, None
<1>2. Pinned = {} /\ Cardinality(Pinned) = 0
  BY FS_EmptySet DEF Init, Pinned
<1>3. PinsExact
  BY <1>2 DEF Init, PinsExact
<1>4. SessionOK /\ NoLeak
  BY DEF Init, SessionOK, NoLeak, Ctl
<1>5. TrackedOK /\ (stopping => ~running) /\ DrainReachesAll
  BY DEF Init, TrackedOK, DrainReachesAll
<1>6. QED
  BY <1>1, <1>3, <1>4, <1>5 DEF IInv

\* The invariant is inductive: every step keeps each of its parts.
LEMMA Inductively ==
  ASSUME IInv, [Next]_vars
  PROVE  IInv'
<1>1. Step
  BY Steps DEF IInv
<1>2. TypeOK'
  BY <1>1, TypeStep DEF IInv
<1>3. SessionOK' /\ NoLeak'
  BY <1>1, SessionStep DEF IInv
<1>4. PinsExact'
  BY <1>1, PinsStep DEF IInv
<1>5. TrackedOK'
  BY <1>1, TrackedStep DEF IInv
<1>6. (stopping => ~running)' /\ DrainReachesAll'
  BY <1>1, DrainStep DEF IInv
<1>7. QED
  BY <1>2, <1>3, <1>4, <1>5, <1>6 DEF IInv

\* The server's bookkeeping holds in every reachable state, for any number of
\* connections, cancelling threads and sessions.
THEOREM ServerInductive == Spec => []IInv
BY Initially, Inductively, PTL DEF Spec

\* A stream that a connection has pinned (stream_vs_acquire) is open: no stop
\* closes and frees it under a transfer.
THEOREM NoReadAfterClose == Spec => []PinnedOpen
<1>1. IInv => PinnedOpen
  BY DEF IInv, PinsExact, SessionOK, PinnedOpen
<1>2. QED
  BY <1>1, ServerInductive, PTL

\* Every stream that is open is the current session's or that of the start
\* under way: no failed start and no overlapping or late stop leaks one.
THEOREM StreamsNeverLeak == Spec => []NoLeak
<1>1. IInv => NoLeak
  BY DEF IInv
<1>2. QED
  BY <1>1, ServerInductive, PTL

\* While a stop is under way and the table holds every connection, each
\* transfer in flight is one that the stop has shut down or is about to.
THEOREM StopReachesTransfers == Spec => []DrainReachesAll
<1>1. IInv => DrainReachesAll
  BY DEF IInv
<1>2. QED
  BY <1>1, ServerInductive, PTL

-----------------------------------------------------------------------------
(* The stream, as those who start and stop the server see it.              *)

\* A step that changes neither the stream nor a pin.
LEMMA LeaseStutter ==
  ASSUME UNCHANGED <<vs, pin>>
  PROVE  UNCHANGED Lease!leaseVars
  BY DEF Lease!leaseVars

LEMMA LeaseNext ==
  ASSUME IInv, [Next]_vars
  PROVE  [Lease!Next]_(Lease!leaseVars)
<1>1. Step
  BY Steps DEF IInv
<1> USE DEF IInv
<1>2. CASE StartPublish
  <2>1. vs = None /\ nsess \in Sids /\ \A c \in Conns : pin[c] = None
    BY <1>2 DEF StartPublish, TypeOK, SessionOK, PinsExact
  <2>2. Lease!Publish(nsess)
    BY <1>2, <2>1 DEF StartPublish, connVars, Lease!Publish, Lease!Free
  <2>3. QED
    BY <2>1, <2>2 DEF Lease!Next
<1>3. ASSUME NEW t \in Ctl, Ends(t) PROVE [Lease!Next]_(Lease!leaseVars)
  <2>1. \A c \in Conns : pin[c] = None
    BY <1>3, NonePinned DEF Ends, Drained
  <2>2. vs' = None /\ pin' = pin
    BY <1>3 DEF Ends, CloseSession, connVars
  <2>3. vs # None => Lease!Retire
    BY <2>1, <2>2 DEF Lease!Retire, Lease!Free
  <2>4. QED
    BY <2>2, <2>3, LeaseStutter DEF Lease!Next
<1>4. ASSUME NEW c \in Conns, Pin(c) PROVE Lease!Next
  <2>1. pin[c] = None /\ vs # None
    BY <1>4 DEF Pin, Acquire, Serving, PinsExact, TypeOK
  <2>2. Lease!Hold(c)
    BY <1>4, <2>1 DEF Pin, Acquire, Lease!Hold
  <2>3. QED
    BY <2>2 DEF Lease!Next
<1>5. ASSUME NEW c \in Conns, BodyEnd(c) PROVE Lease!Next
  <2>1. pin[c] # None
    BY <1>5 DEF BodyEnd, PinsExact
  <2>2. Lease!LetGo(c)
    BY <1>5, <2>1 DEF BodyEnd, Lease!LetGo
  <2>3. QED
    BY <2>2 DEF Lease!Next
<1>6. ASSUME StartOpen \/ StartFail \/ SetSessionName PROVE UNCHANGED Lease!leaseVars
  BY <1>6, LeaseStutter DEF StartOpen, StartFail, SetSessionName, ssVars, connVars
<1>7. ASSUME NEW t \in Ctl, StopEnter(t) \/ StopKick(t) \/ StopJoin(t) \/ Waits(t)
      PROVE  UNCHANGED Lease!leaseVars
  BY <1>7, LeaseStutter DEF StopEnter, StopKick, StopJoin, Waits, ssVars, connVars
<1>8. ASSUME NEW n \in Sids, ListenerExit(n) PROVE UNCHANGED Lease!leaseVars
  BY <1>8, LeaseStutter DEF ListenerExit, ssVars, connVars
<1>9. ASSUME NEW c \in Conns, Walk(c) \/ Track(c) \/ CloseConn(c)
      PROVE  UNCHANGED Lease!leaseVars
  BY <1>9, LeaseStutter DEF Walk, Track, CloseConn, ssVars
<1>10. CASE UNCHANGED vars
  BY <1>10, LeaseStutter DEF vars, ssVars, connVars
<1>11. QED
  BY <1>1, <1>2, <1>3, <1>4, <1>5, <1>6, <1>7, <1>8, <1>9, <1>10 DEF Step

\* However many connections, stops and starts overlap, one stream is served at
\* a time, a connection holds the one it began with to the end of its
\* transfer, and a stop gives a stream up only when nobody holds it.
THEOREM LeaseImplemented == Spec => ImplementsLease
<1>1. Init => Lease!Init
  BY DEF Init, Lease!Init
<1>2. QED
  BY <1>1, LeaseNext, ServerInductive, PTL DEF Spec, ImplementsLease, Lease!Spec
===============================================================================
