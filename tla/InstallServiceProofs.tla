------------------------- MODULE InstallServiceProofs -------------------------
(***************************************************************************)
(* For every number of callers, helpers and requests: a caller never takes *)
(* a stale reply, nothing hides the end of the socket from a helper's      *)
(* watcher during a call, and of the live helpers with jobs of one caller  *)
(* at most one has not been killed.                                        *)
(***************************************************************************)
EXTENDS InstallService, TLAPS

\* A caller that talks over a socket has one.
LEMMA ConnHelper ==
  ASSUME TypeOK, CallersOK, NEW c \in Callers,
         cst[c] \in {"greeting", "open", "waiting", "closing"}
  PROVE  conn[c] \in Helpers
  BY DEF TypeOK, CallersOK

\* A caller that reaps, or whose service is usable, knows a process.
LEMMA PidHelper ==
  ASSUME TypeOK, CallersOK, NEW c \in Callers, cst[c] = "reaping" \/ usable[c]
  PROVE  pid[c] \in Helpers /\ (usable[c] => conn[c] \in Helpers)
  BY DEF TypeOK, CallersOK

\* Every step keeps the types.
LEMMA TypeStep ==
  ASSUME IInv, [Next]_vars
  PROVE  TypeOK'
<1>1. ASSUME DaemonDies
      PROVE  TypeOK'
  <2>1. alive' \in BOOLEAN
    BY <1>1 DEF DaemonDies
  <2>2. eof' \in [Helpers -> BOOLEAN]
    BY <1>1, Zenon DEF DaemonDies, Reset
  <2>3. QED
    BY <1>1, <2>1, <2>2
    DEF IInv, TypeOK, clientVars, helperVars, DaemonDies
<1>2. ASSUME NEW c \in Callers, Start(c)
      PROVE  TypeOK'
  <2>1. spawned' \in 0 .. MaxHelpers
    BY <1>2, BoundsAssumption DEF IInv, TypeOK, Start
  <2>2. hst' \in [Helpers -> HStates]
    BY <1>2 DEF IInv, TypeOK, Start, HStates
  <2>3. QED
    BY <1>2, <2>1, <2>2
    DEF IInv, TypeOK, CStates, socketVars, Start
<1>3. ASSUME NEW c \in Callers, AcceptFails(c)
      PROVE  TypeOK'
  BY <1>3
  DEF IInv, TypeOK, CStates, helperVars, AcceptFails, Backlog, Reset
<1>4. ASSUME NEW c \in Callers, Greet(c)
      PROVE  TypeOK'
  <2>1. conn[c] \in Helpers
    BY <1>4, ConnHelper
    DEF IInv, Greet
  <2>2. QED
    BY <1>4, <2>1
    DEF IInv, TypeOK, CStates, helperVars, Greet, Readable
<1>5. ASSUME NEW c \in Callers, Ask(c)
      PROVE  TypeOK'
  <2>1. conn[c] \in Helpers
    BY <1>5, ConnHelper
    DEF IInv, Ask
  <2>2. QED
    BY <1>5, <2>1
    DEF IInv, TypeOK, CStates, helperVars, Ask, MayAsk
<1>6. ASSUME NEW c \in Callers, Answered(c)
      PROVE  TypeOK'
  <2>1. conn[c] \in Helpers
    BY <1>6, ConnHelper
    DEF IInv, Answered
  <2>2. QED
    BY <1>6, <2>1
    DEF IInv, TypeOK, CStates, helperVars, Answered, Readable
<1>7. ASSUME NEW c \in Callers, TransferFails(c)
      PROVE  TypeOK'
  BY <1>7
  DEF IInv, TypeOK, CStates, helperVars, socketVars, TransferFails, Stop,
      Unusable, MayAsk
<1>8. ASSUME NEW c \in Callers, Leave(c)
      PROVE  TypeOK'
  BY <1>8
  DEF IInv, TypeOK, CStates, helperVars, socketVars, Leave
<1>9. ASSUME NEW c \in Callers, CloseAsks(c)
      PROVE  TypeOK'
  <2>1. conn[c] \in Helpers
    BY <1>9, PidHelper
    DEF IInv, CallersOK, CloseAsks
  <2>2. QED
    BY <1>9, <2>1
    DEF IInv, TypeOK, CStates, helperVars, CloseAsks
<1>10. ASSUME NEW c \in Callers, CloseHangsUp(c)
      PROVE  TypeOK'
  BY <1>10
  DEF IInv, TypeOK, CStates, helperVars, CloseHangsUp, HangUp, Reset
<1>11. ASSUME NEW c \in Callers, Reaped(c)
      PROVE  TypeOK'
  BY <1>11
  DEF IInv, TypeOK, CStates, helperVars, socketVars, Reaped
<1>12. ASSUME NEW c \in Callers, Kill(c)
      PROVE  TypeOK'
  <2>1. pid[c] \in Helpers
    BY <1>12, PidHelper
    DEF IInv, Kill
  <2>2. QED
    BY <1>12, <2>1
    DEF IInv, TypeOK, CStates, helperVars, socketVars, Kill, Killed
<1>13. ASSUME NEW c \in Callers, NEW h \in Helpers, Accept(c, h)
      PROVE  TypeOK'
  BY <1>13
  DEF IInv, TypeOK, CStates, helperVars, Accept, Backlog, Reset
<1>14. ASSUME NEW h \in Helpers, Connect(h)
      PROVE  TypeOK'
  BY <1>14
  DEF IInv, TypeOK, HStates, clientVars, socketVars, Connect
<1>15. ASSUME NEW h \in Helpers, NobodyListens(h)
      PROVE  TypeOK'
  BY <1>15
  DEF IInv, TypeOK, HStates, clientVars, socketVars, NobodyListens
<1>16. ASSUME NEW h \in Helpers, Take(h)
      PROVE  TypeOK'
  BY <1>16
  DEF IInv, TypeOK, HStates, clientVars, Take
<1>17. ASSUME NEW h \in Helpers, LoopEnds(h)
      PROVE  TypeOK'
  BY <1>17
  DEF IInv, TypeOK, HStates, clientVars, socketVars, LoopEnds
<1>18. ASSUME NEW h \in Helpers, Exits(h)
      PROVE  TypeOK'
  BY <1>18
  DEF IInv, TypeOK, HStates, clientVars, socketVars, Exits, Serving
<1>19. ASSUME NEW h \in Helpers, WatcherExits(h)
      PROVE  TypeOK'
  BY <1>19
  DEF IInv, TypeOK, HStates, clientVars, socketVars, WatcherExits, Watched,
      Serving
<1>20. ASSUME NEW h \in Helpers, NEW ok \in BOOLEAN, Initialize(h, ok)
      PROVE  TypeOK'
  BY <1>20
  DEF IInv, TypeOK, HStates, clientVars, Initialize
<1>21. ASSUME NEW h \in Helpers, NEW ok \in BOOLEAN, Return(h, ok)
      PROVE  TypeOK'
  BY <1>21
  DEF IInv, TypeOK, HStates, clientVars, Return, ClosingCall
<1>22. CASE UNCHANGED vars
  BY <1>22
  DEF vars, clientVars, helperVars, socketVars, IInv, TypeOK, CStates, HStates
<1>23. QED
  BY <1>1, <1>2, <1>3, <1>4, <1>5, <1>6, <1>7, <1>8, <1>9, <1>10, <1>11, <1>12,
      <1>13, <1>14, <1>15, <1>16, <1>17, <1>18, <1>19, <1>20, <1>21, <1>22
  DEF Next, CallerStep, HelperStep

\* Every step keeps the order of requests and replies.
LEMMA SocketStep ==
  ASSUME IInv, [Next]_vars
  PROVE  SocketOK'
<1>1. ASSUME DaemonDies
      PROVE  SocketOK'
  BY <1>1
  DEF SocketOK, IInv, TypeOK, clientVars, helperVars, DaemonDies, Reset
<1>2. ASSUME NEW c \in Callers, Start(c)
      PROVE  SocketOK'
  BY <1>2
  DEF SocketOK, IInv, TypeOK, Helpers, socketVars, Start
<1>3. ASSUME NEW c \in Callers, AcceptFails(c)
      PROVE  SocketOK'
  BY <1>3
  DEF SocketOK, IInv, TypeOK, helperVars, AcceptFails, Backlog, Reset
<1>4. ASSUME NEW c \in Callers, Greet(c)
      PROVE  SocketOK'
  BY <1>4
  DEF SocketOK, IInv, TypeOK, helperVars, Greet, Readable
<1>5. ASSUME NEW c \in Callers, Ask(c)
      PROVE  SocketOK'
  BY <1>5
  DEF SocketOK, AnswerIsOwn, CallersOK, IInv, TypeOK, helperVars, Ask, MayAsk
<1>6. ASSUME NEW c \in Callers, Answered(c)
      PROVE  SocketOK'
  BY <1>6
  DEF SocketOK, IInv, TypeOK, helperVars, Answered, Readable
<1>7. ASSUME NEW c \in Callers, TransferFails(c)
      PROVE  SocketOK'
  BY <1>7
  DEF SocketOK, IInv, TypeOK, helperVars, socketVars, TransferFails, Stop,
      Unusable, MayAsk
<1>8. ASSUME NEW c \in Callers, Leave(c)
      PROVE  SocketOK'
  BY <1>8
  DEF SocketOK, IInv, TypeOK, helperVars, socketVars, Leave
<1>9. ASSUME NEW c \in Callers, CloseAsks(c)
      PROVE  SocketOK'
  BY <1>9
  DEF SocketOK, AnswerIsOwn, CallersOK, IInv, TypeOK, helperVars, CloseAsks
<1>10. ASSUME NEW c \in Callers, CloseHangsUp(c)
      PROVE  SocketOK'
  BY <1>10
  DEF SocketOK, IInv, TypeOK, helperVars, CloseHangsUp, HangUp, Reset
<1>11. ASSUME NEW c \in Callers, Reaped(c)
      PROVE  SocketOK'
  BY <1>11
  DEF SocketOK, IInv, TypeOK, helperVars, socketVars, Reaped
<1>12. ASSUME NEW c \in Callers, Kill(c)
      PROVE  SocketOK'
  BY <1>12
  DEF SocketOK, IInv, TypeOK, helperVars, socketVars, Kill
<1>13. ASSUME NEW c \in Callers, NEW h \in Helpers, Accept(c, h)
      PROVE  SocketOK'
  BY <1>13
  DEF SocketOK, IInv, TypeOK, helperVars, Accept, Backlog, Reset
<1>14. ASSUME NEW h \in Helpers, Connect(h)
      PROVE  SocketOK'
  BY <1>14
  DEF IInv, TypeOK, SocketOK, socketVars, Connect
<1>15. ASSUME NEW h \in Helpers, NobodyListens(h)
      PROVE  SocketOK'
  BY <1>15
  DEF SocketOK, IInv, TypeOK, clientVars, socketVars, NobodyListens
<1>16. ASSUME NEW h \in Helpers, Take(h)
      PROVE  SocketOK'
  BY <1>16
  DEF IInv, TypeOK, SocketOK, Take
<1>17. ASSUME NEW h \in Helpers, LoopEnds(h)
      PROVE  SocketOK'
  BY <1>17
  DEF SocketOK, IInv, TypeOK, clientVars, socketVars, LoopEnds
<1>18. ASSUME NEW h \in Helpers, Exits(h)
      PROVE  SocketOK'
  BY <1>18
  DEF SocketOK, IInv, TypeOK, clientVars, socketVars, Exits, Serving
<1>19. ASSUME NEW h \in Helpers, WatcherExits(h)
      PROVE  SocketOK'
  BY <1>19
  DEF SocketOK, IInv, TypeOK, clientVars, socketVars, WatcherExits, Watched,
      Serving
<1>20. ASSUME NEW h \in Helpers, NEW ok \in BOOLEAN, Initialize(h, ok)
      PROVE  SocketOK'
  BY <1>20
  DEF SocketOK, IInv, TypeOK, clientVars, Initialize
<1>21. ASSUME NEW h \in Helpers, NEW ok \in BOOLEAN, Return(h, ok)
      PROVE  SocketOK'
  BY <1>21
  DEF SocketOK, IInv, TypeOK, clientVars, Return, ClosingCall
<1>22. CASE UNCHANGED vars
  BY <1>22
  DEF vars, clientVars, helperVars, socketVars, SocketOK, AnswerIsOwn, CallersOK,
      IInv, TypeOK, Helpers, NoHelper, CStates, HStates
<1>23. QED
  BY <1>1, <1>2, <1>3, <1>4, <1>5, <1>6, <1>7, <1>8, <1>9, <1>10, <1>11, <1>12,
      <1>13, <1>14, <1>15, <1>16, <1>17, <1>18, <1>19, <1>20, <1>21, <1>22
  DEF Next, CallerStep, HelperStep

\* Every step keeps what callers know of their helpers.
LEMMA CallersStep ==
  ASSUME IInv, [Next]_vars
  PROVE  CallersOK'
<1>1. ASSUME DaemonDies
      PROVE  CallersOK'
  BY <1>1
  DEF CallersOK, IInv, TypeOK, clientVars, helperVars, DaemonDies, Reset
<1>2. ASSUME NEW c \in Callers, Start(c)
      PROVE  CallersOK'
  BY <1>2
  DEF CallersOK, IInv, TypeOK, socketVars, Start
<1>3. ASSUME NEW c \in Callers, AcceptFails(c)
      PROVE  CallersOK'
  BY <1>3
  DEF CallersOK, IInv, TypeOK, helperVars, AcceptFails, Backlog, Reset
<1>4. ASSUME NEW c \in Callers, Greet(c)
      PROVE  CallersOK'
  <2>1. conn[c] \in Helpers
    BY <1>4, ConnHelper
    DEF IInv, Greet
  <2>2. QED
    BY <1>4, <2>1
    DEF CallersOK, IInv, TypeOK, helperVars, Greet, Readable
<1>5. ASSUME NEW c \in Callers, Ask(c)
      PROVE  CallersOK'
  <2>1. conn[c] \in Helpers
    BY <1>5, ConnHelper
    DEF IInv, Ask
  <2>2. QED
    BY <1>5, <2>1
    DEF AnswerIsOwn, CallersOK, IInv, TypeOK, helperVars, Ask, MayAsk
<1>6. ASSUME NEW c \in Callers, Answered(c)
      PROVE  CallersOK'
  BY <1>6
  DEF CallersOK, IInv, TypeOK, helperVars, Answered, Readable
<1>7. ASSUME NEW c \in Callers, TransferFails(c)
      PROVE  CallersOK'
  BY <1>7
  DEF CallersOK, IInv, TypeOK, helperVars, socketVars, TransferFails, Stop,
      Unusable, MayAsk
<1>8. ASSUME NEW c \in Callers, Leave(c)
      PROVE  CallersOK'
  BY <1>8
  DEF CallersOK, IInv, TypeOK, helperVars, socketVars, Leave
<1>9. ASSUME NEW c \in Callers, CloseAsks(c)
      PROVE  CallersOK'
  BY <1>9
  DEF CallersOK, IInv, TypeOK, helperVars, CloseAsks
<1>10. ASSUME NEW c \in Callers, CloseHangsUp(c)
      PROVE  CallersOK'
  BY <1>10
  DEF CallersOK, IInv, TypeOK, helperVars, CloseHangsUp, HangUp, Reset
<1>11. ASSUME NEW c \in Callers, Reaped(c)
      PROVE  CallersOK'
  BY <1>11
  DEF CallersOK, IInv, TypeOK, helperVars, socketVars, Reaped
<1>12. ASSUME NEW c \in Callers, Kill(c)
      PROVE  CallersOK'
  BY <1>12
  DEF CallersOK, IInv, TypeOK, helperVars, socketVars, Kill, Killed
<1>13. ASSUME NEW c \in Callers, NEW h \in Helpers, Accept(c, h)
      PROVE  CallersOK'
  BY <1>13
  DEF CallersOK, BacklogOK, IInv, TypeOK, helperVars, Accept, Backlog, Reset
<1>14. ASSUME NEW h \in Helpers, Connect(h)
      PROVE  CallersOK'
  BY <1>14, CallersAssumption
  DEF SocketOK, CallersOK, IInv, TypeOK, clientVars, socketVars, Connect
<1>15. ASSUME NEW h \in Helpers, NobodyListens(h)
      PROVE  CallersOK'
  BY <1>15
  DEF CallersOK, IInv, TypeOK, clientVars, socketVars, NobodyListens
<1>16. ASSUME NEW h \in Helpers, Take(h)
      PROVE  CallersOK'
  BY <1>16
  DEF CallersOK, IInv, TypeOK, clientVars, Take
<1>17. ASSUME NEW h \in Helpers, LoopEnds(h)
      PROVE  CallersOK'
  BY <1>17
  DEF CallersOK, IInv, TypeOK, clientVars, socketVars, LoopEnds
<1>18. ASSUME NEW h \in Helpers, Exits(h)
      PROVE  CallersOK'
  BY <1>18
  DEF CallersOK, IInv, TypeOK, clientVars, socketVars, Exits, Serving
<1>19. ASSUME NEW h \in Helpers, WatcherExits(h)
      PROVE  CallersOK'
  BY <1>19
  DEF CallersOK, IInv, TypeOK, clientVars, socketVars, WatcherExits, Watched,
      Serving
<1>20. ASSUME NEW h \in Helpers, NEW ok \in BOOLEAN, Initialize(h, ok)
      PROVE  CallersOK'
  BY <1>20
  DEF CallersOK, IInv, TypeOK, clientVars, Initialize
<1>21. ASSUME NEW h \in Helpers, NEW ok \in BOOLEAN, Return(h, ok)
      PROVE  CallersOK'
  BY <1>21
  DEF CallersOK, IInv, TypeOK, clientVars, Return, ClosingCall
<1>22. CASE UNCHANGED vars
  BY <1>22
  DEF vars, clientVars, helperVars, socketVars, SocketOK, AnswerIsOwn, CallersOK,
      BacklogOK, IInv, TypeOK, Helpers, NoHelper, CStates, HStates
<1>23. QED
  BY <1>1, <1>2, <1>3, <1>4, <1>5, <1>6, <1>7, <1>8, <1>9, <1>10, <1>11, <1>12,
      <1>13, <1>14, <1>15, <1>16, <1>17, <1>18, <1>19, <1>20, <1>21, <1>22
  DEF Next, CallerStep, HelperStep

\* Every step leaves helpers that were not accepted untouched.
LEMMA BacklogStep ==
  ASSUME IInv, [Next]_vars
  PROVE  BacklogOK'
<1>1. ASSUME DaemonDies
      PROVE  BacklogOK'
  BY <1>1
  DEF BacklogOK, IInv, TypeOK, clientVars, helperVars, DaemonDies, Reset
<1>2. ASSUME NEW c \in Callers, Start(c)
      PROVE  BacklogOK'
  BY <1>2
  DEF BacklogOK, IInv, TypeOK, socketVars, Start
<1>3. ASSUME NEW c \in Callers, AcceptFails(c)
      PROVE  BacklogOK'
  BY <1>3
  DEF BacklogOK, IInv, TypeOK, helperVars, AcceptFails, Backlog, Reset
<1>4. ASSUME NEW c \in Callers, Greet(c)
      PROVE  BacklogOK'
  BY <1>4, CallersAssumption
  DEF CallersOK, BacklogOK, IInv, TypeOK, helperVars, Greet, Readable
<1>5. ASSUME NEW c \in Callers, Ask(c)
      PROVE  BacklogOK'
  BY <1>5
  DEF BacklogOK, IInv, TypeOK, helperVars, Ask, MayAsk
<1>6. ASSUME NEW c \in Callers, Answered(c)
      PROVE  BacklogOK'
  BY <1>6
  DEF CallersOK, BacklogOK, IInv, TypeOK, helperVars, Answered, Readable
<1>7. ASSUME NEW c \in Callers, TransferFails(c)
      PROVE  BacklogOK'
  BY <1>7
  DEF BacklogOK, IInv, TypeOK, helperVars, socketVars, TransferFails, Stop,
      Unusable, MayAsk
<1>8. ASSUME NEW c \in Callers, Leave(c)
      PROVE  BacklogOK'
  BY <1>8
  DEF BacklogOK, IInv, TypeOK, helperVars, socketVars, Leave
<1>9. ASSUME NEW c \in Callers, CloseAsks(c)
      PROVE  BacklogOK'
  BY <1>9
  DEF BacklogOK, IInv, TypeOK, helperVars, CloseAsks
<1>10. ASSUME NEW c \in Callers, CloseHangsUp(c)
      PROVE  BacklogOK'
  <2>. SUFFICES ASSUME NEW g \in Helpers, (read[g] > 0)'
                PROVE  (link[g] # NoCaller /\ (eof[g] \/ conn[link[g]] = g))'
    BY DEF BacklogOK
  <2>1. read[g] > 0 /\ link' = link /\ conn' = [conn EXCEPT ![c] = NoHelper]
    BY <1>10 DEF CloseHangsUp, HangUp, helperVars
  <2>2. eof'[g] <=> (g = conn[c] \/ eof[g])
    BY <1>10 DEF CloseHangsUp, HangUp, Reset
  <2>3. QED
    BY <1>10, <2>1, <2>2
    DEF IInv, TypeOK, BacklogOK
<1>11. ASSUME NEW c \in Callers, Reaped(c)
      PROVE  BacklogOK'
  BY <1>11
  DEF BacklogOK, IInv, TypeOK, helperVars, socketVars, Reaped
<1>12. ASSUME NEW c \in Callers, Kill(c)
      PROVE  BacklogOK'
  BY <1>12
  DEF BacklogOK, IInv, TypeOK, helperVars, socketVars, Kill, Killed
<1>13. ASSUME NEW c \in Callers, NEW h \in Helpers, Accept(c, h)
      PROVE  BacklogOK'
  BY <1>13, SMTT(20)
  DEF CallersOK, BacklogOK, IInv, TypeOK, Helpers, NoHelper, HStates,
      helperVars, Accept, Backlog, Reset
<1>14. ASSUME NEW h \in Helpers, Connect(h)
      PROVE  BacklogOK'
  BY <1>14
  DEF SocketOK, BacklogOK, IInv, TypeOK, clientVars, socketVars, Connect
<1>15. ASSUME NEW h \in Helpers, NobodyListens(h)
      PROVE  BacklogOK'
  BY <1>15
  DEF BacklogOK, IInv, TypeOK, clientVars, socketVars, NobodyListens
<1>16. ASSUME NEW h \in Helpers, Take(h)
      PROVE  BacklogOK'
  BY <1>16
  DEF BacklogOK, IInv, TypeOK, clientVars, Take
<1>17. ASSUME NEW h \in Helpers, LoopEnds(h)
      PROVE  BacklogOK'
  BY <1>17
  DEF BacklogOK, IInv, TypeOK, clientVars, socketVars, LoopEnds
<1>18. ASSUME NEW h \in Helpers, Exits(h)
      PROVE  BacklogOK'
  BY <1>18
  DEF BacklogOK, IInv, TypeOK, clientVars, socketVars, Exits, Serving
<1>19. ASSUME NEW h \in Helpers, WatcherExits(h)
      PROVE  BacklogOK'
  BY <1>19
  DEF BacklogOK, IInv, TypeOK, clientVars, socketVars, WatcherExits, Watched,
      Serving
<1>20. ASSUME NEW h \in Helpers, NEW ok \in BOOLEAN, Initialize(h, ok)
      PROVE  BacklogOK'
  BY <1>20
  DEF BacklogOK, IInv, TypeOK, clientVars, Initialize
<1>21. ASSUME NEW h \in Helpers, NEW ok \in BOOLEAN, Return(h, ok)
      PROVE  BacklogOK'
  BY <1>21
  DEF BacklogOK, IInv, TypeOK, clientVars, Return, ClosingCall
<1>22. CASE UNCHANGED vars
  BY <1>22
  DEF vars, clientVars, helperVars, socketVars, SocketOK, CallersOK, BacklogOK,
      IInv, TypeOK, Helpers, NoHelper, CStates, HStates
<1>23. QED
  BY <1>1, <1>2, <1>3, <1>4, <1>5, <1>6, <1>7, <1>8, <1>9, <1>10, <1>11, <1>12,
      <1>13, <1>14, <1>15, <1>16, <1>17, <1>18, <1>19, <1>20, <1>21, <1>22
  DEF Next, CallerStep, HelperStep

\* Every step keeps jobs with helpers whose pid is known, or that were killed.
LEMMA JobsStep ==
  ASSUME IInv, [Next]_vars
  PROVE  JobsOK'
<1>1. ASSUME DaemonDies
      PROVE  JobsOK'
  BY <1>1
  DEF JobsOK, Given, IInv, TypeOK, clientVars, helperVars, DaemonDies, Reset
<1>2. ASSUME NEW c \in Callers, Start(c)
      PROVE  JobsOK'
  BY <1>2
  DEF SocketOK, JobsOK, Given, IInv, TypeOK, socketVars, Start
<1>3. ASSUME NEW c \in Callers, AcceptFails(c)
      PROVE  JobsOK'
  BY <1>3
  DEF SocketOK, CallersOK, JobsOK, Given, IInv, TypeOK, helperVars, AcceptFails,
      Backlog, Reset
<1>4. ASSUME NEW c \in Callers, Greet(c)
      PROVE  JobsOK'
  BY <1>4
  DEF CallersOK, JobsOK, Given, IInv, TypeOK, Helpers, NoHelper, helperVars,
      Greet, Readable
<1>5. ASSUME NEW c \in Callers, Ask(c)
      PROVE  JobsOK'
  BY <1>5, CallersAssumption
  DEF SocketOK, CallersOK, JobsOK, Given, IInv, TypeOK, helperVars, Ask, MayAsk
<1>6. ASSUME NEW c \in Callers, Answered(c)
      PROVE  JobsOK'
  BY <1>6
  DEF SocketOK, CallersOK, JobsOK, Given, IInv, TypeOK, helperVars, Answered,
      Readable
<1>7. ASSUME NEW c \in Callers, TransferFails(c)
      PROVE  JobsOK'
  BY <1>7
  DEF SocketOK, CallersOK, JobsOK, Given, IInv, TypeOK, helperVars, socketVars,
      TransferFails, Stop, Unusable, MayAsk
<1>8. ASSUME NEW c \in Callers, Leave(c)
      PROVE  JobsOK'
  BY <1>8, CallersAssumption
  DEF CallersOK, JobsOK, Given, IInv, TypeOK, helperVars, socketVars, Leave
<1>9. ASSUME NEW c \in Callers, CloseAsks(c)
      PROVE  JobsOK'
  BY <1>9, CallersAssumption
  DEF SocketOK, CallersOK, JobsOK, Given, IInv, TypeOK, helperVars, CloseAsks
<1>10. ASSUME NEW c \in Callers, CloseHangsUp(c)
      PROVE  JobsOK'
  BY <1>10
  DEF CallersOK, JobsOK, Given, IInv, TypeOK, helperVars, CloseHangsUp, HangUp,
      Reset
<1>11. ASSUME NEW c \in Callers, Reaped(c)
      PROVE  JobsOK'
  BY <1>11, CallersAssumption
  DEF SocketOK, JobsOK, Given, IInv, TypeOK, helperVars, socketVars, Reaped
<1>12. ASSUME NEW c \in Callers, Kill(c)
      PROVE  JobsOK'
  BY <1>12
  DEF SocketOK, CallersOK, JobsOK, Given, IInv, TypeOK, helperVars, socketVars, Kill,
     Killed
<1>13. ASSUME NEW c \in Callers, NEW h \in Helpers, Accept(c, h)
      PROVE  JobsOK'
  BY <1>13
  DEF JobsOK, Given, IInv, TypeOK, helperVars, Accept, Backlog, Reset
<1>14. ASSUME NEW h \in Helpers, Connect(h)
      PROVE  JobsOK'
  BY <1>14
  DEF SocketOK, JobsOK, Given, IInv, TypeOK, clientVars, socketVars, Connect
<1>15. ASSUME NEW h \in Helpers, NobodyListens(h)
      PROVE  JobsOK'
  BY <1>15
  DEF JobsOK, Given, IInv, TypeOK, clientVars, socketVars, NobodyListens
<1>16. ASSUME NEW h \in Helpers, Take(h)
      PROVE  JobsOK'
  BY <1>16
  DEF JobsOK, Given, IInv, TypeOK, clientVars, Take
<1>17. ASSUME NEW h \in Helpers, LoopEnds(h)
      PROVE  JobsOK'
  BY <1>17
  DEF JobsOK, Given, IInv, TypeOK, clientVars, socketVars, LoopEnds
<1>18. ASSUME NEW h \in Helpers, Exits(h)
      PROVE  JobsOK'
  BY <1>18
  DEF JobsOK, Given, IInv, TypeOK, clientVars, socketVars, Exits, Serving
<1>19. ASSUME NEW h \in Helpers, WatcherExits(h)
      PROVE  JobsOK'
  BY <1>19
  DEF SocketOK, JobsOK, Given, IInv, TypeOK, clientVars, socketVars,
      WatcherExits, Watched, Serving
<1>20. ASSUME NEW h \in Helpers, NEW ok \in BOOLEAN, Initialize(h, ok)
      PROVE  JobsOK'
  BY <1>20
  DEF JobsOK, Given, IInv, TypeOK, clientVars, Initialize
<1>21. ASSUME NEW h \in Helpers, NEW ok \in BOOLEAN, Return(h, ok)
      PROVE  JobsOK'
  BY <1>21
  DEF JobsOK, Given, IInv, TypeOK, clientVars, Return, ClosingCall
<1>22. CASE UNCHANGED vars
  BY <1>22
  DEF vars, clientVars, helperVars, socketVars, SocketOK, CallersOK, BacklogOK,
      JobsOK, Given, IInv, TypeOK, Helpers, NoHelper, CStates, HStates
<1>23. QED
  BY <1>1, <1>2, <1>3, <1>4, <1>5, <1>6, <1>7, <1>8, <1>9, <1>10, <1>11, <1>12,
      <1>13, <1>14, <1>15, <1>16, <1>17, <1>18, <1>19, <1>20, <1>21, <1>22
  DEF Next, CallerStep, HelperStep

\* Every step leaves a caller with the reply to its last request.
LEMMA AnswerStep ==
  ASSUME IInv, [Next]_vars
  PROVE  AnswerIsOwn'
<1>1. ASSUME DaemonDies
      PROVE  AnswerIsOwn'
  BY <1>1
  DEF AnswerIsOwn, IInv, TypeOK, clientVars, helperVars, DaemonDies, Reset
<1>2. ASSUME NEW c \in Callers, Start(c)
      PROVE  AnswerIsOwn'
  BY <1>2
  DEF AnswerIsOwn, IInv, TypeOK, socketVars, Start
<1>3. ASSUME NEW c \in Callers, AcceptFails(c)
      PROVE  AnswerIsOwn'
  BY <1>3
  DEF CallersOK, AnswerIsOwn, IInv, TypeOK, helperVars, AcceptFails, Backlog,
      Reset
<1>4. ASSUME NEW c \in Callers, Greet(c)
      PROVE  AnswerIsOwn'
  BY <1>4
  DEF SocketOK, CallersOK, AnswerIsOwn, IInv, TypeOK, helperVars, Greet,
      Readable
<1>5. ASSUME NEW c \in Callers, Ask(c)
      PROVE  AnswerIsOwn'
  BY <1>5
  DEF CallersOK, AnswerIsOwn, IInv, TypeOK, helperVars, Ask, MayAsk
<1>6. ASSUME NEW c \in Callers, Answered(c)
      PROVE  AnswerIsOwn'
  BY <1>6
  DEF CallersOK, AnswerIsOwn, IInv, TypeOK, helperVars, Answered, Readable
<1>7. ASSUME NEW c \in Callers, TransferFails(c)
      PROVE  AnswerIsOwn'
  BY <1>7
  DEF AnswerIsOwn, IInv, TypeOK, helperVars, socketVars, TransferFails, Stop,
      Unusable, MayAsk
<1>8. ASSUME NEW c \in Callers, Leave(c)
      PROVE  AnswerIsOwn'
  BY <1>8
  DEF AnswerIsOwn, IInv, TypeOK, helperVars, socketVars, Leave
<1>9. ASSUME NEW c \in Callers, CloseAsks(c)
      PROVE  AnswerIsOwn'
  BY <1>9
  DEF CallersOK, AnswerIsOwn, IInv, TypeOK, helperVars, CloseAsks
<1>10. ASSUME NEW c \in Callers, CloseHangsUp(c)
      PROVE  AnswerIsOwn'
  BY <1>10
  DEF AnswerIsOwn, IInv, TypeOK, helperVars, CloseHangsUp, HangUp, Reset
<1>11. ASSUME NEW c \in Callers, Reaped(c)
      PROVE  AnswerIsOwn'
  BY <1>11
  DEF AnswerIsOwn, IInv, TypeOK, helperVars, socketVars, Reaped
<1>12. ASSUME NEW c \in Callers, Kill(c)
      PROVE  AnswerIsOwn'
  BY <1>12
  DEF AnswerIsOwn, IInv, TypeOK, helperVars, socketVars, Kill, Killed
<1>13. ASSUME NEW c \in Callers, NEW h \in Helpers, Accept(c, h)
      PROVE  AnswerIsOwn'
  BY <1>13
  DEF AnswerIsOwn, IInv, TypeOK, helperVars, Accept, Backlog, Reset
<1>14. ASSUME NEW h \in Helpers, Connect(h)
      PROVE  AnswerIsOwn'
  BY <1>14
  DEF AnswerIsOwn, IInv, TypeOK, clientVars, socketVars, Connect
<1>15. ASSUME NEW h \in Helpers, NobodyListens(h)
      PROVE  AnswerIsOwn'
  BY <1>15
  DEF AnswerIsOwn, IInv, TypeOK, clientVars, socketVars, NobodyListens
<1>16. ASSUME NEW h \in Helpers, Take(h)
      PROVE  AnswerIsOwn'
  BY <1>16
  DEF AnswerIsOwn, IInv, TypeOK, clientVars, Take
<1>17. ASSUME NEW h \in Helpers, LoopEnds(h)
      PROVE  AnswerIsOwn'
  BY <1>17
  DEF AnswerIsOwn, IInv, TypeOK, clientVars, socketVars, LoopEnds
<1>18. ASSUME NEW h \in Helpers, Exits(h)
      PROVE  AnswerIsOwn'
  BY <1>18
  DEF AnswerIsOwn, IInv, TypeOK, clientVars, socketVars, Exits, Serving
<1>19. ASSUME NEW h \in Helpers, WatcherExits(h)
      PROVE  AnswerIsOwn'
  BY <1>19
  DEF AnswerIsOwn, IInv, TypeOK, clientVars, socketVars, WatcherExits, Watched,
      Serving
<1>20. ASSUME NEW h \in Helpers, NEW ok \in BOOLEAN, Initialize(h, ok)
      PROVE  AnswerIsOwn'
  BY <1>20
  DEF AnswerIsOwn, IInv, TypeOK, clientVars, Initialize
<1>21. ASSUME NEW h \in Helpers, NEW ok \in BOOLEAN, Return(h, ok)
      PROVE  AnswerIsOwn'
  BY <1>21
  DEF AnswerIsOwn, IInv, TypeOK, clientVars, Return, ClosingCall
<1>22. CASE UNCHANGED vars
  BY <1>22
  DEF vars, clientVars, helperVars, socketVars, SocketOK, CallersOK, AnswerIsOwn,
      IInv, TypeOK, Helpers, NoHelper, CStates, HStates
<1>23. QED
  BY <1>1, <1>2, <1>3, <1>4, <1>5, <1>6, <1>7, <1>8, <1>9, <1>10, <1>11, <1>12,
      <1>13, <1>14, <1>15, <1>16, <1>17, <1>18, <1>19, <1>20, <1>21, <1>22
  DEF Next, CallerStep, HelperStep

\* The invariant holds of every behaviour (install_service.c, install_helper.c).
THEOREM ServiceInductive == Spec => []IInv
<1>1. Init => IInv
  <2>1. Init => TypeOK
    BY BoundsAssumption DEF Init, TypeOK, Helpers, NoHelper, CStates, HStates
  <2>2. Init => SocketOK /\ CallersOK /\ BacklogOK /\ JobsOK /\ AnswerIsOwn
    BY CallersAssumption, BoundsAssumption
    DEF Init, SocketOK, CallersOK, BacklogOK, JobsOK, AnswerIsOwn, Given,
        Helpers, NoHelper
  <2>3. QED
    BY <2>1, <2>2 DEF IInv
<1>2. IInv /\ [Next]_vars => IInv'
  BY TypeStep, SocketStep, CallersStep, BacklogStep, JobsStep, AnswerStep DEF IInv
<1>3. QED
  BY <1>1, <1>2, PTL DEF Spec

\* Every variable keeps its type.
THEOREM ServiceTypes == Spec => []TypeOK
<1>1. IInv => TypeOK
  BY DEF IInv
<1>2. QED
  BY <1>1, ServiceInductive, PTL

\* The reply a caller took is that of its last request: no reply that came
\* after a timeout is ever read (receive_response, install_service.c:14).
THEOREM NoStaleReply == Spec => []AnswerIsOwn
<1>1. IInv => AnswerIsOwn
  BY DEF IInv
<1>2. QED
  BY <1>1, ServiceInductive, PTL

\* No request lies unread while a helper is in a native call, so its watcher
\* sees the end of the socket (watch_parent, install_helper.c:53).
THEOREM WatcherAlwaysSees == Spec => []WatcherSees
<1>1. IInv => WatcherSees
  <2>. SUFFICES ASSUME IInv, NEW h \in Helpers, hst[h] = "native"
                PROVE  taken[h] = sent[h]
    BY DEF WatcherSees
  <2>1. taken[h] \in Nat /\ sent[h] \in Nat /\ read[h] \in Nat /\ replied[h] \in Nat
    BY DEF IInv, TypeOK
  <2>2. QED
    BY <2>1 DEF IInv, SocketOK
<1>2. QED
  BY <1>1, ServiceInductive, PTL

\* Of the live helpers that were given jobs of one caller, at most one has not
\* been killed: install_service_close (install_service.c:127) forgets a process
\* only when it has seen it dead or has sent it SIGKILL.
THEOREM OneHelperPerCaller == Spec => []JobsDoNotOverlap
<1>1. IInv => JobsDoNotOverlap
  BY DEF IInv, JobsOK, JobsDoNotOverlap, Given
<1>2. QED
  BY <1>1, ServiceInductive, PTL
=============================================================================
