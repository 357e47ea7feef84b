------------------------------ MODULE StreamLease ------------------------------
(***************************************************************************)
(* What the stream server of src/src/stream_server.c promises those who    *)
(* start and stop it: one stream is served at a time; a connection that    *)
(* uses it holds it, the same one from the first byte to the last; it is   *)
(* given up, and another one published, only when nobody holds it.         *)
(***************************************************************************)
CONSTANTS
  Users,     \* connections
  Sources,
  NoStream

VARIABLES
  current,   \* the stream served, or NoStream
  held       \* the stream each user holds, or NoStream

leaseVars == <<current, held>>

Free == \A u \in Users : held[u] = NoStream

Init ==
  /\ current = NoStream
  /\ held = [u \in Users |-> NoStream]

Publish(n) ==
  /\ current = NoStream /\ Free
  /\ current' = n
  /\ UNCHANGED held

Hold(u) ==
  /\ current # NoStream
  /\ held[u] = NoStream
  /\ held' = [held EXCEPT ![u] = current]
  /\ UNCHANGED current

LetGo(u) ==
  /\ held[u] # NoStream
  /\ held' = [held EXCEPT ![u] = NoStream]
  /\ UNCHANGED current

Retire ==
  /\ current # NoStream /\ Free
  /\ current' = NoStream
  /\ UNCHANGED held

Next ==
  \/ Retire
  \/ \E n \in Sources : Publish(n)
  \/ \E u \in Users : Hold(u) \/ LetGo(u)

Spec == Init /\ [][Next]_leaseVars
=============================================================================
