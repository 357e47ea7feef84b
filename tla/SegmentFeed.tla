------------------------------ MODULE SegmentFeed ------------------------------
(***************************************************************************)
(* What the live session of src/src/ws_stream.h promises its callers, with *)
(* no cache, no slots and no waiting: one upload session at a time; a      *)
(* reader belongs to the session it opened; what a read returns is exactly *)
(* the bytes uploaded in that session for each segment of its range; reads *)
(* succeed only while the session is live; a new session starts only when  *)
(* every reader of the previous one is gone; "complete" means that every   *)
(* segment has landed.                                                     *)
(***************************************************************************)
EXTENDS Integers

CONSTANTS Readers, Segs, NoOut

VARIABLES
  gen,       \* the current or last session
  phase,     \* "none", "live" or "aborted"
  landed,    \* segments uploaded in the session
  complete,
  src,       \* session each reader has open, 0 for none
  out        \* what each reader's last read returned

feedVars == <<gen, phase, landed, complete, src, out>>

Init ==
  /\ gen = 0
  /\ phase = "none"
  /\ landed = {}
  /\ complete = FALSE
  /\ src = [r \in Readers |-> 0]
  /\ out = [r \in Readers |-> NoOut]

Begin ==
  /\ phase = "none"
  /\ \A r \in Readers : src[r] = 0
  /\ gen' = gen + 1
  /\ phase' = "live"
  /\ landed' = {}
  /\ complete' = FALSE
  /\ UNCHANGED <<src, out>>

Land(s) ==
  /\ phase = "live"
  /\ landed' = landed \cup {s}
  /\ UNCHANGED <<gen, phase, complete, src, out>>

MarkComplete ==
  /\ phase = "live"
  /\ landed = Segs
  /\ complete' = TRUE
  /\ UNCHANGED <<gen, phase, landed, src, out>>

AbortFeed ==
  /\ phase = "live"
  /\ phase' = "aborted"
  /\ UNCHANGED <<gen, landed, complete, src, out>>

End ==
  /\ phase # "none"
  /\ phase' = "none"
  /\ landed' = {}
  /\ complete' = FALSE
  /\ UNCHANGED <<gen, src, out>>

Open(r) ==
  /\ phase # "none"
  /\ src[r] = 0
  /\ src' = [src EXCEPT ![r] = gen]
  /\ UNCHANGED <<gen, phase, landed, complete, out>>

Read(r, segs) ==
  /\ phase = "live"
  /\ src[r] = gen
  /\ segs \subseteq landed
  /\ out' = [out EXCEPT ![r] = [s \in segs |-> <<gen, s>>]]
  /\ UNCHANGED <<gen, phase, landed, complete, src>>

\* The next read of r waits or fails.
Discard(r) ==
  /\ out' = [out EXCEPT ![r] = NoOut]
  /\ UNCHANGED <<gen, phase, landed, complete, src>>

CloseReader(r) ==
  /\ src[r] # 0
  /\ src' = [src EXCEPT ![r] = 0]
  /\ out' = [out EXCEPT ![r] = NoOut]
  /\ UNCHANGED <<gen, phase, landed, complete>>

Next ==
  \/ Begin \/ MarkComplete \/ AbortFeed \/ End
  \/ \E s \in Segs : Land(s)
  \/ \E r \in Readers :
       Open(r) \/ Discard(r) \/ CloseReader(r) \/ \E segs \in SUBSET Segs : Read(r, segs)

Spec == Init /\ [][Next]_feedVars
=============================================================================
