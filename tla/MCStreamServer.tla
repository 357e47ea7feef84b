---------------------------- MODULE MCStreamServer ----------------------------
(* Constants of the model-checked instances of StreamServer. *)
EXTENDS StreamServer, TLC

\* The connections are interchangeable; the runs have one canceller.
Symmetry == Permutations(Conns)
=============================================================================
