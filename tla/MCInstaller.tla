----------------------------- MODULE MCInstaller ------------------------------
(* Constants of the model-checked instances of Installer. *)
EXTENDS Installer, TLC

\* The web server's threads are interchangeable.
Symmetry == Permutations(Starters)
=============================================================================
