--------------------------- MODULE MCInstallService ---------------------------
(* InstallService for model checking: the values are in the configurations. *)
EXTENDS InstallService, TLC
=============================================================================
