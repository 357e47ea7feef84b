----------------------------- MODULE MCUploadLink -----------------------------
(* Values of UploadLink's constants for model checking. *)
EXTENDS UploadLink, TLC

\* A new upload, and one resumed with a gap after its prefix.
FreshOrResumed == {{}, {0, 2}}

=============================================================================
