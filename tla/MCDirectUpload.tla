---------------------------- MODULE MCDirectUpload ----------------------------
EXTENDS DirectUpload, TLC

Symmetry == Permutations(Windows) \cup Permutations(Socks)
=============================================================================
