----------------------------- MODULE MCLiveStream -----------------------------
(* Constants of the model-checked instances of LiveStream. *)
EXTENDS LiveStream, TLC

\* The header, and a read of two segments.
EvictionRequests == {<<0, 1>>, <<1, 3>>}

\* SEG = 2: reads that start or end inside a segment.
SessionRequests == {<<0, 1>>, <<1, 4>>}

HeaderRequest == {<<0, 1>>}

Symmetry == Permutations(Readers) \cup Permutations(Slots)
=============================================================================
