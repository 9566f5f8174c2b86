--------------------------- MODULE MC_StreamHub ---------------------------
(* Model values and bounds for checking StreamHub with TLC.                *)
EXTENDS StreamHub, TLC

CONSTANTS c1, c2, c3

MC_Clients == {c1, c2, c3}

\* Subscribers are interchangeable; the run checks safety only.
MC_Symmetry == Permutations(MC_Clients)
=============================================================================
