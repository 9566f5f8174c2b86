------------------------ MODULE MC_CommandCorrelator ------------------------
(* Model values and bounds for checking CommandCorrelator with TLC.        *)
EXTENDS CommandCorrelator, TLC

CONSTANTS r1, r2, rx, s1

MC_Reqs == {r1, r2}
MC_Foreign == rx

\* One request suffices for the liveness run: both properties are about one
\* handler thread or the consumer thread at a time.
MC_OneReq == {r1}

\* One /api/stream/responses request.
MC_RespClients == {s1}

\* Request ids are interchangeable: sound only for the safety runs.
MC_Symmetry == Permutations(MC_Reqs)
=============================================================================
