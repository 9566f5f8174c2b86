------------------------------- MODULE MC_ULaw -------------------------------
EXTENDS ULaw

\* Every 16-bit signed PCM sample.
MC_Samples == -32768..32767
=============================================================================
