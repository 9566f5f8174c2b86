\* pcm16_to_ulaw against the G.711 decoding table, over all 16-bit samples.
CONSTANT Samples <- MC_Samples
SPECIFICATION Spec
INVARIANT EncodesG711
