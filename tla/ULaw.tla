-------------------------------- MODULE ULaw --------------------------------
(***************************************************************************)
(* pcm16_to_ulaw of uac/gen_rtp_pcap.py, the encoder the RTP pcap          *)
(* generator applies to every 16-bit PCM sample of its 440 Hz tone, and    *)
(* the G.711 mu-law decoding table its output is meant for. The variable   *)
(* is the sample handed to the encoder; the check enumerates them all.     *)
(***************************************************************************)
EXTENDS Integers, Bitwise

CONSTANT Samples    \* the PCM samples fed to the encoder

VARIABLE sample

BIAS == 132         \* 0x84
CLIP == 32635

Magnitude(x) == IF x < 0 THEN -x ELSE x

\* max(-CLIP, min(CLIP, int(sample)))
Clamp(x) == IF x > CLIP THEN CLIP ELSE IF x < -CLIP THEN -CLIP ELSE x

\* The for loop over exp = 7, 6, ..., 0 that breaks at the first exp with
\* sample >= 1 << (exp + 4); without a break exp is left at 0.
RECURSIVE SegmentOf(_, _)
SegmentOf(biased, exp) ==
    IF exp = 0 \/ biased >= 2^(exp + 4) THEN exp
    ELSE SegmentOf(biased, exp - 1)

\* pcm16_to_ulaw: sign bit, 3-bit segment, 4-bit mantissa, all inverted
\* ((~v) & 0xFF of a byte v is v XOR 0xFF).
Pcm16ToUlaw(x) ==
    LET s        == Clamp(x)
        sign     == IF s < 0 THEN 128 ELSE 0
        biased   == Magnitude(s) + BIAS
        exp      == SegmentOf(biased, 7)
        mantissa == shiftR(biased, exp + 3) & 15
    IN  (sign | (exp * 16) | mantissa) ^^ 255

(* The G.711 mu-law decoding table (ITU-T G.711, as in the reference     *)
(* decoder ulaw2linear): the code word u, inverted, is a sign bit, a     *)
(* segment e and a step m; it stands for the magnitude                    *)
(* ((m * 8 + BIAS) << e) - BIAS, the middle of a step 2^(e+3) wide.       *)
Negative(u)  == (u ^^ 255) >= 128
Segment(u)   == shiftR(u ^^ 255, 4) & 7
Step(u)      == (u ^^ 255) & 15
Decoded(u)   == (Step(u) * 8 + BIAS) * 2^Segment(u) - BIAS
HalfStep(u)  == 2^(Segment(u) + 2)

Init == sample \in Samples

Next == UNCHANGED sample

Spec == Init /\ [][Next]_sample

\* The docstring of pcm16_to_ulaw promises 8-bit G.711 mu-law: decoding the
\* byte it returns by the G.711 table gives back the sample's sign and its
\* magnitude to within half a quantisation step, for every sample inside the
\* clipping range.
EncodesG711 ==
    LET u == Pcm16ToUlaw(sample)
    IN  Magnitude(sample) <= CLIP =>
            /\ sample # 0 => (Negative(u) <=> sample < 0)
            /\ Magnitude(Decoded(u) - Magnitude(sample)) <= HalfStep(u)
=============================================================================
