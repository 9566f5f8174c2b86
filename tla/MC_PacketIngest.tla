--------------------------- MODULE MC_PacketIngest ---------------------------
EXTENDS PacketIngest

\* A timestamp in seconds, one whose int() overflows (1e400), and a
\* record that is not JSON.
MC_PacketTs == {[kind |-> "number", n |-> 5, d |-> 1],
                [kind |-> "inf", n |-> 0, d |-> 1], Garbled}
=============================================================================
