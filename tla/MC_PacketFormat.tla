--------------------------- MODULE MC_PacketFormat ---------------------------
EXTENDS PacketFormat

\* Header keys: a label key, the label key with an empty name, a key that
\* starts with "l" but not "l.", and a plain envelope key.
MC_Keys == {<<"l", ".", "a">>, <<"l", ".">>, <<"l", "a">>, <<"a">>}
MC_Values == {"v1", "v2"}
MC_HeaderLists == BoundedSeq(MC_Keys \X MC_Values, 3)
MC_BodyLabels == {<<>>, <<"a">> :> "v0", <<>> :> "v0"}

\* A small threshold stands for 10^11 so that TLC's integers hold the
\* scaled values; the numbers checked run across and around it.
MC_Threshold == 10
MC_Now == 7777
Num(k, n, d) == [kind |-> k, n |-> n, d |-> d]
MC_TsInputs ==
    {Num(k, 0, 1) : k \in {"absent", "text", "nan", "other", "inf"}}
    \cup {Num(k, n, d) : k \in {"number", "string"}, n \in -250..250, d \in {1, 10}}
\* The header run does not look at the timestamp.
MC_NoTs == {Num("absent", 0, 1)}
MC_NoHeaders == {<<>>}
MC_NoLabels == {<<>>}
=============================================================================
