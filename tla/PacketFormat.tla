---------------------------- MODULE PacketFormat ----------------------------
(***************************************************************************)
(* The pure part of _handle_packet (console/app.py): _parse_packet_headers *)
(* splitting the Kafka headers into labels and envelope, the merge of the  *)
(* header labels into the body's label map, and the timestamp              *)
(* normalisation, each against the reading of spec section 4.4 that it is *)
(* meant to implement.                                                     *)
(*                                                                         *)
(* A header key is a sequence of characters, so that k.startswith("l.")    *)
(* and k[2:] are what they are in Python. Header values and label values   *)
(* are opaque tokens: no property depends on their text, so the UTF-8      *)
(* decode is left out. A timestamp is a record saying what kind of JSON    *)
(* value the node sent; a number is n / d with d in {1, 10}, which gives   *)
(* the integers and the floats with one decimal.                           *)
(***************************************************************************)
EXTENDS Integers, SequencesExt

CONSTANTS
    HeaderLists,    \* the msg.headers lists checked: sequences of <<key, value>>
    BodyLabels,     \* the "labels" maps a packet body may carry
    TsInputs,       \* the "timestamp" values a packet body may carry
    Threshold,      \* 100_000_000_000 in the code
    Now,            \* int(time.time() * 1000) when the packet is handled
    Raises          \* what the caller sees when the handler raises: the
                    \* exception reaches _consumer_loop, which logs it and
                    \* drops the packet

VARIABLES hs, blabels, ts

vars == <<hs, blabels, ts>>

LabelPrefix == <<"l", ".">>

\* Mutant: the label test checks only the first character.
IsLabelKey_NoDot(k) == Len(k) >= 1 /\ k[1] = "l"

\* k.startswith("l.")
IsLabelKey(k) == IsPrefix(LabelPrefix, k)

\* k[2:]
StripPrefix(k) == SubSeq(k, 3, Len(k))

\* {k: v for k, v in msg.headers}: a later header with the same key
\* overwrites an earlier one.
HeaderDict(h) == FoldLeft(LAMBDA d, kv : (kv[1] :> kv[2]) @@ d, <<>>, h)

\* _parse_packet_headers, with the {} of a message without headers read as
\* the empty envelope and label map that _handle_packet's .get()s give it.
ParseHeaders(h) ==
    IF h = <<>> THEN [envelope |-> <<>>, labels |-> <<>>]
    ELSE LET d  == HeaderDict(h)
             lk == {k \in DOMAIN d : IsLabelKey(k)}
         IN  [labels   |-> [s \in {StripPrefix(k) : k \in lk} |->
                               d[CHOOSE k \in lk : StripPrefix(k) = s]],
              envelope |-> [k \in DOMAIN d \ lk |-> d[k]]]

\* packet.setdefault("labels", {}).update(extra["_header_labels"]) when
\* there are header labels: a header label overrides a body label.
MergeLabels(body, h) ==
    LET extra == ParseHeaders(h)
    IN  IF DOMAIN extra.labels # {} THEN extra.labels @@ body ELSE body

\* int(x) of a float truncates toward zero.
Trunc(n, d) == IF n >= 0 THEN n \div d ELSE -((-n) \div d)

\* The heuristic "< 10^11 => value is in seconds".
InSeconds(v) == v < Threshold

\* The timestamp block of _handle_packet. int(float(str(x))) parses a
\* number or a numeric string and truncates; str() of a bool, list or dict
\* and a non-numeric string make float() raise ValueError, int(nan) raises
\* ValueError: all of these fall back to _received_at. int() of an infinity
\* ("inf", "1e400", a JSON 1e400) raises OverflowError, which the except
\* clause does not name.
NormalizeTs(t, now) ==
    CASE t.kind = "absent" -> now
      [] t.kind \in {"number", "string"} ->
            IF InSeconds(Trunc(t.n, t.d)) THEN Trunc(t.n, t.d) * 1000
            ELSE Trunc(t.n, t.d)
      [] t.kind \in {"text", "nan", "other"} -> now
      [] t.kind = "inf" -> Raises

Init ==
    /\ hs \in HeaderLists
    /\ blabels \in BodyLabels
    /\ ts \in TsInputs

\* The inputs are fixed; each state is one message handed to the handler.
Next == UNCHANGED vars

Spec == Init /\ [][Next]_vars

-----------------------------------------------------------------------------
(* Reference definitions, from spec section 4.4 and the scenario of        *)
(* section 8 (l.sip.method=INVITE becomes the label sip.method).           *)

\* The value of the last header whose key is k.
LastValue(k) == hs[SelectLastInSeq(hs, LAMBDA kv : kv[1] = k)][2]

SentKeys == {hs[i][1] : i \in 1..Len(hs)}

\* The label names: the keys sent as "l." followed by the name.
LabelNames == {s \in {SubSeq(k, 3, Len(k)) : k \in SentKeys} :
                  LabelPrefix \o s \in SentKeys}

\* The spec's integer milliseconds: a value n / d "below magnitude" the
\* threshold is seconds, scaled by 1000 and then made whole.
SpecTs(t, now) ==
    IF t.kind \in {"number", "string"}
    THEN IF -Threshold * t.d < t.n /\ t.n < Threshold * t.d
         THEN Trunc(t.n * 1000, t.d)
         ELSE Trunc(t.n, t.d)
    ELSE now

\* Header labels (prefix "l.") go into the label map with the prefix
\* stripped, overriding body labels, and never into _envelope; every other
\* header is kept in _envelope; of repeated headers the last one counts.
HeadersSplitAsSpecified ==
    LET extra == ParseHeaders(hs)
    IN  /\ DOMAIN extra.envelope = {k \in SentKeys : ~IsPrefix(LabelPrefix, k)}
        /\ \A k \in DOMAIN extra.envelope : extra.envelope[k] = LastValue(k)
        /\ MergeLabels(blabels, hs) =
              [s \in LabelNames \cup DOMAIN blabels |->
                  IF s \in LabelNames THEN LastValue(LabelPrefix \o s)
                  ELSE blabels[s]]

\* Spec 4.4 for every timestamp value: a value below magnitude 10^11 is
\* seconds and becomes milliseconds, fractions included, and a larger one,
\* positive or negative, is milliseconds; anything
\* unparseable falls back to the receipt time, so the normalisation never
\* raises and no packet is lost to its timestamp.
TimestampAsSpecified == NormalizeTs(ts, Now) = SpecTs(ts, Now)
=============================================================================
