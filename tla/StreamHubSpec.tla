--------------------------- MODULE StreamHubSpec ---------------------------
(***************************************************************************)
(* What a stream hub promises (spec 4.1), independent of queues and        *)
(* threads. Items are numbered by publication. Every subscriber has a      *)
(* stream of the items meant for it; a publication extends the stream of   *)
(* every subscriber it keeps, and may drop any subscriber from the active  *)
(* set for good (an unresponsive one), which then never receives again.    *)
(***************************************************************************)
EXTENDS Naturals, Sequences

CONSTANT Clients

VARIABLES
    joined,     \* subscribers that ever opened a stream
    active,     \* subscribers a publication still delivers to
    stream,     \* stream[c]: the items delivered to or on their way to c
    published   \* number of items published so far

avars == <<joined, active, stream, published>>

Init ==
    /\ joined = {}
    /\ active = {}
    /\ stream = [c \in Clients |-> <<>>]
    /\ published = 0

Subscribe(c) ==
    /\ c \notin joined
    /\ joined' = joined \cup {c}
    /\ active' = active \cup {c}
    /\ UNCHANGED <<stream, published>>

\* Publication never waits for a subscriber: the ones it keeps get the item,
\* the others are gone from the active set.
Publish ==
    \E keep \in SUBSET active :
        /\ active' = keep
        /\ stream' = [c \in Clients |->
                        IF c \in keep THEN Append(stream[c], published + 1)
                                      ELSE stream[c]]
        /\ published' = published + 1
        /\ UNCHANGED joined

\* Closing a stream, whether or not it is still active.
Leave(c) ==
    /\ c \in joined
    /\ active' = active \ {c}
    /\ UNCHANGED <<joined, stream, published>>

Next == \/ \E c \in Clients : Subscribe(c) \/ Leave(c)
        \/ Publish

Spec == Init /\ [][Next]_avars
=============================================================================
