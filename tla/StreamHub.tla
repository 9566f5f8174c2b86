------------------------------ MODULE StreamHub ------------------------------
(***************************************************************************)
(* One Server-Sent-Events channel of the console (console/app.py): the     *)
(* subscriber list sse_subscribers[channel] guarded by sse_lock, the       *)
(* generator of each api_stream request, and the fan-out loop that         *)
(* _handle_packet runs for every packet. api_stream_responses and the      *)
(* fan-out of _handle_response are the same code with QCap = 100.          *)
(* Items are numbered by publication.                                      *)
(***************************************************************************)
EXTENDS Naturals, Sequences

CONSTANTS
    Clients,    \* stream requests (browsers)
    QCap,       \* maxsize of a subscriber queue (200 for packets)
    MaxPub      \* bound on the number of items published

ASSUME QCap \in Nat \ {0} /\ MaxPub \in Nat

VARIABLES
    subs,       \* the queues registered in sse_subscribers[channel]
    st,         \* st[c]: "idle" before the request, "streaming", "closed"
    q,          \* q[c]: the contents of c's sub_queue
    recv,       \* recv[c]: the items written to c's event stream
    pubs        \* number of items published

vars == <<subs, st, q, recv, pubs>>

TypeOK ==
    /\ subs \in SUBSET Clients
    /\ st \in [Clients -> {"idle", "streaming", "closed"}]
    /\ q \in [Clients -> Seq(1..MaxPub)]
    /\ \A c \in Clients : Len(q[c]) <= QCap
    /\ recv \in [Clients -> Seq(1..MaxPub)]
    /\ pubs \in 0..MaxPub

Init ==
    /\ subs = {}
    /\ st = [c \in Clients |-> "idle"]
    /\ q = [c \in Clients |-> <<>>]
    /\ recv = [c \in Clients |-> <<>>]
    /\ pubs = 0

\* api_stream: create a bounded queue and append it under sse_lock; the
\* generator starts streaming.
Subscribe(c) ==
    /\ st[c] = "idle"
    /\ subs' = subs \cup {c}
    /\ st' = [st EXCEPT ![c] = "streaming"]
    /\ UNCHANGED <<q, recv, pubs>>

\* sub_queue.get() returns an item and the generator yields "data: ...".
Yield(c) ==
    /\ st[c] = "streaming" /\ q[c] # <<>>
    /\ recv' = [recv EXCEPT ![c] = Append(@, Head(q[c]))]
    /\ q' = [q EXCEPT ![c] = Tail(@)]
    /\ UNCHANGED <<subs, st, pubs>>

\* get() times out after 15 s and the generator yields a heartbeat comment.
Heartbeat(c) ==
    /\ st[c] = "streaming" /\ q[c] = <<>>
    /\ UNCHANGED vars

\* The client has gone: GeneratorExit at the next yield, and the finally
\* clause removes the queue under sse_lock if it is still registered.
Close(c) ==
    /\ st[c] = "streaming"
    /\ subs' = IF c \in subs THEN subs \ {c} ELSE subs
    /\ st' = [st EXCEPT ![c] = "closed"]
    /\ UNCHANGED <<q, recv, pubs>>

\* Mutant: put_nowait on a queue created without maxsize never fails.
Full_Unbounded == {}

\* The subscribers whose queue is full when the next item is offered.
Full == {c \in subs : Len(q[c]) = QCap}

\* Mutant: the dead list is collected but never removed.
Survivors_KeepFull == subs

\* for dead in dead: subs.remove(dead)
Survivors == subs \ Full

\* The fan-out, under sse_lock: put_nowait to every registered queue, and
\* remove the ones that raised queue.Full.
Publish ==
    /\ pubs < MaxPub
    /\ q' = [c \in Clients |->
               IF c \in subs \ Full THEN Append(q[c], pubs + 1) ELSE q[c]]
    /\ subs' = Survivors
    /\ pubs' = pubs + 1
    /\ UNCHANGED <<st, recv>>

Next ==
    \/ \E c \in Clients : Subscribe(c) \/ Yield(c) \/ Heartbeat(c) \/ Close(c)
    \/ Publish

Spec == Init /\ [][Next]_vars

-----------------------------------------------------------------------------
(* Refinement: the hub implements StreamHubSpec. A subscriber's abstract   *)
(* stream is what it has been sent followed by what waits in its queue.    *)

Hub == INSTANCE StreamHubSpec WITH
           joined    <- {c \in Clients : st[c] # "idle"},
           active    <- subs,
           stream    <- [c \in Clients |-> recv[c] \o q[c]],
           published <- pubs

\* Every subscriber's event stream, together with its queue, is a gap-free
\* run of the items published since it subscribed, in publication order;
\* a publication never waits on a slow subscriber, and one that was skipped
\* is never delivered to again. Closing races the fan-out safely.
HubRefinesSpec == Hub!Spec
=============================================================================
