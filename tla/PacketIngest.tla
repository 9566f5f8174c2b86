---------------------------- MODULE PacketIngest ----------------------------
(***************************************************************************)
(* One data channel of the console (console/app.py): the packet consumer   *)
(* thread (_start_packet_consumer, _consumer_loop, _handle_packet) reading *)
(* otus-<channel>-logs with the group console-<channel>, the channel's     *)
(* subscriber list (a StreamHub instance), its ring buffer                 *)
(* packet_queues[channel] and the snapshot read api_packets. A packet      *)
(* keeps only its timestamp, the one field whose value changes the         *)
(* control flow of _handle_packet (PacketFormat says what the rest         *)
(* becomes). Packets are known by their publication number, as in          *)
(* StreamHub, and the ring buffer holds the same numbers.                  *)
(***************************************************************************)
EXTENDS Integers, Sequences

CONSTANTS
    Clients,    \* stream requests of the channel
    QCap,       \* maxsize of a subscriber queue (200)
    MaxPub,     \* bound on fan-outs, at least MaxLog * (MaxFaults + 1)
    Cap,        \* MAX_QUEUE_SIZE of the ring buffer (500)
    SnapMax,    \* packets returned by api_packets (200), at most Cap
    PacketTs,   \* the timestamps a node may write
    MaxLog,     \* bound on the length of the data topic
    MaxFaults,  \* bound on connection faults of the consumer
    Garbled,    \* a record whose value is not UTF-8 JSON
    Threshold, Now, Raises

ASSUME /\ Cap \in Nat \ {0} /\ SnapMax \in 1..Cap
       /\ MaxLog \in Nat /\ MaxFaults \in Nat
       /\ MaxPub >= MaxLog * (MaxFaults + 1)

NoOffset == -1

VARIABLES
    log,        \* the otus-<channel>-logs topic: timestamps, or Garbled
    cstate,     \* the packet consumer thread
    cpos,       \* its position in log
    committed,  \* the offset committed for group console-<channel>
    faults,     \* connection faults so far
    ring,       \* packet_queues[channel].queue
    snap,       \* the packets of the last api_packets response
    subs, st, q, recv, pubs     \* the channel's StreamHub

hubVars == <<subs, st, q, recv, pubs>>
vars == <<log, cstate, cpos, committed, faults, ring, snap, hubVars>>

Hub == INSTANCE StreamHub
Fmt == INSTANCE PacketFormat WITH
           hs <- <<>>, blabels <- <<>>, ts <- CHOOSE t \in PacketTs : TRUE,
           HeaderLists <- {<<>>}, BodyLabels <- {<<>>}, TsInputs <- PacketTs

\* The numbers of the last min(n, k) packets of the first n published.
Latest(n, k) ==
    LET m == IF n < k THEN n ELSE k IN [i \in 1..m |-> n - m + i]

\* Packets handled so far whose ring buffer insert has been done.
Buffered == IF cstate = "buffering" THEN pubs - 1 ELSE pubs

TypeOK ==
    /\ log \in Seq(PacketTs) /\ Len(log) <= MaxLog
    /\ cstate \in {"connecting", "ready", "buffering", "faulted"}
    /\ cpos \in 0..Len(log)
    /\ committed \in {NoOffset} \cup 0..Len(log)
    /\ faults \in 0..MaxFaults
    /\ ring \in Seq(1..MaxPub) /\ Len(ring) <= Cap
    /\ snap \in Seq(1..MaxPub) /\ Len(snap) <= SnapMax
    /\ Hub!TypeOK

Init ==
    /\ log = <<>>
    /\ cstate = "connecting"
    /\ cpos = 0
    /\ committed = NoOffset
    /\ faults = 0
    /\ ring = <<>>
    /\ snap = <<>>
    /\ Hub!Init

\* _make_consumer joins console-<channel>: resume at the committed offset,
\* or at the end of the log (auto_offset_reset="latest") if there is none.
ConnectOk ==
    /\ cstate = "connecting"
    /\ cstate' = "ready"
    /\ cpos' = IF committed = NoOffset THEN Len(log) ELSE committed
    /\ UNCHANGED <<log, committed, faults, ring, snap, hubVars>>

ConnectFails ==
    /\ cstate = "connecting" /\ faults < MaxFaults
    /\ cstate' = "faulted"
    /\ faults' = faults + 1
    /\ UNCHANGED <<log, cpos, committed, ring, snap, hubVars>>

\* consumer.poll() commits the consumed position (enable_auto_commit).
AutoCommit ==
    /\ cstate = "ready"
    /\ committed' = cpos
    /\ UNCHANGED <<log, cstate, cpos, faults, ring, snap, hubVars>>

\* poll() runs the value_deserializer of _make_consumer on the fetched
\* record; json.loads raises there, outside the try of _consumer_loop, and
\* kafka-python leaves the position on the record. The exception reaches
\* _start_packet_consumer: sleep, then close(), which commits the position.
PollRaises ==
    /\ cstate' = "faulted"
    /\ committed' \in {committed, cpos}
    /\ UNCHANGED <<cpos, hubVars>>

\* Mutant: _consumer_loop without its try/except: the handler's exception
\* ends the poll loop like a fault. poll() had already moved the position
\* past the record; close() commits that unless the commit fails.
HandlerRaised_Escapes ==
    /\ cstate' = "faulted"
    /\ committed' \in {committed, cpos + 1}
    /\ UNCHANGED <<cpos, hubVars>>

\* A timestamp whose int() overflows raises out of _handle_packet;
\* _consumer_loop logs it and goes on with the next record.
HandlerRaised ==
    /\ cpos' = cpos + 1
    /\ UNCHANGED <<cstate, committed, hubVars>>

\* One record of poll(): it fails to decode, or _handle_packet raises, or
\* the packet is pushed to every subscriber under sse_lock (StreamHub's
\* Publish) and the ring buffer insert comes next.
HandlePacket ==
    /\ cstate = "ready" /\ cpos < Len(log)
    /\ LET r == log[cpos + 1] IN
       CASE r = Garbled -> PollRaises
         [] r # Garbled /\ Fmt!NormalizeTs(r, Now) = Raises -> HandlerRaised
         [] r # Garbled /\ Fmt!NormalizeTs(r, Now) # Raises ->
                /\ Hub!Publish /\ cstate' = "buffering"
                /\ cpos' = cpos + 1 /\ UNCHANGED committed
    /\ UNCHANGED <<log, faults, ring, snap>>

\* Mutant: the eviction test is off by one (qsize() > maxsize), so a full
\* buffer is never emptied and put_nowait's queue.Full is swallowed.
Insert_NoEvict(r, p) == IF Len(r) = Cap THEN r ELSE Append(r, p)

\* If pq.full(), get_nowait() drops the oldest packet, then put_nowait()
\* appends.
Insert(r, p) == Append(IF Len(r) = Cap THEN Tail(r) ELSE r, p)

\* The ring buffer insert. The consumer thread is the only writer, so
\* neither queue.Empty nor queue.Full can be raised.
BufferPacket ==
    /\ cstate = "buffering"
    /\ ring' = Insert(ring, pubs)
    /\ cstate' = "ready"
    /\ UNCHANGED <<log, cpos, committed, faults, snap, hubVars>>

\* poll() raises; the finally clause closes the consumer, which commits the
\* position unless the commit itself fails.
PollFault ==
    /\ cstate = "ready" /\ faults < MaxFaults
    /\ cstate' = "faulted"
    /\ faults' = faults + 1
    /\ committed' \in {committed, cpos}
    /\ UNCHANGED <<log, cpos, ring, snap, hubVars>>

\* time.sleep(5), then the while loop connects again.
Backoff ==
    /\ cstate = "faulted"
    /\ cstate' = "connecting"
    /\ UNCHANGED <<log, cpos, committed, faults, ring, snap, hubVars>>

\* Mutant: api_packets returns items, without the [-200:] slice.
Recent_All(s) == s

\* Mutant: api_packets returns items[:200], the oldest packets.
Recent_Oldest(s) == SubSeq(s, 1, IF Len(s) < SnapMax THEN Len(s) ELSE SnapMax)

\* items[-200:]
Recent(s) == SubSeq(s, IF Len(s) > SnapMax THEN Len(s) - SnapMax + 1 ELSE 1, Len(s))

\* api_packets: list(pq.queue), read without a lock, then its last 200. It
\* can run between the fan-out of a packet and its ring buffer insert.
Snapshot ==
    /\ snap' = Recent(ring)
    /\ UNCHANGED <<log, cstate, cpos, committed, faults, ring, hubVars>>

\* A capture node writes a packet to the channel's topic.
NodeWrites ==
    /\ Len(log) < MaxLog
    /\ \E t \in PacketTs : log' = Append(log, t)
    /\ UNCHANGED <<cstate, cpos, committed, faults, ring, snap, hubVars>>

\* A stream request of the channel (api_stream): StreamHub's own actions.
StreamClient(c) ==
    /\ \/ Hub!Subscribe(c) \/ Hub!Yield(c) \/ Hub!Heartbeat(c) \/ Hub!Close(c)
    /\ UNCHANGED <<log, cstate, cpos, committed, faults, ring, snap>>

Next ==
    \/ ConnectOk \/ ConnectFails \/ AutoCommit \/ HandlePacket
    \/ BufferPacket \/ PollFault \/ Backoff
    \/ Snapshot \/ NodeWrites
    \/ \E c \in Clients : StreamClient(c)

Spec == Init /\ [][Next]_vars

\* The consumer thread is an OS thread and the broker is assumed to come
\* back: weak fairness for its steps. Nodes and browsers owe nothing.
FairSpec ==
    /\ Spec
    /\ WF_vars(ConnectOk) /\ WF_vars(HandlePacket)
    /\ WF_vars(BufferPacket) /\ WF_vars(Backoff)

-----------------------------------------------------------------------------
\* The ring buffer receives the packets the live feed was offered, in the
\* same order, and holds exactly the last min(n, Cap) of them: overflow
\* evicts the oldest before the insert, and a packet lost to its timestamp
\* reaches neither.
RingHoldsLatest == ring = Latest(Buffered, Cap)

\* The consumer has read to the end of its topic and is polling.
CaughtUp == cstate = "ready" /\ cpos = Len(log)

\* A packet the handler cannot process (its exception is logged by
\* _consumer_loop) never stalls the channel: as long as every record of the
\* topic decodes, the packet consumer eventually reads to the end of its
\* topic and stays there, faults notwithstanding.
PacketConsumerCatchesUp ==
    [](\A i \in 1..Len(log) : log[i] # Garbled) => <>[]CaughtUp

\* Spec section 7: a malformed record is logged and skipped, never fatal,
\* so the consumer reads past an undecodable record as well.
MalformedRecordSkipped == <>[]CaughtUp

\* api_packets returns the most recent min(n, 200) buffered packets in
\* arrival order, whatever the packet consumer is doing at that moment.
SnapshotIsLatest ==
    [][snap' # snap => snap' = Latest(Buffered, SnapMax)]_vars
=============================================================================
