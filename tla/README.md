# TLA+ models of the Otus web console

This directory holds TLA+ models of the Otus web console. The console is
`src/voip-simulator/console/app.py`: a Flask process that stands between
browsers and the Otus capture nodes. The nodes are reached only through
Kafka topics. The TLC configurations check the models, and `PROJECT.json`
lists the components, runs, mutants, source map, findings and hazards.

## 1. Inventory

### Components and their state

| Component | Code (app.py) | State it keeps |
|---|---|---|
| CommandDispatcher | `api_command` 351-423 (validation, send, flush), `get_producer` 95-106, `send_command` 109-135 (never called) | the lazily built `_producer`; per request: body, request_id, its `resp_queue` |
| ResponseCorrelator | `pending_responses` 84-85, `_handle_response` 268-299, the waiting half of `api_command` 404-423 | `pending_responses: request_id -> Queue(maxsize=1)` under `pending_lock` |
| ConsumerSupervisor | `_make_consumer` 142-155, `_consumer_loop` 158-167, `_start_packet_consumer` 245-261, `_start_response_consumer` 302-324, `start_background_consumers` 327-339 | one thread per subscription (2 data channels + responses); the Kafka consumer's position and its group's committed offset |
| StreamHub | `sse_subscribers`, `response_sse_subscribers`, `sse_lock` 72-81; fan-out loops 222-230 and 291-299; `api_stream` 435-467, `api_stream_responses` 470-499 | per channel, a list of bounded subscriber queues (200 for packets, 100 for responses) |
| PacketIngest | `_parse_packet_headers` 174-192, `_handle_packet` 195-242, `api_packets` 426-432 | per channel a ring buffer `packet_queues[ch]` of `MAX_QUEUE_SIZE` = 500 |
| HTTP pages | `index`, `health`, `task_template` | none |
| RTP pcap generator | `uac/gen_rtp_pcap.py`: `pcm16_to_ulaw` 17-29, frame encoding 41-48, packet builders 52-78, write loop 82-104 | none (offline script; `pcm16_to_ulaw` is a pure function) |

### Operations and interactions

* A browser POSTs `/api/command`. The handler thread validates the body. For
  a waited, targeted command (`wait` true and target not `*`) it registers a
  single-slot queue in `pending_responses` **before** sending. It then sends
  the envelope to one command topic, or to both for `*`, and flushes. It
  returns at once for fire-and-forget and wildcard sends. Otherwise it
  blocks on the queue for 30 s. On timeout it pops its entry and returns
  504. A `KafkaError` from the send pops the entry and returns 500.
* Nodes answer on the shared topic `otus-responses`. The response consumer
  thread reads it with a group id unique to this process (`INSTANCE_ID`),
  so every console sees every response. For each response it pops the
  waiter under `pending_lock`. After releasing the lock it `put_nowait`s
  the response into the waiter's queue, then pushes it to every response
  stream subscriber under `sse_lock`.
* Nodes write captured packets to `otus-uas-logs` and `otus-uac-logs`. One
  consumer thread per channel calls `_handle_packet`. It splits the Kafka
  headers into labels (`l.` prefix) and the envelope, normalises the
  timestamp, pushes the packet to every stream subscriber of the channel
  (dropping subscribers whose queue is full), then appends it to the
  channel's ring buffer, evicting the oldest packet when the buffer is full.
* A browser opening `/api/stream/<ch>` or `/api/stream/responses` appends
  a queue to the subscriber list. The generator then yields one item per
  `get(timeout=15)`, or a heartbeat. It removes the queue in `finally` when
  the client goes away. `/api/packets/<ch>` returns the last 200 packets
  of the ring buffer.
* Each consumer thread connects, polls in 1 s cycles, logs and skips a
  handler exception, and reconnects after 5 s on any connection fault,
  forever. Closing the consumer commits its position (auto-commit).

### What is hard

* **Interleavings.** There are many HTTP handler threads, one response
  consumer and two packet consumers. They share `pending_responses`
  (`pending_lock`) and the subscriber lists (`sse_lock`). The two locks are
  never nested.
* **Timeouts.** A caller's 30 s deadline races a late response. The
  consumer pops the waiter under the lock and fills its queue outside it.
* **Unreliable delivery.** The producer's `send()` is asynchronous, so a
  lost record is never reported. Responses can be duplicated: the producer
  retries without idempotence, and a consumer that reconnects redelivers
  from a committed offset that lags its position. Responses to other
  consoles' commands share the topic.
* **Recovery.** Consumers reconnect forever. With no committed offset,
  `auto_offset_reset="latest"` skips what was written before the group
  joined.
* **Bounds.** These are the ring buffer at 500, subscriber queues at
  200/100 with permanent eviction, and the timestamp threshold 10^11 with
  its conversion errors.

### Properties that make each component correct

* CommandDispatcher and ResponseCorrelator: no waiter outlives its handler.
  A waiting caller can always be reached by the consumer. A registered
  waiter's slot is empty, so a slot never receives twice. Every request
  returns. A timeout is reported only if no response was delivered. A
  publish failure is reported as a dispatch error.
* ConsumerSupervisor: a reconnect never skips a response, and the consumer
  eventually catches up after faults.
* StreamHub: what a subscriber receives is a contiguous run of what was
  published since it subscribed, in order. A full queue is evicted without
  blocking the producer. Closing a stream removes its queue exactly once,
  even when this races a fan-out.
* PacketIngest: the ring buffer holds exactly the last min(n, 500) packets
  in arrival order. The snapshot is the last 200 of them. Timestamps
  normalise as the spec says. Label headers go to `labels` and never to
  `_envelope`.

## 2. Plan

Modules, in order of importance:

1. **CommandCorrelator** (done): `api_command`, `_handle_response`, and
   the response consumer loop over a Kafka log with committed offsets. The
   broker and the nodes are the environment.
2. **StreamHub** (done): one channel's subscriber list with `Subscribe`,
   the generator's `Yield`/`Heartbeat`, `Close` (`finally`) and
   `Publish` (fan-out with eviction). Its abstract specification, **StreamHubSpec**, says each
   subscriber receives a contiguous segment of the publish sequence
   starting at its subscription. StreamHub is checked to refine it
   (`INSTANCE StreamHubSpec WITH ...` as a PROPERTY).
3. **PacketIngest** (done): `_handle_packet` composed with a StreamHub
   instance and the ring buffer, plus the packet consumer loop and
   `api_packets`. **PacketFormat** holds the pure operators: the header
   split, the label merge and the timestamp normalisation. Each is checked
   against the spec over bounded inputs.
4. **ULaw** (done): `pcm16_to_ulaw`, with its exponent search as a RECURSIVE
   operator, checked against the G.711 decoding table over every 16-bit
   sample.
5. **RtpPcap** (done): the write loop of `gen_rtp_pcap.py`, one action per
   frame, with the length fields of the headers it builds.
6. **ResponseFeed** (done): the broadcast in `_handle_response` is
   `Publish` on a second StreamHub instance, `RespHub`, whose clients are
   `/api/stream/responses` requests (`RespClient`: subscribe, yield,
   heartbeat, close). The response consumer and the SSE generators
   therefore interleave in one model. The liveness run checks that the
   consumer keeps up while a stream fills and is evicted. What the streams
   receive is StreamHub's own behaviour, which `hub_refinement` checks.

## 3. Modules and runs

### CommandCorrelator (`CommandCorrelator.tla`, `MC_CommandCorrelator.tla`)

State:

* `body[r]`: the request body's target, wait flag and validity, as input.
* `pc[r]` and `outcome[r]`: the handler thread and what it returned.
* `toSend[r]`: the command topics left to send to.
* `pending`: the keys of `pending_responses`. Each value is the request's
  own queue, so a set suffices.
* `slot[r]`: the queue, of length at most 1.
* `cmds`: envelopes that reached a command topic.
* `log`: the `otus-responses` topic.
* `cstate`, `cpos`, `committed`: the consumer thread, its position, and
  the group's committed offset.
* `held`: the waiter between the pop and the put.
* `rsubs`, `rst`, `rq`, `rrecv`, `rpubs` (`respVars`): the state of the
  response hub `RespHub`, which is StreamHub's state under other names:
  `response_sse_subscribers`, each generator's state, queue and what it
  yielded, and the number of broadcasts. `MaxPub` bounds the broadcasts.
  It is at least `MaxLog * (MaxFaults + 1)`, so the bound never blocks the
  consumer: each read of the log broadcasts once, and a fault can replay
  the log.
* `faults`: connection faults so far.

Actions:

* Handler: `Reject`, `Register`, `Send` (`SendDelivered`, `SendLost`,
  `SendRaises`), `Flush`, `Receive`, `Expire`, `Cleanup`.
* Consumer thread: `ConnectOk`, `ConnectFails`, `AutoCommit`, `PollIdle`,
  `HandleResponse` (the pop), `Deliver` (put and broadcast), `PollFault`
  (close commits or not), `Backoff`.
* `RespClient(c)`: one `/api/stream/responses` request, running StreamHub's
  `Subscribe`, `Yield`, `Heartbeat` and `Close` on `RespHub`.
* Environment: `NodeResponds` answers any command that reached a topic,
  any number of times, which models duplicates. `ForeignResponse` writes a
  response carrying a request id this console never issued.

A response keeps only its `request_id`. The `error` field only decides
the `ok` flag of the 200 response, so that outcome is abstracted to
`replied`.

Runs:

* `correlator_safety` (`MC_CommandCorrelator_safety.cfg`): 2 requests, 1
  foreign id, a log of 3 responses and 1 consumer fault, with symmetry on
  the request ids. It checks `TypeOK`, `NoLeakedWaiter`,
  `RegisteredSlotEmpty`, `WaiterReachable` and `ConsumerNeverSkips`.
  The run takes about 2 minutes and reaches 5.5 M distinct states. With 3
  responses, a duplicate response can reach a registered waiter, and a
  redelivery can follow a fault. Two requests cover concurrent waiters
  and the `*` plus targeted mix.
* `correlator_liveness` (`MC_CommandCorrelator_live.cfg`): 1 request, a
  log of 2 responses, 1 consumer fault, one response subscriber with queue
  size 1, and no symmetry. It checks `RequestCompletes` and
  `ConsumerCatchesUp` while a response stream subscribes, fills its queue
  of 1, is evicted and closes, interleaved with the consumer: a slow
  stream never holds the consumer up. No separate property is stated
  about the response streams. `RespHub`'s variables change only through
  StreamHub's own actions, so `hub_refinement` already covers them. The
  run takes about 30 s and
  reaches 158 k distinct states. The other runs set `RespClients = {}`,
  so the hub stays idle there and their state spaces are unchanged.
* The timeout race: the caller's `get()` expires, and the consumer then
  pops the still-registered waiter and fills a queue nobody reads. This is
  what spec 4.3 itself accepts: removal on expiry, delivery outside the
  lock, and the not-found path absorbs what comes later. It is covered by
  `NoLeakedWaiter` and `RegisteredSlotEmpty`, not by a violation run.
* `async_publish_failure` (violation, `PublishFailureSurfaces`). A send
  that fails in the producer's background is never seen: the future is
  dropped and `flush()` does not raise. The caller waits 30 s and gets
  504, not the dispatch error the spec promises.

* `startup_skip` (violation, `ObservesEveryResponse`). The response
  consumer's group is `INSTANCE_ID`, new for every process, with
  `auto_offset_reset="latest"`. Its first join, and a reconnect before
  anything was committed, start at the end of `otus-responses`. A response
  written earlier, even one for a command this console sent while its
  consumer was still connecting, is never read. Spec 4.3 says every
  console must observe every response.

Fairness: each handler thread and the consumer thread get weak fairness.
Handler threads are OS threads, and `get(timeout=30)` always returns.
`ConnectOk` gets weak fairness because the broker is assumed to come back.
Nodes and clients get none. `PollIdle` is the empty poll of the `while
True` loop. It is why a finished model has a successor state and deadlock
checking stays on.

### StreamHub (`StreamHub.tla`, `StreamHubSpec.tla`, `MC_StreamHub.tla`)

State:

* `subs`: the queues in `sse_subscribers[channel]`.
* `st[c]`: the stream request, which is idle, streaming or closed.
* `q[c]`: its `sub_queue`.
* `recv[c]`: what its generator has written to the event stream.
* `pubs`: the number of items published. Items are numbered by
  publication, which abstracts packets to their identity.

Actions:

* `Subscribe` (api_stream appends under `sse_lock`).
* `Yield` (`get()` returns an item).
* `Heartbeat` (`get()` times out).
* `Close` (the `finally` clause removes the queue if it is still there).
* `Publish` (the fan-out under `sse_lock`: `put_nowait` to every queue,
  and removal of the ones that were full).

The response stream is the same code with a queue size of 100. Whether the
generator's first iteration can be skipped by the server is not modelled:
Werkzeug iterates the response at once, so `finally` runs when the client
goes away.

`StreamHubSpec` is the abstract hub of spec section 4.1. Each subscriber
has a stream of items. A publication appends the next item to the streams
of the subscribers it keeps and may drop any subscriber from the active set
for good. The refinement mapping takes `active` to `subs` and `stream[c]`
to `recv[c] \o q[c]`.

Run:

* `hub_refinement` (`MC_StreamHub.cfg`): 3 streams, queues of 2 and 5
  publications, with symmetry on the streams. It checks `TypeOK` and
  `HubRefinesSpec`, and reaches 99 k distinct states. Five items with
  queues of 2 make a queue fill and its subscriber get evicted while
  another keeps up, and a close can race a fan-out that has already
  removed the same queue. Deadlock checking is off because the bounded
  model ends when all items are published and all streams are closed; the
  code just waits then.

### PacketFormat (`PacketFormat.tla`, `MC_PacketFormat.tla`)

This module holds the pure part of `_handle_packet`. Each state is one
message handed to the handler: its header list `hs`, the body's label map
`blabels` and its timestamp `ts`. Init enumerates the inputs, and Next
leaves them unchanged.

* `IsLabelKey`, `StripPrefix`, `HeaderDict`, `ParseHeaders` are
  `_parse_packet_headers`. A key is a sequence of characters, so
  `startswith("l.")` and `k[2:]` mean what they mean in Python. The dict
  comprehension is a fold in which a later duplicate wins.
* `MergeLabels` is `setdefault("labels", {}).update(...)`.
* `NormalizeTs` is the timestamp block. A timestamp is a record that says
  what JSON value the node sent. A number is `n / d` with `d` in {1, 10},
  and `Trunc` is `int()` of a float. Non-numeric strings, bools, lists,
  dicts and NaN fall back to the receipt time. An infinity raises
  OverflowError.

The references are `LastValue`, `LabelNames` and `SpecTs`. They are
written from spec 4.4 and the scenario in section 8, not from the code.
The threshold 10^11 is the constant `Threshold`, set to 10 so that TLC's
32-bit integers hold the scaled values. The checked numbers cross the threshold on both
sides. The violation runs use -250 to 250.

Runs:

* `packet_format` (`MC_PacketFormat.cfg`) checks `HeadersSplitAsSpecified`
  over 1755 inputs:
  * every list of up to 3 headers over the keys `l.a`, `l.` (an empty
    label name), `la` and `a`, with two values;
  * three body label maps.
* `ts_normalisation` (violation, `TimestampAsSpecified`: the spec's
  normalisation for every input). The code differs in three ways. It
  tests the signed value, so a negative millisecond value of magnitude
  10^11 or more is scaled as seconds, where the spec says "below
  magnitude 10^11". TLC's trace is -250 with the threshold 10, which
  becomes -250000. `int()` truncates before the scaling, so a fractional
  second loses its milliseconds: -24.9 s becomes -24000 ms. An infinite
  timestamp raises `OverflowError` past the `except (ValueError,
  TypeError)`, and the packet is lost.

### PacketIngest (`PacketIngest.tla`, `MC_PacketIngest.tla`)

This module models one data channel. State:

* The data topic `log`. A packet keeps only its timestamp, the one field
  that changes the control flow.
* The packet consumer: `cstate`, `cpos`, `committed`, `faults`.
* The ring buffer `ring`.
* The last `api_packets` result `snap`.
* The channel's StreamHub variables. `Hub == INSTANCE StreamHub`, and
  packets are numbered by publication, as in StreamHub.

The consumer actions are those of the response consumer. `HandlePacket`
takes the next record of `poll()`, in one of three ways:

* `PollRaises`: the record is `Garbled` (not UTF-8 JSON). The
  `value_deserializer` of `_make_consumer` raises inside `poll()`, before
  the `try` of `_consumer_loop`. kafka-python leaves the position on the
  record, and `close()` commits it (or the commit fails).
* `HandlerRaised`: `Fmt!NormalizeTs` raises; `_consumer_loop` logs it and
  the packet is dropped.
* Otherwise `_handle_packet` runs up to and including the fan-out
  (`Hub!Publish`).

`BufferPacket` is the ring insert that follows: `full()`, `get_nowait()`,
`put_nowait()` (`Insert`). It is a separate step because it runs after
`sse_lock` is released, and `Snapshot` (`api_packets`, which reads the
buffer without a lock) can run in between. `StreamClient` is StreamHub's
own subscriber actions.

Fairness (`FairSpec`): the consumer thread's `ConnectOk`, `HandlePacket`,
`BufferPacket` and `Backoff` get weak fairness, on the same grounds as the
response consumer's. Nodes, browsers and the broker's faults get none.

Run `packet_ingest` (`MC_PacketIngest.cfg`):

* 1 stream with a queue of 1, a ring of 3, snapshots of 2, a topic of 3
  records (a valid timestamp, an infinite one, or a garbled record) and 1
  consumer fault.
* It reaches about 300 k distinct states in about 15 s.
* A fault or a garbled record with a lagging commit redelivers packets,
  which overflows the ring of 3. The subscriber's queue of 1 fills and it
  is evicted.
* It checks `TypeOK`, `RingHoldsLatest` (the ring is the latest
  min(n, Cap) packets the feed was offered), `SnapshotIsLatest`, and
  `PacketConsumerCatchesUp`: if every record decodes, the consumer
  eventually reads to the end of the topic and stays there. The mutant of
  the last removes the `try/except` of `_consumer_loop`, so that a packet
  with an infinite timestamp is retried after every reconnect.
* The hub itself is checked with 3 streams in `hub_refinement`. A second
  stream here made the run take over 20 minutes.

Run `poison_record` (violation, `MalformedRecordSkipped`,
`MC_PacketIngest_MalformedRecordSkipped.cfg`): a topic of 2 records and no
connection faults. A garbled record makes `poll()` raise on every
reconnect, and the consumer never gets past it. Spec section 7 says a
malformed record is logged and skipped, never fatal. The response consumer
uses the same `_make_consumer`, so one garbled record on `otus-responses`
would make every later waited command time out. The run relies on
kafka-python's fetcher: a deserializer exception propagates out of
`poll()` and the position does not move past the record. In a real fetch,
the good records fetched with the bad one are not handed out either.

### ULaw (`ULaw.tla`, `MC_ULaw.tla`)

* `Pcm16ToUlaw` is `pcm16_to_ulaw`, with Bitwise for `>>`, `&`, `|`, and
  `^^ 255` for `(~v) & 0xFF`.
* `SegmentOf` is the `for exp in range(7, -1, -1)` loop as a RECURSIVE
  operator.
* The reference is the G.711 decoding table: `Decoded` and `HalfStep`
  (ulaw2linear).
* In Python, the standard encoder (the same code with `exp + 7`) meets the
  property for all samples within ±CLIP.

Run `ulaw_g711` (violation, `EncodesG711`) covers all 65536 samples. The
code tests `sample >= 1 << (exp + 4)` where G.711 has `exp + 7`. Every
biased sample of 2048 or more lands in segment 7, and silence encodes as
0xCD (+1052) instead of 0xFF. 32503 samples differ from `audioop.lin2ulaw`.

### RtpPcap (`RtpPcap.tla`)

The write loop of `gen_rtp_pcap.py`. `out` is the sequence of pcap records
written. `WriteFrame` is one iteration. Its record `Frame` has the IP total
length `_ip` writes, the UDP length `_udp` writes, and the packet length
the record header states. The script's constants are used as they are
(`FRAMES` = 500), so the run covers the whole file.

Run `pcap_lengths` (violation, `LengthsMatchFrame`). The loop calls
`_ip(len(udp_payload) + len(rtp_payload))`, and `_ip` adds `20 + 8`, so
the UDP header is counted twice. The IPv4 total length is 208 where the
datagram has 200 bytes. The UDP length (180) is right.

## 4. Not modelled

* Broker internals: partitions, replication and rebalancing. Each topic
  is one ordered log.
* Message contents, logging, JSON encoding and page rendering.
* `send_command`, which is never called.
* Non-Kafka exceptions around the send: with a dict payload and the
  str/JSON serializers, none is reachable there.
* The partition assignment of the shared `console-<channel>` group across
  several console processes. Each topic is one log read by one consumer.
* A packet body whose `labels` is not a dict: `.update` then raises, and
  the packet is dropped like an infinite timestamp. Also `msg.value` that is
  not a dict: it becomes `{}`. The UTF-8 decoding of header values.
* In `gen_rtp_pcap.py`: the floating-point sine synthesis, the addresses,
  ports and SSRC, the RTP sequence number and timestamp, and the pcap
  capture times. These fields are constants or `i`-linear, and no property
  reads them. `seq & 0xFFFF` never wraps in 500 frames.
* A record that does not decode, on `otus-responses`, in CommandCorrelator.
  It is the same code as in PacketIngest, where `poison_record` shows it.
