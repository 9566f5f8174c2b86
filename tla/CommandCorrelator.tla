-------------------------- MODULE CommandCorrelator --------------------------
(***************************************************************************)
(* The command path of the Otus web console (console/app.py):              *)
(*   - api_command: one HTTP handler thread per request; it validates the  *)
(*     body, registers a single-slot waiter in pending_responses, sends    *)
(*     the command to one or both command topics, flushes, then blocks on  *)
(*     its slot with a 30 s timeout;                                       *)
(*   - the response consumer thread (_start_response_consumer,             *)
(*     _consumer_loop, _handle_response): reads otus-responses, pops the   *)
(*     waiter for the request_id, puts the response into its slot and      *)
(*     broadcasts it to the response streams, whose subscriber list and    *)
(*     api_stream_responses generators are a StreamHub instance;           *)
(*   - the environment: the Kafka broker (topics as logs, committed        *)
(*     offsets) and the capture nodes that answer commands.               *)
(***************************************************************************)
EXTENDS Integers, Sequences, FiniteSets

CONSTANTS
    Reqs,       \* request ids minted by api_command (uuid4), one per request
    Foreign,    \* a request_id this console never issued
    MaxLog,     \* bound on the length of the otus-responses log
    MaxFaults,  \* bound on connection faults of the response consumer
    RespClients,    \* requests to /api/stream/responses
    RespQCap,       \* maxsize of their queues (100)
    MaxPub          \* bound on broadcasts, at least MaxLog * (MaxFaults + 1)

ASSUME /\ Reqs # {} /\ Foreign \notin Reqs
       /\ MaxLog \in Nat /\ MaxFaults \in Nat
       /\ MaxPub >= MaxLog * (MaxFaults + 1)

\* COMMAND_TOPICS, in dict order: a wildcard send visits them in this order.
Groups == {"uas", "uac"}
TopicOrder == <<"uas", "uac">>
Targets == Groups \cup {"*"}

\* The fields of the request body that decide the control flow: target,
\* wait, and whether target and command pass validation.
Body == [target : Targets, wait : BOOLEAN, valid : BOOLEAN]

Rids == Reqs \cup {Foreign}
Resp == [rid : Rids]                      \* a response envelope
Cmd  == [rid : Reqs, group : Groups]      \* a command envelope on a topic

NoOffset == -1                            \* group has no committed offset

\* "replied" stands for the 200 carrying the response, whose "ok" field
\* only mirrors the response's error field.
Outcomes == {"none", "rejected", "dispatchError", "accepted",
             "replied", "timeout"}

VARIABLES
    body,       \* body[r]: the request body of request r
    pc,         \* pc[r]: where the handler thread of r is
    outcome,    \* outcome[r]: what the handler returned to the client
    toSend,     \* toSend[r]: command topics still to send to
    pending,    \* the keys of pending_responses
    slot,       \* slot[r]: the contents of r's resp_queue (maxsize=1)
    cmds,       \* command envelopes that reached a command topic
    log,        \* the otus-responses topic
    cstate,     \* the response consumer thread's state
    cpos,       \* the consumer's position in log
    committed,  \* the offset committed for INSTANCE_ID's group
    held,       \* <<[w, resp]>>: a waiter popped, not yet delivered
    faults,     \* connection faults so far
    rsubs, rst, rq, rrecv, rpubs    \* the response streams' StreamHub

handlerVars  == <<body, pc, outcome, toSend, slot>>
respVars     == <<rsubs, rst, rq, rrecv, rpubs>>
consumerVars == <<cstate, cpos, committed, held, faults, respVars>>
vars == <<body, pc, outcome, toSend, pending, slot, cmds, log,
          cstate, cpos, committed, held, faults, respVars>>

\* response_sse_subscribers under sse_lock, the api_stream_responses
\* generators and the fan-out loop of _handle_response.
RespHub == INSTANCE StreamHub WITH
               Clients <- RespClients, QCap <- RespQCap,
               subs <- rsubs, st <- rst, q <- rq, recv <- rrecv, pubs <- rpubs

\* The topics a command for target t is sent to (lines 390-395).
Topics(t) == IF t = "*" THEN TopicOrder ELSE <<t>>

\* A waited send registers a waiter; a wildcard or wait=false send does not.
Waits(r) == body[r].wait /\ body[r].target # "*"

TypeOK ==
    /\ body \in [Reqs -> Body]
    /\ pc \in [Reqs -> {"idle", "sending", "waiting", "expired", "done"}]
    /\ outcome \in [Reqs -> Outcomes]
    /\ toSend \in [Reqs -> Seq(Groups)]
    /\ pending \in SUBSET Reqs
    /\ slot \in [Reqs -> Seq(Resp)]
    /\ \A r \in Reqs : Len(slot[r]) <= 1
    /\ cmds \in SUBSET Cmd
    /\ log \in Seq(Resp) /\ Len(log) <= MaxLog
    /\ cstate \in {"connecting", "ready", "delivering", "faulted"}
    /\ cpos \in 0..MaxLog
    /\ committed \in {NoOffset} \cup 0..MaxLog
    /\ held \in Seq([w : Reqs, resp : Resp]) /\ Len(held) <= 1
    /\ RespHub!TypeOK
    /\ faults \in 0..MaxFaults

Init ==
    /\ body \in [Reqs -> Body]
    /\ pc = [r \in Reqs |-> "idle"]
    /\ outcome = [r \in Reqs |-> "none"]
    /\ toSend = [r \in Reqs |-> <<>>]
    /\ pending = {}
    /\ slot = [r \in Reqs |-> <<>>]
    /\ cmds = {}
    /\ log = <<>>
    /\ cstate = "connecting"
    /\ cpos = 0
    /\ committed = NoOffset
    /\ held = <<>>
    /\ RespHub!Init
    /\ faults = 0

-----------------------------------------------------------------------------
(* api_command: the handler thread of request r.                           *)

\* Invalid target or unknown command: 400, before any shared state changes.
Reject(r) ==
    /\ pc[r] = "idle" /\ ~body[r].valid
    /\ pc' = [pc EXCEPT ![r] = "done"]
    /\ outcome' = [outcome EXCEPT ![r] = "rejected"]
    /\ UNCHANGED <<body, toSend, pending, slot, cmds, log, consumerVars>>

\* Mutant: the wait flag is ignored and no waiter is registered.
Registered_NoWaiter(p, r) == p

\* pending_responses[request_id] = resp_queue under pending_lock, for a
\* waited, targeted command.
Registered(p, r) == IF Waits(r) THEN p \cup {r} ELSE p

\* Mutant: the except branch returns without popping its entry.
Unregister_Keep(p, r) == p

\* pending_responses.pop(request_id, None) under pending_lock.
Unregister(p, r) == p \ {r}

\* Register the waiter before sending, for a waited, targeted command.
Register(r) ==
    /\ pc[r] = "idle" /\ body[r].valid
    /\ pending' = Registered(pending, r)
    /\ toSend' = [toSend EXCEPT ![r] = Topics(body[r].target)]
    /\ pc' = [pc EXCEPT ![r] = "sending"]
    /\ UNCHANGED <<body, outcome, slot, cmds, log, consumerVars>>

\* producer.send() to the next topic. send() only buffers the record: it
\* reaches the topic, or fails later in the background (the returned future
\* is never inspected and flush() does not raise), or send() (or
\* get_producer() building the producer) raises KafkaError at once, and the
\* handler pops its waiter and returns 500.
SendDelivered(r) ==
    /\ pc[r] = "sending" /\ toSend[r] # <<>>
    /\ cmds' = cmds \cup {[rid |-> r, group |-> Head(toSend[r])]}
    /\ toSend' = [toSend EXCEPT ![r] = Tail(@)]
    /\ UNCHANGED <<body, pc, outcome, pending, slot, log, consumerVars>>

SendLost(r) ==
    /\ pc[r] = "sending" /\ toSend[r] # <<>>
    /\ toSend' = [toSend EXCEPT ![r] = Tail(@)]
    /\ UNCHANGED <<body, pc, outcome, pending, slot, cmds, log, consumerVars>>

SendRaises(r) ==
    /\ pc[r] = "sending" /\ toSend[r] # <<>>
    /\ pending' = Unregister(pending, r)
    /\ pc' = [pc EXCEPT ![r] = "done"]
    /\ outcome' = [outcome EXCEPT ![r] = "dispatchError"]
    /\ toSend' = [toSend EXCEPT ![r] = <<>>]
    /\ UNCHANGED <<body, slot, cmds, log, consumerVars>>

Send(r) == SendDelivered(r) \/ SendLost(r) \/ SendRaises(r)

\* flush() returns; fire-and-forget and wildcard sends return at once.
Flush(r) ==
    /\ pc[r] = "sending" /\ toSend[r] = <<>>
    /\ IF Waits(r)
         THEN /\ pc' = [pc EXCEPT ![r] = "waiting"]
              /\ UNCHANGED outcome
         ELSE /\ pc' = [pc EXCEPT ![r] = "done"]
              /\ outcome' = [outcome EXCEPT ![r] = "accepted"]
    /\ UNCHANGED <<body, toSend, pending, slot, cmds, log, consumerVars>>

\* resp_queue.get() takes the response and returns it to the client.
Receive(r) ==
    /\ pc[r] = "waiting" /\ slot[r] # <<>>
    /\ slot' = [slot EXCEPT ![r] = <<>>]
    /\ pc' = [pc EXCEPT ![r] = "done"]
    /\ outcome' = [outcome EXCEPT ![r] = "replied"]
    /\ UNCHANGED <<body, toSend, pending, cmds, log, consumerVars>>

\* Mutant: resp_queue.get() called without a timeout never raises.
Expire_NoDeadline(r) == FALSE

\* resp_queue.get() raises queue.Empty: the 30 s deadline passed with the
\* slot empty.
Expire(r) ==
    /\ pc[r] = "waiting" /\ slot[r] = <<>>
    /\ pc' = [pc EXCEPT ![r] = "expired"]
    /\ UNCHANGED <<body, outcome, toSend, pending, slot, cmds, log,
                   consumerVars>>

\* The except branch: pop the own entry (if still there) and return 504.
Cleanup(r) ==
    /\ pc[r] = "expired"
    /\ pending' = Unregister(pending, r)
    /\ pc' = [pc EXCEPT ![r] = "done"]
    /\ outcome' = [outcome EXCEPT ![r] = "timeout"]
    /\ UNCHANGED <<body, toSend, slot, cmds, log, consumerVars>>

Handler(r) ==
    \/ Reject(r) \/ Register(r) \/ Send(r) \/ Flush(r)
    \/ Receive(r) \/ Expire(r) \/ Cleanup(r)

-----------------------------------------------------------------------------
(* The response consumer thread: _start_response_consumer, _consumer_loop  *)
(* and _handle_response.                                                   *)

\* Mutant: every reconnect starts at the end of the log, as a fresh group
\* id per connection would.
ResumeAt_Latest == Len(log)

\* Where a new consumer of INSTANCE_ID's group starts reading: at the
\* committed offset, or at the end of the log (auto_offset_reset="latest")
\* when the group has none.
ResumeAt == IF committed = NoOffset THEN Len(log) ELSE committed

\* _make_consumer joins INSTANCE_ID's group and resumes at ResumeAt; or
\* the constructor raises and the loop backs off.
ConnectOk ==
    /\ cstate = "connecting"
    /\ cstate' = "ready"
    /\ cpos' = ResumeAt
    /\ UNCHANGED <<committed, held, respVars, faults, handlerVars, pending,
                   cmds, log>>

ConnectFails ==
    /\ cstate = "connecting" /\ faults < MaxFaults
    /\ cstate' = "faulted"
    /\ faults' = faults + 1
    /\ UNCHANGED <<cpos, committed, held, respVars, handlerVars, pending,
                   cmds, log>>

\* Mutant: the commit is one past the consumed position.
Committable_OffByOne == cpos + 1

\* The position a commit of the consumer stores: what it has consumed.
Committable == cpos

\* consumer.poll() commits the consumed position (enable_auto_commit).
AutoCommit ==
    /\ cstate = "ready"
    /\ committed' = Committable
    /\ UNCHANGED <<cstate, cpos, held, respVars, faults, handlerVars, pending,
                   cmds, log>>

\* poll() returns nothing within timeout_ms.
PollIdle ==
    /\ cstate = "ready" /\ cpos = Len(log)
    /\ UNCHANGED vars

\* Mutant: pending_responses.get() instead of pop(): the waiter stays.
PopWaiter_LookupOnly(p, rid) == p

\* pending_responses.pop(request_id, None) under pending_lock.
PopWaiter(p, rid) == p \ {rid}

\* _handle_response, first half: pop the waiter under pending_lock. Without
\* a waiter the response is only broadcast.
HandleResponse ==
    /\ cstate = "ready" /\ cpos < Len(log)
    /\ LET m == log[cpos + 1] IN
         IF m.rid \in pending
           THEN /\ pending' = PopWaiter(pending, m.rid)
                /\ held' = <<[w |-> m.rid, resp |-> m]>>
                /\ cstate' = "delivering"
                /\ UNCHANGED respVars
           ELSE /\ RespHub!Publish
                /\ UNCHANGED <<pending, held, cstate>>
    /\ cpos' = cpos + 1
    /\ UNCHANGED <<committed, faults, handlerVars, cmds, log>>

\* _handle_response, second half, after pending_lock is released:
\* put_nowait into the waiter's slot (dropped if full), then broadcast.
Deliver ==
    /\ cstate = "delivering"
    /\ LET h == Head(held) IN
         slot' = IF slot[h.w] = <<>> THEN [slot EXCEPT ![h.w] = <<h.resp>>]
                 ELSE slot
    /\ RespHub!Publish
    /\ held' = <<>>
    /\ cstate' = "ready"
    /\ UNCHANGED <<body, pc, outcome, toSend, pending, cmds, log, cpos,
                   committed, faults>>

\* poll() raises; the finally clause closes the consumer, which commits the
\* position unless the commit itself fails.
PollFault ==
    /\ cstate = "ready" /\ faults < MaxFaults
    /\ cstate' = "faulted"
    /\ faults' = faults + 1
    /\ committed' \in {committed, Committable}
    /\ UNCHANGED <<cpos, held, respVars, handlerVars, pending, cmds, log>>

\* Mutant: the consumer thread ends on its first fault (no while loop).
Backoff_NoRetry == FALSE

\* time.sleep(5), then the while loop connects again.
Backoff ==
    /\ cstate = "faulted"
    /\ cstate' = "connecting"
    /\ UNCHANGED <<cpos, committed, held, respVars, faults, handlerVars,
                   pending, cmds, log>>

Consumer ==
    \/ ConnectOk \/ ConnectFails \/ AutoCommit \/ PollIdle
    \/ HandleResponse \/ Deliver \/ PollFault \/ Backoff

-----------------------------------------------------------------------------
(* The environment: nodes answer each command that reached their topic,    *)
(* possibly more than once (producer retries without idempotence, node     *)
(* redelivery); responses to other consoles' commands share the topic.     *)

NodeResponds ==
    /\ Len(log) < MaxLog
    /\ \E c \in cmds : log' = Append(log, [rid |-> c.rid])
    /\ UNCHANGED <<handlerVars, pending, cmds, consumerVars>>

ForeignResponse ==
    /\ Len(log) < MaxLog
    /\ log' = Append(log, [rid |-> Foreign])
    /\ UNCHANGED <<handlerVars, pending, cmds, consumerVars>>

\* A request to /api/stream/responses: StreamHub's own actions.
RespClient(c) ==
    /\ \/ RespHub!Subscribe(c) \/ RespHub!Yield(c)
       \/ RespHub!Heartbeat(c) \/ RespHub!Close(c)
    /\ UNCHANGED <<handlerVars, pending, cmds, log,
                   cstate, cpos, committed, held, faults>>

Next ==
    \/ \E r \in Reqs : Handler(r)
    \/ Consumer
    \/ NodeResponds \/ ForeignResponse
    \/ \E c \in RespClients : RespClient(c)

\* Handler threads and the consumer thread are scheduled by the OS and the
\* resp_queue.get() deadline always fires: weak fairness for them. The
\* broker is assumed to become reachable again (ConnectOk). Nodes and
\* clients owe nothing.
Fairness ==
    /\ \A r \in Reqs : WF_vars(Handler(r))
    /\ WF_vars(ConnectOk) /\ WF_vars(HandleResponse)
    /\ WF_vars(Deliver) /\ WF_vars(Backoff)

Spec == Init /\ [][Next]_vars /\ Fairness

-----------------------------------------------------------------------------
(* Properties.                                                             *)

\* Every key of pending_responses belongs to a waited, targeted request
\* whose handler has not returned yet: neither a KafkaError on send nor a
\* timeout nor a delivered response leaves a waiter behind.
NoLeakedWaiter ==
    \A r \in pending :
        /\ Waits(r)
        /\ pc[r] \in {"sending", "waiting", "expired"}

\* A waiter still registered has an empty slot, so the consumer's
\* put_nowait into it can never meet queue.Full, whatever duplicates and
\* redeliveries of the same response the topic carries.
RegisteredSlotEmpty ==
    \A r \in pending : slot[r] = <<>>

\* A handler that still waits for its response can always be reached by
\* the consumer: its waiter is registered, or the consumer holds it between
\* pop and put, or the response already sits in its slot. Registering
\* after the send, or losing the waiter between pop and put, breaks this.
WaiterReachable ==
    \A r \in Reqs :
        (Waits(r) /\ pc[r] \in {"sending", "waiting"}) =>
            \/ r \in pending
            \/ held # <<>> /\ Head(held).w = r
            \/ slot[r] # <<>>

\* Once the group has a committed offset, a reconnect resumes at or before
\* the last response the consumer had read: a fault followed by a
\* reconnect may redeliver responses but never skips one.
ConsumerNeverSkips ==
    [][(cstate = "connecting" /\ cstate' = "ready" /\ committed # NoOffset)
         => cpos' <= cpos]_vars

\* Spec 4.3: every running console "must observe every response". A
\* connect of the response consumer never moves its position past
\* responses it has not read, the first join of INSTANCE_ID's group and a
\* reconnect before anything was committed included.
ObservesEveryResponse ==
    [][(cstate = "connecting" /\ cstate' = "ready") => cpos' <= cpos]_vars

\* Every started request returns to its client, whether or not the command
\* reached a node and whether or not a response ever arrives.
RequestCompletes ==
    \A r \in Reqs : (pc[r] # "idle") ~> (pc[r] = "done")

\* The response consumer survives its faults: it eventually reads up to the
\* end of otus-responses and stays there.
ConsumerCatchesUp ==
    <>[](cstate = "ready" /\ cpos = Len(log))

\* Spec 4.2: a publish failure "surfaces synchronously as a dispatch
\* error": a request reported as timed out had its command published.
PublishFailureSurfaces ==
    \A r \in Reqs : outcome[r] = "timeout" => \E c \in cmds : c.rid = r
=============================================================================
