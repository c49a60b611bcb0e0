--------------------------------- MODULE Ports ---------------------------------
(***************************************************************************)
(* The ports of a DSP component, xf-io.c: queues of messages with the      *)
(* state of routing, flushing and purging, and the responses of xf-msg.h.  *)
(*                                                                         *)
(* An operator here is one function of the code. It takes the component    *)
(* record c, whose fields in and out hold the ports, and returns it after  *)
(* the call; c.sent collects the messages the call completes, in order,    *)
(* and c.bugs the assertions of the code (BUG) that did not hold, which a  *)
(* release build ignores and goes on after.                                *)
(*                                                                         *)
(* A message is a record: opcode op, owner src ("app" for the proxy,       *)
(* "feed" for a component connected to an input, "pool" for a message of   *)
(* a routed output), id, port addressed, length len, and nul, whether it   *)
(* has no buffer.  Message 0 of a pool is its control message.  Flags are  *)
(* sets, so that ^= is Toggle.                                             *)
(***************************************************************************)
EXTENDS Integers, Sequences, SequencesExt

NoMsg == [op |-> "none", src |-> "none", id |-> <<"none", 0, 0>>, port |-> 0, len |-> 0, nul |-> TRUE]

LengthInvalid == -1     \* XF_MSG_LENGTH_INVALID

Toggle(S, T) == (S \ T) \cup (T \ S)

Expect(c, holds, name) == IF holds THEN c ELSE [c EXCEPT !.bugs = @ \cup {name}]

-----------------------------------------------------------------------------
(* Responses: between components an emptied buffer goes back as FILL and   *)
(* a filled one on as EMPTY; to the proxy the opcode stays.                *)
Turned(m) ==
    CASE m.src # "app" /\ m.op = "EMPTY" -> [m EXCEPT !.op = "FILL"]
      [] m.src # "app" /\ m.op = "FILL"  -> [m EXCEPT !.op = "EMPTY"]
      [] OTHER -> m

Response(c, m)        == [c EXCEPT !.sent = Append(@, Turned(m))]
ResponseData(c, m, n) == Response(c, [m EXCEPT !.len = n])
ResponseOk(c, m)      == Response(c, [m EXCEPT !.len = 0])
ResponseErr(c, m)     == Response(c, [m EXCEPT !.op = "UNREGISTER", !.len = 0])
ResponseFailure(c, m) == Response(c, [m EXCEPT !.len = LengthInvalid])

RespondAllOk(c, ms)   ==
    [c EXCEPT !.sent = @ \o [k \in DOMAIN ms |-> Turned([ms[k] EXCEPT !.len = 0])]]

-----------------------------------------------------------------------------
(* Input ports *)

InputPort(size) == [queue |-> <<>>, size |-> size, filled |-> 0, access |-> FALSE,
                    remaining |-> 0, flags |-> {"CREATED", "ENABLED"}]

Bypass(p)     == p.size = 0
InputReady(p) == p.queue # <<>> /\ "PURGING" \notin p.flags
Done(p)       == "DONE" \in p.flags

\* the head of the queue is the buffer to read next
AtHead(p) ==
    IF p.queue = <<>> THEN [p EXCEPT !.access = FALSE]
    ELSE [p EXCEPT !.access = ~Head(p.queue).nul, !.remaining = Head(p.queue).len]

\* a port that is put its first message: the caller restarts processing
WakesInput(p, m) == "ENABLED" \in p.flags /\ p.queue = <<>>

InputPut(c, i, m) ==
    LET p   == c.in[i]
        eos == m.len = 0
        q   == [p EXCEPT !.queue = Append(@, m),
                         !.flags = IF eos THEN Toggle(@, {"ENABLED", "EOS"}) ELSE @]
        h   == AtHead(q)
        d   == IF Bypass(p) /\ m.nul THEN [h EXCEPT !.flags = Toggle(@, {"EOS", "DONE"})] ELSE h
    IN  IF "ENABLED" \notin p.flags THEN ResponseOk(c, m)
        ELSE [Expect(c, eos => "EOS" \notin p.flags, "second end of stream")
              EXCEPT !.in[i] = IF p.queue = <<>> THEN d ELSE q]

InputComplete(c, i) ==
    LET p == c.in[i]
    IN  IF p.queue = <<>> THEN Expect(c, FALSE, "complete without message")
        ELSE [Response(c, Head(p.queue))
              EXCEPT !.in[i] = AtHead([p EXCEPT !.queue = Tail(p.queue)])]

MarkDone(c, i) ==
    [Expect(c, "EOS" \in c.in[i].flags, "done without end of stream")
     EXCEPT !.in[i].flags = Toggle(@, {"EOS", "DONE"})]

\* bypass: the consumed head goes back, the next one is exposed
FillBypass(c, i) ==
    IF c.in[i].remaining # 0 \/ c.in[i].queue = <<>> THEN c
    ELSE LET d == InputComplete(c, i)
         IN  IF d.in[i].queue # <<>> /\ ~d.in[i].access THEN MarkDone(d, i) ELSE d

\* otherwise: copy from the queued buffers until the internal one is full,
\* one buffer after the other
FillFrom(c, i) ==
    LET p == c.in[i]
        k == IF p.remaining < p.size - p.filled THEN p.remaining ELSE p.size - p.filled
        d == [c EXCEPT !.in[i].filled = @ + k, !.in[i].remaining = @ - k]
    IN  CASE p.queue = <<>> \/ p.filled = p.size \/ Done(p) -> c
          [] p.queue # <<>> /\ p.filled < p.size /\ ~Done(p) /\ k = 0 -> MarkDone(c, i)
          [] OTHER -> IF d.in[i].remaining = 0 THEN InputComplete(d, i) ELSE d

\* what filling port i in d does to c
Filled(c, i, d) == [c EXCEPT !.in[i] = d.in[i], !.sent = d.sent, !.bugs = d.bugs]

FillBuffer(c, i) ==
    Filled(c, i, FoldLeft(LAMBDA e, m : FillFrom(e, i), c, c.in[i].queue))

InputFill(c, i) == IF Bypass(c.in[i]) THEN FillBypass(c, i) ELSE FillBuffer(c, i)

InputConsume(c, i, n) ==
    LET left(k) == IF k > n THEN k - n ELSE 0
    IN  IF Bypass(c.in[i]) THEN [c EXCEPT !.in[i].remaining = left(@)]
        ELSE [c EXCEPT !.in[i].filled = left(@)]

\* the custom flags of the classes survive a purge
BaseInputFlags == {"CREATED", "ENABLED", "EOS", "DONE", "PURGING"}

InputPurge(c, i) ==
    LET p == c.in[i]
    IN  IF "CREATED" \notin p.flags THEN c
        ELSE [RespondAllOk(c, p.queue) EXCEPT
                !.in[i].queue = <<>>, !.in[i].filled = 0, !.in[i].access = FALSE,
                !.in[i].flags = (@ \ BaseInputFlags) \cup {"CREATED", "ENABLED"}]

InputControlSave(c, i, m) ==
    [Expect(c, "PURGING" \notin c.in[i].flags, "purge already started")
     EXCEPT !.in[i].queue = Append(@, m), !.in[i].flags = Toggle(@, {"PURGING"})]

InputPurgeDone(c, i) ==
    LET d == Expect(c, "PURGING" \in c.in[i].flags, "no purge started")
        p == d.in[i]
    IN  IF p.queue = <<>> THEN Expect(d, FALSE, "no saved flush command")
        ELSE [ResponseOk(d, Head(p.queue))
              EXCEPT !.in[i].queue = Tail(@), !.in[i].flags = Toggle(@, {"PURGING"})]

InputDestroy(c, i) == [c EXCEPT !.in[i].flags = {}]

-----------------------------------------------------------------------------
(* Output ports.  pool counts the data messages of the pool, pools the     *)
(* pools allocated and not yet destroyed.                                  *)

OutputPort == [queue |-> <<>>, pool |-> 0, pools |-> 0, sized |-> FALSE, unroute |-> NoMsg,
               flags |-> {"CREATED", "IDLE"}]

Routed(p)      == "ROUTED" \in p.flags
Unrouting(p)   == "UNROUTING" \in p.flags
Flushing(p)    == "FLUSHING" \in p.flags
OutputReady(p) == p.queue # <<>> /\ ~Unrouting(p) /\ ~Flushing(p)

PoolMsg(o, k) ==
    [op |-> "FILL", src |-> "pool", id |-> <<"pool", o, k>>, port |-> o,
     len |-> IF k = 0 THEN 0 ELSE 1, nul |-> k = 0]

ControlMsg(c, o, m) == m.id = <<"pool", o, 0>>

\* the buffers of the pool, once their length is known
OutputRouteAlloc(c, o, memory) ==
    LET p == c.out[o]
    IN  CASE "ROUTING" \notin p.flags \/ p.sized -> c
          [] "ROUTING" \in p.flags /\ ~p.sized /\ memory ->
                [c EXCEPT !.out[o].queue = @ \o [k \in 1 .. p.pool |-> PoolMsg(o, k)],
                          !.out[o].sized = TRUE,
                          !.out[o].flags = Toggle(@, {"ROUTING", "ROUTED"})]
          [] OTHER -> [c EXCEPT !.out[o].queue = <<>>, !.out[o].pools = @ - 1]

OutputRoute(c, o, n, sized, memory) ==
    LET d == [c EXCEPT !.out[o].pool = n, !.out[o].pools = @ + 1, !.out[o].sized = FALSE,
                       !.out[o].flags = (@ \cup {"ROUTING"}) \ {"IDLE"}]
    IN  IF sized THEN OutputRouteAlloc(d, o, memory) ELSE d

OutputUnroute(c, o) ==
    [c EXCEPT !.out[o].queue = <<>>, !.out[o].pools = @ - 1,
              !.out[o].flags = {"CREATED", "IDLE"}]

OutputUnrouteStart(c, o, m) ==
    [Expect(c, Routed(c.out[o]), "unrouting a port that is not routed")
     EXCEPT !.out[o].unroute = m, !.out[o].flags = @ \cup {"UNROUTING"}]

OutputUnrouteDone(c, o) ==
    LET d == Expect(c, Unrouting(c.out[o]), "no unrouting started")
    IN  ResponseOk([OutputUnroute(d, o) EXCEPT !.out[o].unroute = NoMsg], c.out[o].unroute)

\* whether the message put is the only one of the queue
WakesOutput(p) == p.queue = <<>>
OutputPut(c, o, m) == [c EXCEPT !.out[o].queue = Append(@, m)]

\* looking at the buffer to fill next
OutputData(c, o) ==
    Expect(c, c.out[o].queue = <<>> \/ ~Unrouting(c.out[o]), "data of a port being unrouted")

OutputProduce(c, o, n) ==
    LET p == c.out[o]
        d == Expect(c, ~Unrouting(p), "production on a port being unrouted")
    IN  IF p.queue = <<>> THEN Expect(d, FALSE, "production without buffer")
        ELSE [ResponseData(d, Head(p.queue), n)
              EXCEPT !.out[o].queue = Tail(@), !.out[o].flags = @ \ {"IDLE"}]

\* whether the flush is complete at once
FlushedAtOnce(p, op) == ~Routed(p) \/ ("IDLE" \in p.flags /\ op # "FILL")

\* mutant: a flush under way is started again
OutputFlush_Again(c, o, op) ==
    LET p == c.out[o]
    IN  CASE ~Routed(p) -> [RespondAllOk(c, p.queue) EXCEPT !.out[o].queue = <<>>]
          [] Routed(p) /\ FlushedAtOnce(p, op) -> c
          [] OTHER -> [Response(c, [PoolMsg(o, 0) EXCEPT !.op = op])
                       EXCEPT !.out[o].flags = @ \cup {"FLUSHING"}]

OutputFlush(c, o, op) ==
    LET p == c.out[o]
    IN  CASE ~Routed(p) -> [RespondAllOk(c, p.queue) EXCEPT !.out[o].queue = <<>>]
          [] Routed(p) /\ (FlushedAtOnce(p, op) \/ Flushing(p)) -> c
          [] OTHER -> [Response(c, [PoolMsg(o, 0) EXCEPT !.op = op])
                       EXCEPT !.out[o].flags = Toggle(@, {"FLUSHING"})]

OutputFlushDone(c, o) ==
    [Expect(c, Flushing(c.out[o]), "no flush started")
     EXCEPT !.out[o].flags = Toggle(@, {"IDLE", "FLUSHING"})]

OutputDestroy(c, o) ==
    LET p == c.out[o]
        d == Expect(c, Routed(p) => "IDLE" \in p.flags, "destroying a port that is not idle")
    IN  [(IF Routed(p) THEN OutputUnroute(d, o) ELSE c) EXCEPT !.out[o].flags = {}]
=============================================================================
