-------------------------------- MODULE DataFlow --------------------------------
(***************************************************************************)
(* An audio component of the DSP between those it talks to: the            *)
(* application, which sends it commands and buffers through the proxy,     *)
(* possibly a component that feeds one of its inputs through a route,      *)
(* possibly components its own outputs are routed to, and possibly the     *)
(* device it drives, which interrupts.                                     *)
(*                                                                         *)
(* The component is the code of xa-class-*.c over xa-class-base.c, xf-io.c *)
(* and the message handling of xf-core.c. The application keeps to what    *)
(* xaf-api.c lets it do. The feeding component and the sink are taken for  *)
(* what the ports of such components do: the feeder owns the buffers of    *)
(* its pool and a control message, the sink answers what it gets in order, *)
(* until it is gone and the core answers for it.                           *)
(***************************************************************************)
EXTENDS AudioClass, FiniteSets

CONSTANTS Kinds,    \* components and surroundings to begin with, see Init
          MsgLen    \* length of a buffer of the application or of the feeder

ASSUME KindsAssumption ==
    /\ MsgLen \in Nat \ {0}
    /\ \A k \in Kinds :
        /\ k.class \in {"codec", "mixer", "mimo", "renderer", "capturer"}
        /\ k.ni \in Nat /\ k.no \in Nat /\ k.size \in Nat /\ k.many \in Nat \ {0}
        /\ k.class = "codec" => k.ni = 1 /\ k.no = 1
        /\ k.class = "mixer" => k.no = 1
        /\ k.faults \subseteq {"memory", "sink", "feeder", "probe", "hasty", "early flush",
                               "restart", "late interrupt", "live unroute", "pause at end"}

VARIABLES c,         \* the component
          inbox,     \* messages submitted for it, in order
          sinkq,     \* messages of its pools at the sinks, in order
          sink,      \* whether the sinks are there
          feed,      \* the feeding component: its port, the messages it waits for, whether it is there
          app        \* the application: messages it waits for and what it knows

vars == <<c, inbox, sinkq, sink, feed, app>>

\* a kind k is one of AudioClass, with the inputs that are fed by a component
\* (one at most), the outputs that are to be routed, the ports that may be
\* paused; many bounds the buffers of the application for a port, those of a
\* route, and what both send to the inbox at a time; faults is what may go
\* wrong, or be done at an awkward moment
Init ==
    \E k \in Kinds :
        /\ c = Component(k)
        /\ inbox = <<>> /\ sinkq = <<>> /\ sink = TRUE
        /\ feed = [ports |-> k.fed, held |-> {}, idle |-> TRUE, ended |-> FALSE, alive |-> TRUE]
        /\ app = [held |-> {}, started |-> {}, over |-> {}, routed |-> {}, probed |-> FALSE,
                  closed |-> FALSE, feeds |-> (0 .. k.ni - 1) \ k.fed, sinks |-> k.routed,
                  pauses |-> k.pauses, many |-> k.many, faults |-> k.faults]

Faults == app.faults

-----------------------------------------------------------------------------
(* The application.  It waits for the response to a command before the     *)
(* next; only the disconnection of a route is waited for elsewhere.        *)
Room     == Len(inbox) < app.many
OutPorts == DOMAIN c.out \ {ProbePort(c)}
Cmd      == <<"cmd", 0, 0>>
Waits(kind)    == \E id \in app.held : id[1] = kind
Free(kind, p)  == {<<kind, p, n>> : n \in 1 .. app.many} \ app.held
LowestOf(ids)  == {id \in ids : \A other \in ids : id[3] <= other[3]}

AppMsg(id, op, port, len) ==
    [op |-> op, src |-> "app", id |-> id, port |-> port, len |-> len, nul |-> len = 0]

\* the application sends a message, and is a after it
Send(id, op, port, len, a) ==
    /\ ~app.closed /\ id \notin app.held /\ Room
    /\ inbox' = Append(inbox, AppMsg(id, op, port, len))
    /\ app' = [a EXCEPT !.held = @ \cup {id}]
    /\ UNCHANGED <<c, sinkq, sink, feed>>

AppSetParam ==
    app.started = {} /\ ~Waits("start") /\ Send(Cmd, "SET_PARAM", 0, 1, app)

AppStart ==
    /\ Has(c, "POSTINIT")
    /\ \E o \in OutPorts \ app.started : Send(<<"start", o, 0>>, "FILL", o, 0, app)

\* the end of input i was sent
Ended(i) == i \in app.over \/ (i \in feed.ports /\ feed.ended)

\* whether a stream may start again after its end
Again == "restart" \in Faults \/ c.class = "codec"

\* and whether one may end before the others have begun
Begun(i) ==
    \/ Again
    \/ \A j \in DOMAIN c.in \ {i} :
        "IDLE" \notin c.in[j].flags \/ Ended(j)

Running == app.started # {} \/ Waits("start") \/ OutPorts = {}

AppInput ==
    /\ Running
    /\ \E i \in app.feeds \ app.over : \E id \in LowestOf(Free("in", i)) :
        Send(id, "EMPTY", i, MsgLen, app)

AppInputOver ==
    /\ Running
    /\ \E i \in app.feeds \ app.over : Begun(i) /\
        Send(<<"eos", i, 0>>, "EMPTY", i, 0, [app EXCEPT !.over = @ \cup {i}])

AppOutput ==
    \E o \in app.started \ app.sinks : \E id \in LowestOf(Free("out", o)) :
        Send(id, "FILL", o, 1, app)

AppProbe ==
    /\ c.probe /\ OutPorts \subseteq app.started
    /\ \E id \in LowestOf(Free("out", ProbePort(c))) : Send(id, "FILL", ProbePort(c), 1, app)

AppRoute ==
    /\ Has(c, "POSTINIT") /\ ~Waits("unroute")
    /\ \E o \in app.sinks \ app.routed : Send(Cmd, "ROUTE", o, 1, app)

\* an application that takes its time
Quiet == "hasty" \in Faults \/ (~Waits("eos") /\ 0 \notin feed.held)

\* no interrupt waits to be handled
Disarmed == c.class = "capturer" /\ "late interrupt" \notin Faults => ~c.irq

\* nothing will wake the component: its device does not run, the buffers of a
\* mixer's route are back
Stopped ==
    \/ "live unroute" \in Faults
    \/ CASE c.class \in {"renderer", "capturer"} -> StageOf(c) = {} /\ ~c.irq /\ c.task = 0
         [] c.class = "mixer" -> inbox = <<>> /\ sinkq = <<>> /\ c.task = 0
         [] OTHER -> TRUE

AppUnroute ==
    /\ Quiet /\ Stopped /\ ~Waits("cmd")
    /\ \E o \in app.routed \cap app.started :
        Send(<<"unroute", o, 0>>, "UNROUTE", o, 0, [app EXCEPT !.routed = @ \ {o}])

AppPause ==
    /\ Has(c, "POSTINIT")
    /\ \E port \in app.pauses : /\ "pause at end" \in Faults \/ ~Ended(port)
                                /\ Send(Cmd, "PAUSE", port, 0, app)

AppResume ==
    /\ Has(c, "POSTINIT")
    /\ \E port \in app.pauses :
        /\ port = ProbePort(c) => "probe" \in Faults \/ ~app.probed
        /\ Send(Cmd, "RESUME", port, 0, [app EXCEPT !.probed = @ \/ port = ProbePort(c)])

\* the application has its probe buffers back
Unprobed == "probe" \in Faults \/ \A id \in app.held : ~(id[1] = "out" /\ id[2] = ProbePort(c))

AppUnregister ==
    /\ ~Waits("cmd") /\ ~Waits("unroute") /\ Quiet /\ Disarmed
    /\ c.class = "mimo" => Unprobed
    /\ c.class = "renderer" /\ "hasty" \notin Faults => ~Waits("start") /\ app.routed = {}
    /\ Send(Cmd, "UNREGISTER", 0, 0, [app EXCEPT !.closed = TRUE])

\* what the application learns from an answer
Learn(a, m) ==
    LET b == [a EXCEPT !.held = @ \ {m.id}]
    IN  CASE m.id[1] = "start" /\ m.len > 0 -> [b EXCEPT !.started = @ \cup {m.port}]
          [] m.id[1] = "eos" /\ Again -> [b EXCEPT !.over = @ \ {m.port}]
          [] m.op = "ROUTE" -> [b EXCEPT !.routed = @ \cup {m.port}]
          [] OTHER -> b

-----------------------------------------------------------------------------
(* The feeder: its data buffers, from 1 on, and the control message 0, with  *)
(* which it ends the stream or flushes.                                    *)
FeedMsg(id, op, i) ==
    [op |-> op, src |-> "feed", id |-> <<"feed", i, id>>, port |-> i,
     len |-> IF id = 0 THEN 0 ELSE MsgLen, nul |-> id = 0]

Feed(id, op) ==
    /\ feed.alive /\ {id, 0} \cap feed.held = {} /\ Room
    /\ \E i \in feed.ports : (id = 0 => Begun(i)) /\ inbox' = Append(inbox, FeedMsg(id, op, i))
    /\ Again \/ ~feed.ended
    /\ feed' = [feed EXCEPT !.held = @ \cup {id}, !.idle = id = 0, !.ended = @ \/ id = 0]
    /\ UNCHANGED <<c, sinkq, sink, app>>

FeedData ==
    /\ Has(c, "POSTINIT")
    /\ \E id \in 1 .. app.many : (\A k \in 1 .. id - 1 : k \in feed.held) /\ Feed(id, "EMPTY")
FeedOver  == Has(c, "POSTINIT") /\ ~feed.idle /\ Feed(0, "EMPTY")
FeedFlush == ~feed.idle /\ ("early flush" \in Faults \/ app.started # {}) /\ Feed(0, "FLUSH")

\* the feeder is gone once its flush is answered
FeedGone ==
    /\ "feeder" \in Faults /\ feed.ports # {} /\ feed.alive /\ feed.held = {}
    /\ feed' = [feed EXCEPT !.alive = FALSE]
    /\ UNCHANGED <<c, inbox, sinkq, sink, app>>

-----------------------------------------------------------------------------
(* The sinks answer in order; once they are gone the core answers.         *)
SinkAnswer ==
    /\ sinkq # <<>>
    /\ LET m == Head(sinkq)
       IN  inbox' = Append(inbox, Turned([m EXCEPT !.len = IF sink THEN @ ELSE LengthInvalid]))
    /\ sinkq' = Tail(sinkq)
    /\ UNCHANGED <<c, sink, feed, app>>

SinkGone ==
    /\ "sink" \in Faults /\ sink /\ app.sinks # {} /\ sink' = FALSE
    /\ UNCHANGED <<c, inbox, sinkq, feed, app>>

\* the device interrupts; its handler schedules the component's message,
\* unless it is
Leaving == Waits("unroute") \/ app.closed

Interrupt ==
    /\ c.hw /\ ~c.irq
    /\ c.class = "capturer" /\ Leaving => "late interrupt" \in Faults
    /\ c' = [c EXCEPT !.irq = TRUE]
    /\ inbox' = Append(inbox, IsrMsg(IF c.class = "renderer" THEN "FILL" ELSE "EMPTY"))
    /\ UNCHANGED <<sinkq, sink, feed, app>>

-----------------------------------------------------------------------------
(* The component.  What it completes goes back to whom it came from.       *)
From(s, src) == SelectSeq(s, LAMBDA m : m.src = src)

Answered(s) == {m.id : m \in Range(s)}

EachOnce(s, held) == Len(s) = Cardinality(Answered(s)) /\ Answered(s) \subseteq held

FeedIds(held) == {<<"feed", i, n>> : i \in feed.ports, n \in held}

Commit(r) ==
    LET toApp  == From(r.sent, "app")
        toFeed == From(r.sent, "feed")
        d == Expect(r, EachOnce(toApp, app.held) /\ EachOnce(toFeed, FeedIds(feed.held)),
                    "answered twice")
        e == Expect(d, From(r.sent, "isr") = <<>>, "answer to an interrupt")
    IN  /\ c' = [e EXCEPT !.sent = <<>>, !.ret = "ok"]
        /\ app' = FoldLeft(Learn, app, toApp)
        /\ feed' = [feed EXCEPT !.held = {n \in @ : FeedIds({n}) \cap Answered(toFeed) = {}}]
        /\ sinkq' = sinkq \o From(r.sent, "pool")

M == Head(inbox)
Memory == IF "memory" \in Faults THEN BOOLEAN ELSE {TRUE}

DoCommand ==
    /\ inbox # <<>> /\ c.entry = "command"
    /\ \E mem \in Memory : \E r \in {Command(c, M, [buffers |-> app.many, memory |-> mem,
                                                    sized |-> app.started # {}])} :
            Commit(Received(r, M))
    /\ inbox' = Tail(inbox) /\ UNCHANGED sink

DoTerminate ==
    /\ inbox # <<>> /\ c.entry = "terminate"
    /\ \E r \in {Terminate(c, M)} : Commit(Received(r, M))
    /\ inbox' = Tail(inbox) /\ UNCHANGED sink

\* the component is not registered any more: the core answers
DoDispatchFailure ==
    /\ inbox # <<>> /\ c.entry = "gone"
    /\ Commit([c EXCEPT !.sent = IF M.src = "pool" THEN <<>> ELSE <<NotRegistered(M)>>])
    /\ inbox' = Tail(inbox) /\ UNCHANGED sink

Process ==
    /\ c.task > 0 /\ c.entry = "command"
    /\ \E p \in {Preprocess(Take(c))} :
        \E r \in IF p.ret = "no data" THEN {p}
                 ELSE {BaseProcess(p, o) : o \in {x \in Outcomes(p, Memory) : x.done => Disarmed}} :
            Commit(r)
    /\ UNCHANGED <<inbox, sink>>

-----------------------------------------------------------------------------
Handle == DoCommand \/ DoTerminate \/ DoDispatchFailure

Next ==
    \/ AppSetParam \/ AppStart \/ AppInput \/ AppInputOver \/ AppOutput \/ AppProbe
    \/ AppRoute \/ AppUnroute \/ AppPause \/ AppResume \/ AppUnregister
    \/ FeedData \/ FeedOver \/ FeedFlush \/ FeedGone \/ SinkAnswer \/ SinkGone
    \/ Interrupt \/ Handle \/ Process

Spec == Init /\ [][Next]_vars

-----------------------------------------------------------------------------
\* Everything has its type: a task is at most once in the tree, a command that
\* is under way has come to its end.
TypeOK ==
    /\ app.held \subseteq ({"cmd", "start", "eos", "in", "out", "unroute"} \X Nat \X Nat)
    /\ feed.held \subseteq 0 .. app.many
    /\ c.task \in Nat /\ c.entry \in {"command", "terminate", "gone"}
    /\ c.ret = "ok" /\ c.sent = <<>>

\* No assertion of the code fails, and no answer is given twice.
NoBug == c.bugs = {}

Queued(ports) == FoldFunction(LAMBDA p, s : s \o p.queue, <<>>, ports)

\* where the messages are that are not on their way to a sink
Held(src) ==
    From(inbox \o Queued(c.in) \o Queued(c.out) \o <<c.saved>>
         \o [n \in 1 .. c.no |-> c.out[c.ni + n - 1].unroute], src)

\* messages with data, or with the end of it
Data ==
    {m \in [op : STRING, src : STRING, id : STRING \X Nat \X Nat, port : Nat, len : Nat,
            nul : BOOLEAN] : m.nul <=> m.len = 0}

\* A message that is to be emptied is of that kind: a buffer of a pool, whose
\* length its sink may have set to an invalid one, comes back to be filled.
OnlyDataIsEmptied == \A m \in Range(inbox) : m.op = "EMPTY" => m \in Data

\* Every message the application or the feeder waits for is at one place, no
\* buffer of a pool is at two, and none comes back as a message with data.
NothingLost ==
    /\ OnlyDataIsEmptied
    /\ EachOnce(Held("app"), app.held) /\ Answered(Held("app")) = app.held
    /\ EachOnce(Held("feed"), FeedIds(feed.held)) /\ Len(Held("feed")) = Cardinality(feed.held)
    /\ LET s == Held("pool") \o sinkq IN EachOnce(s, Answered(s))

\* A pool that is freed has no message on its way, nor has a component that
\* is gone: the handler of its message would use freed memory.
NoUseAfterFree ==
    /\ \A o \in OutPorts :
        ~Routed(c.out[o]) => \A m \in Range(From(inbox \o sinkq, "pool")) : m.port # o
    /\ c.entry = "gone" => From(inbox, "isr") = <<>>

\* The flag tells whether the task is in the scheduler's tree, where it may
\* be only once, and not when the component ends.
FlagMatchesTree ==
    /\ c.task = IF Has(c, "SCHEDULE") THEN 1 ELSE 0
    /\ c.entry # "command" => c.task = 0

\* The flag is lost in one way only, whatever the surroundings: a component
\* that is scheduled after its end gets a message that starts it again
\* (xa-class-mixer.c:302). No run checks it, DataFlow_proofs proves it.
Overtaken(d) == Has(d, "SCHEDULE") /\ (Has(d, "COMPLETED") \/ Has(d, "EOS_SEQ_DONE"))

StartsAgain(d, m) ==
    \/ m.op = "EMPTY" /\ d.class \in {"codec", "mixer", "mimo"}
    \/ m.op = "FILL" /\ d.class = "codec"

LostByRestart ==
    [][FlagMatchesTree /\ ~FlagMatchesTree' =>
        inbox # <<>> /\ Overtaken(c) /\ StartsAgain(c, M)]_vars

\* A codec, or a mixer, that could process is going to.
CodecCould ==
    /\ c.class = "codec" /\ StageOf(c) # {}
    /\ ~InPaused(c) /\ ~OutPaused(c) /\ BothReady(c) /\ ~ProbeWaits(c)

MixerCould ==
    /\ c.class = "mixer" /\ Has(c, "EXECUTION")
    /\ MixReady(c) /\ ~MixPaused(c) /\ ~ProbeWaits(c) /\ ActiveTracks(c) # {}
    /\ \A i \in ActiveTracks(c) :
        c.in[i].queue # <<>> \/ c.in[i].filled > 0 \/ Done(c.in[i]) \/ "INPUT_SETUP" \in c.in[i].flags

NoLostWakeup == c.entry = "command" /\ (CodecCould \/ MixerCould) => c.task > 0

\* A track of a mixer is idle, active or paused.
OneTrackState ==
    c.class = "mixer" /\ c.entry = "command" => \A i \in DOMAIN c.in :
        Cardinality(c.in[i].flags \cap {"IDLE", "ACTIVE", "PAUSED"}) = 1

\* What the plug-in was told of its connections is how the ports are, as long
\* as the sinks are there: their loss is not reported to it.
PluginAgrees ==
    c.class = "mimo" /\ c.entry = "command" /\ sink =>
        c.plugged = ActiveTracks(c) \cup {o \in OutPorts : OutFlag(c, o, "TRACK_ROUTED")}

\* The answer to the feeder's control message comes after all its buffers.
FeedHome == [][0 \in feed.held /\ 0 \notin feed'.held => feed'.held = {}]_vars

\* A deleted component leaves nothing unanswered: when there is no message
\* and no task left to go on with, it is gone, and so are all its duties.
AllAnswered ==
    app.closed /\ inbox = <<>> /\ sinkq = <<>> /\ c.task = 0 =>
        c.entry = "gone" /\ app.held = {} /\ feed.held = {}
=============================================================================
