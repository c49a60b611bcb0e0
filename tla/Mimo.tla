---------------------------------- MODULE Mimo ----------------------------------
(***************************************************************************)
(* The class of components with several inputs and outputs,                *)
(* xa-class-mimo-proc.c.  An output that is not routed, or is paused, does *)
(* not hold the others up; c.relaxed holds the ports that processing never *)
(* waits for, c.plugged those the plug-in was told are connected.          *)
(*                                                                         *)
(* The class keeps flags of its own with each port; on an output they are  *)
(* TRACK_IDLE, TRACK_ACTIVE, TRACK_ROUTED, PAUSED, OUTPUT_SETUP,           *)
(* NO_BUFFER (a relaxed output set up without one) and FLUSHING_DONE; the  *)
(* flag of a flush under way is left out, as nothing reads it.             *)
(***************************************************************************)
EXTENDS AudioBase

InFlag(c, i, f)  == f \in c.in[i].flags
OutFlag(c, o, f) == f \in c.out[o].flags

AddOut(c, o, fs)  == [c EXCEPT !.out[o].flags = @ \cup fs]
DropOut(c, o, fs) == [c EXCEPT !.out[o].flags = @ \ fs]

Ins(c)  == 0 .. c.ni - 1
Outs(c) == c.ni .. c.ni + c.no - 1

CheckActive(c) == {i \in Ins(c) : c.in[i].flags \cap {"RECVD_DATA", "ACTIVE"} # {}}

InputsReady(c) ==
    \E i \in Ins(c) : \/ i \in c.relaxed \/ InFlag(c, i, "PAUSED")
                      \/ i \in CheckActive(c) /\ InputReady(c.in[i])

OutputsReady(c) ==
    \A o \in Outs(c) :
        \/ o \in c.relaxed /\ ~Has(c, "RUNTIME_INIT")
        \/ OutFlag(c, o, "PAUSED")
        \/ ~OutFlag(c, o, "TRACK_ROUTED") /\ ~Has(c, "RUNTIME_INIT") /\ c.no > 1
        \/ OutputReady(c.out[o])

BothSides(c) == InputsReady(c) /\ OutputsReady(c)

AllFlushed(c) == \A o \in Outs(c) : OutFlag(c, o, "FLUSHING_DONE")

Connect(c, p)    == [c EXCEPT !.plugged = @ \cup {p}]
Disconnect(c, p) == [c EXCEPT !.plugged = @ \ {p}]

\* an output whose buffers are there is connected to the plug-in
RouteTrack(c, o, alloc) ==
    IF alloc THEN Connect(AddOut(c, o, {"TRACK_ROUTED"}), o)
    ELSE Disconnect(DropOut(c, o, {"TRACK_ROUTED"}), o)

\* the message that started an output goes back with the format
MimoStartTrack(c, o, memory) ==
    LET allocates == "ROUTING" \in c.out[o].flags /\ ~c.out[o].sized /\ memory
        d == OutputRouteAlloc([c EXCEPT !.out[o].queue = Tail(@)], o, memory)
    IN  IF c.out[o].queue = <<>> THEN c
        ELSE ResponseData(RouteTrack(d, o, allocates), Head(c.out[o].queue), 1)

MimoPrepareRuntime(c, memory) ==
    LET d == FoldLeft(LAMBDA e, o : MimoStartTrack(e, o, memory), c, Outputs(c))
        failed == \E o \in Outs(c) : /\ c.out[o].queue # <<>>
                                     /\ "ROUTING" \in c.out[o].flags /\ ~memory
    IN  CASE c.no = 0 -> Schedule(c)
          [] c.no > 0 /\ c.out[c.ni].queue = <<>> -> Fail(c, "execution error")
          [] OTHER -> ScheduleIf(d, ~failed /\ BothSides(d))

-----------------------------------------------------------------------------
MimoEmpty(c, m) ==
    LET d == TrackReceives(c, m)
        e == IF Has(d, "COMPLETED") THEN Restart(d) ELSE d
        f == IF InFlag(e, m.port, "IDLE")
             THEN Connect([e EXCEPT !.in[m.port].flags = Toggle(@, {"IDLE", "ACTIVE"})], m.port)
             ELSE e
    IN  CASE ~Has(c, "POSTINIT") -> Fail(c, "error")
          [] Has(c, "POSTINIT") /\ ~WakesInput(c.in[m.port], m) -> d
          [] OTHER -> ScheduleIf(f, OutputsReady(f) /\ (~Has(f, "RUNTIME_INIT") \/ f.no = 0))

MimoFillProbe(c, m) ==
    LET d == OutputPut(c, m.port, m)
    IN  IF Has(c, "COMPLETED") \/ ProbePaused(c) THEN ResponseOk(c, m)
        ELSE ScheduleIf(d, /\ WakesOutput(c.out[m.port]) /\ BothSides(d)
                           /\ Has(c, "EXECUTION"))

\* the control message of a route is back; the last one ends the inputs
MimoFlushReturned(c, m) ==
    LET o == m.port
        d == AddOut(OutputFlushDone(c, o), o, {"FLUSHING_DONE"})
        e == IF AllFlushed(d) THEN FlushProbe(PurgeTracks(d)) ELSE d
    IN  CASE Unrouting(e.out[o]) -> OutputUnrouteDone(e, o)
          [] ~Unrouting(e.out[o]) /\ m.len = LengthInvalid -> OutputUnroute(e, o)
          [] OTHER -> e

\* schedules if there is something to do that the probe does not hold up
MimoRun(c) ==
    ScheduleIf(c, /\ OutputsReady(c) /\ (InputsReady(c) \/ Has(c, "RUNTIME_INIT"))
                  /\ ~ProbeWaits(c))

\* a buffer back from a component that no longer exists: collect the others
MimoSinkLost(c, o) ==
    LET d == OutputFlush(Cancel(c), o, "FILL")
        e == DropOut(d, o, {"OUTPUT_SETUP", "TRACK_ROUTED"})
    IN  IF Flushing(c.out[o]) THEN c
        ELSE MimoRun(Disconnect(e, o))

\* a buffer to fill: the first one starts its output
MimoFillOutput(c, m) ==
    LET o == m.port
        d == OutputPut(c, o, m)
        e == IF OutFlag(d, o, "TRACK_IDLE")
             THEN [d EXCEPT !.out[o].flags = Toggle(@, {"TRACK_IDLE", "TRACK_ACTIVE"})] ELSE d
        f == IF ~OutFlag(e, o, "TRACK_ROUTED") /\ m.len # 0 /\ ~Unrouting(e.out[o])
             THEN RouteTrack(e, o, TRUE) ELSE e
    IN  IF WakesOutput(c.out[o]) THEN MimoRun(f) ELSE d

MimoFill(c, m) ==
    CASE ~Has(c, "POSTINIT") -> Fail(c, "error")
      [] Has(c, "POSTINIT") /\ c.probe /\ m.port = ProbePort(c) -> MimoFillProbe(c, m)
      [] Has(c, "POSTINIT") /\ m.port \in Outs(c) /\ Has(c, "RUNTIME_INIT") ->
            IF m.len = 0 THEN MimoFillOutput(c, m) ELSE Fail(c, "error")
      [] OTHER ->
            CASE ControlMsg(c, m.port, m) -> MimoFlushReturned(c, m)
              [] /\ ~ControlMsg(c, m.port, m) /\ Has(c, "COMPLETED")
                 /\ ~Routed(c.out[m.port]) -> ResponseOk(c, m)
              [] /\ ~ControlMsg(c, m.port, m) /\ m.len = LengthInvalid
                 /\ Routed(c.out[m.port]) -> MimoSinkLost(c, m.port)
              [] OTHER -> MimoFillOutput(c, [m EXCEPT !.len = 1])

-----------------------------------------------------------------------------
\* routing begins by forgetting the flags of the port
MimoRoute(c, m, o) ==
    LET p == m.port
        d == [c EXCEPT !.out[p].flags = {"TRACK_ACTIVE"}]
        e == OutputRoute(d, p, o.buffers, o.sized, o.memory)
        f == RouteTrack(e, p, o.sized)
    IN  CASE ~Has(c, "POSTINIT") \/ Routed(c.out[p]) -> Fail(c, "error")
          [] Has(c, "POSTINIT") /\ ~Routed(c.out[p]) /\ o.sized /\ ~o.memory -> Fail(e, "error")
          [] OTHER -> ResponseOk(ScheduleIf(f, BothSides(f)), m)

\* mutant: the plug-in goes on with a port that is gone
MimoUnroute_StaysConnected(c, m) ==
    LET o == m.port
        d == DropOut(Cancel(c), o, {"OUTPUT_SETUP", "TRACK_ROUTED"})
        e == OutputFlush(d, o, "FLUSH")
        f == OutputUnroute(e, o)
    IN  CASE ~Has(c, "POSTINIT") -> Fail(c, "error")
          [] Has(c, "POSTINIT") /\ ~Routed(c.out[o]) -> ResponseOk(c, m)
          [] OTHER ->
                IF FlushedAtOnce(d.out[o], "FLUSH") THEN ResponseOk(ScheduleIf(f, OutputsReady(f)), m)
                ELSE OutputUnrouteStart(e, o, m)

MimoUnroute(c, m) ==
    LET o == m.port
        d == Disconnect(DropOut(Cancel(c), o, {"OUTPUT_SETUP", "TRACK_ROUTED"}), o)
        e == OutputFlush(d, o, "FLUSH")
        f == OutputUnroute(e, o)
    IN  CASE ~Has(c, "POSTINIT") -> Fail(c, "error")
          [] Has(c, "POSTINIT") /\ ~Routed(c.out[o]) -> ResponseOk(c, m)
          [] OTHER ->
                IF FlushedAtOnce(d.out[o], "FLUSH") THEN ResponseOk(ScheduleIf(f, OutputsReady(f)), m)
                ELSE OutputUnrouteStart(e, o, m)

-----------------------------------------------------------------------------
MimoFlushInput(c, m) ==
    LET i == m.port
        d == [InputPurge(c, i) EXCEPT !.in[i].flags =
                (@ \ {"ACTIVE", "PAUSED", "INPUT_SETUP", "RECVD_DATA"}) \cup {"IDLE"}]
        e == Disconnect(d, i)
    IN  Response(IF c.in[i].flags \cap {"ACTIVE", "PAUSED"} = {} THEN c
                 ELSE ScheduleIf(e, BothSides(e)), m)

\* the answer to the flush of an unrouting
MimoFlushUnrouting(c, o) ==
    LET d == AddOut(ScheduleIf(c, OutputsReady(c)), o, {"FLUSHING_DONE"})
        e == IF Has(d, "COMPLETED") /\ AllFlushed(d) THEN PurgeTracks(d) ELSE d
    IN  OutputUnrouteDone(e, o)

MimoFlushOutput(c, m) ==
    LET o == m.port
        d == IF Routed(c.out[o])
             THEN AddOut(OutputFlushDone(Expect(c, ControlMsg(c, o, m), "answer to another flush"), o),
                         o, {"FLUSHING_DONE"})
             ELSE Response(OutputFlush(c, o, "FLUSH"), m)
        e == IF AllFlushed(d) THEN PurgeTracks(d) ELSE d
    IN  DropOut(e, o, {"PAUSED", "OUTPUT_SETUP"})

MimoFlush(c, m) ==
    CASE ~Has(c, "POSTINIT") \/ m.len \notin {0, LengthInvalid} -> Fail(c, "error")
      [] Has(c, "POSTINIT") /\ m.len \in {0, LengthInvalid} /\ m.port \in Ins(c) ->
            MimoFlushInput(c, m)
      [] OTHER -> IF Unrouting(c.out[m.port]) THEN MimoFlushUnrouting(c, m.port)
                  ELSE MimoFlushOutput(c, m)

-----------------------------------------------------------------------------
\* whether a port is played, so that it can be paused
Played(c, p) ==
    CASE p \in Ins(c)  -> InFlag(c, p, "ACTIVE")
      [] p \in Outs(c) -> OutFlag(c, p, "TRACK_ACTIVE")
      [] OTHER         -> c.probe

MimoPause(c, m) ==
    LET p == m.port
        d == CASE p \in Ins(c)  -> [c EXCEPT !.in[p].flags = @ \cup {"PAUSED"}]
               [] p \in Outs(c) -> AddOut(c, p, {"PAUSED"})
               [] OTHER         -> IF ProbePaused(c) THEN c ELSE StopProbe(c)
    IN  ResponseOk(IF Has(c, "COMPLETED") \/ ~Played(c, p) \/ d = c THEN c
                   ELSE ScheduleIf(d, BothSides(d)), m)

MimoResume(c, m) ==
    LET p == m.port
        d == CASE p \in Ins(c)  -> [c EXCEPT !.in[p].flags = @ \ {"PAUSED"}]
               [] p \in Outs(c) -> DropOut(c, p, {"PAUSED"})
               [] OTHER         -> StartProbe(c)
        ready == BothSides(d) /\ (p = ProbePort(c) => OutputReady(d.out[p]))
    IN  ResponseOk(IF Has(c, "COMPLETED") \/ ~Played(c, p) \/ d = c THEN c
                   ELSE ScheduleIf(d, ready), m)

-----------------------------------------------------------------------------
(* Preparation of a round.                                                 *)
MimoSetupOutput(c, o) ==
    LET empty == c.out[o].queue = <<>>
        d == OutputData(c, o)
    IN  CASE \/ c.ret = "no data" \/ ~OutFlag(c, o, "TRACK_ACTIVE") \/ OutFlag(c, o, "PAUSED")
             \/ ~OutFlag(c, o, "TRACK_ROUTED") \/ OutFlag(c, o, "OUTPUT_SETUP") -> c
          [] OTHER ->
                IF empty /\ o \notin c.relaxed THEN Fail(d, "no data")
                ELSE AddOut(DropOut(d, o, {"NO_BUFFER"}), o,
                            {"OUTPUT_SETUP"} \cup IF empty THEN {"NO_BUFFER"} ELSE {})

\* what an input offers; acc counts the starved ones
MimoOffer(acc, i) ==
    LET c == acc.c
        d == IF ~Bypass(c.in[i]) /\ Done(c.in[i]) THEN c ELSE InputFill(c, i)
        q == d.in[i]
        filled  == CASE ~Bypass(q)            -> q.filled
                     [] Bypass(q) /\ q.access -> q.remaining
                     [] OTHER                 -> 0
        starved == ~Done(q) /\ filled = 0 /\ "PAUSED" \notin q.flags /\ i \notin c.relaxed
        e == [d EXCEPT !.in[i].flags = @ \cup {"INPUT_SETUP"}, !.avail[i] = filled,
                       !.over[i] = @ \/ Done(q)]
    IN  CASE c.ret = "no data" \/ ~InFlag(c, i, "ACTIVE") \/ InFlag(c, i, "INPUT_SETUP") -> acc
          [] OTHER ->
                CASE ~starved -> [acc EXCEPT !.c = e]
                  [] starved /\ acc.starved + 1 = Cardinality(CheckActive(d)) ->
                        [acc EXCEPT !.c = Fail(d, "no data")]
                  [] OTHER -> [c |-> d, starved |-> acc.starved + 1]

MimoPreprocess(c) ==
    LET d == SetupProbe(c)
        f == FoldLeft(MimoSetupOutput, d, Outputs(c))
        g == FoldLeft(MimoOffer, [c |-> f, starved |-> 0], Inputs(c)).c
    IN  CASE NeedsProbe(c) /\ c.out[ProbePort(c)].queue = <<>> -> Fail(c, "no data")
          [] /\ ~(NeedsProbe(c) /\ c.out[ProbePort(c)].queue = <<>>)
             /\ Has(c, "RUNTIME_INIT") /\ \E o \in Outs(c) : OutFlag(c, o, "TRACK_ACTIVE") -> d
          [] OTHER -> IF ActiveTracks(f) = {} THEN Fail(f, "no data") ELSE g

-----------------------------------------------------------------------------
(* What follows a round: consumed[i] units of input i were read, and the   *)
(* outputs of the set produced were filled.                                *)
MimoConsumed(c, i, n, done) ==
    LET d == IF n > 0 THEN InputConsume(c, i, n) ELSE c
        e == IF n > 0 \/ d.in[i].size # d.in[i].filled
             THEN [d EXCEPT !.in[i].flags = @ \ {"INPUT_SETUP"}] ELSE d
        f == Disconnect([e EXCEPT !.in[i].flags = Toggle(@, {"ACTIVE", "IDLE"})], i)
    IN  CASE ~InFlag(c, i, "ACTIVE") -> c
          [] InFlag(c, i, "ACTIVE") /\ Done(e.in[i]) /\ e.in[i].filled = 0 ->
                IF CheckActive(f) # {} \/ ~done THEN InputPurge(f, i) ELSE f
          [] OTHER -> e

MimoProduced(c, o, produced) ==
    CASE ~OutFlag(c, o, "TRACK_ACTIVE") \/ ~OutFlag(c, o, "TRACK_ROUTED") -> c
      [] OutFlag(c, o, "TRACK_ACTIVE") /\ OutFlag(c, o, "TRACK_ROUTED") /\ o \in produced ->
            DropOut(OutputProduce(c, o, 1), o, {"OUTPUT_SETUP", "FLUSHING_DONE"})
      [] OTHER -> IF OutFlag(c, o, "NO_BUFFER") THEN DropOut(c, o, {"OUTPUT_SETUP"}) ELSE c

\* the outputs are told that the stream is over
MimoFlushTrack(c, o, op) ==
    AddOut(OutputFlush(c, o, op), o, IF FlushedAtOnce(c.out[o], op) THEN {"FLUSHING_DONE"} ELSE {})

MimoCompleted(c) ==
    LET d == FoldLeft(LAMBDA e, o : MimoFlushTrack(e, o, "FILL"), c, Outputs(c))
    IN  IF AllFlushed(d) THEN FlushProbe(PurgeTracks(d)) ELSE d

MimoReschedule(c, used, filled) ==
    ScheduleIf(c, BothSides(c) /\ (used \/ (c.no > 0 /\ filled)))

MimoPostprocess(c, o, running) ==
    LET d == FoldLeft(LAMBDA e, i : MimoConsumed(e, i, o.consumed[i], o.done), c, Inputs(c))
        e == FoldLeft(LAMBDA f, p : MimoProduced(f, p, o.produced), d, Outputs(c))
        used   == \E i \in ActiveTracks(c) : o.consumed[i] > 0
        filled == \E p \in o.produced : {"TRACK_ACTIVE", "TRACK_ROUTED"} \subseteq d.out[p].flags
        g == IF running THEN ProduceProbe(e, used \/ filled) ELSE e
    IN  CASE o.done /\ Has(c, "EXECUTION")  -> MimoPrepareRuntime(g, o.memory)
          [] o.done /\ ~Has(c, "EXECUTION") -> MimoCompleted(g)
          [] OTHER -> MimoReschedule(g, used, filled)

-----------------------------------------------------------------------------
(* Termination waits for the flush of every output that is routed.         *)
MimoTerminate(c, m) ==
    LET o == m.port
        d == AddOut(OutputFlushDone(c, o), o, {"FLUSHING_DONE"})
    IN  CASE o \in Outs(c) /\ ControlMsg(c, o, m) ->
                IF AllFlushed(d) THEN Fail(d, "unregister") ELSE d
          [] o \in Outs(c) /\ ~ControlMsg(c, o, m) /\ m.op = "FILL" /\ Routed(c.out[o]) -> c
          [] OTHER -> IF m.src = "app" THEN ResponseErr(c, m) ELSE ResponseFailure(c, m)

MimoDestroy(c) ==
    LET d == FoldLeft(OutputDestroy, FoldLeft(InputDestroy, c, Inputs(c)), Outputs(c))
        e == IF c.probe THEN OutputDestroy(d, ProbePort(c)) ELSE d
    IN  [(IF c.saved.op # "none" THEN ResponseErr(e, c.saved) ELSE e)
         EXCEPT !.entry = "gone", !.saved = NoMsg]

MimoCleanup(c, m) ==
    LET d == PurgeTracks(Cancel(c))
        e == FoldLeft(LAMBDA f, o : MimoFlushTrack(f, o, "FLUSH"), d, Outputs(c))
        g == [e EXCEPT !.saved = m]
    IN  IF AllFlushed(g) THEN MimoDestroy(FlushProbe(g)) ELSE [g EXCEPT !.entry = "terminate"]
=============================================================================
