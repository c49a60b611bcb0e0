--------------------------------- MODULE Mixer ---------------------------------
(***************************************************************************)
(* The mixer class of DSP components, xa-class-mixer.c: c.ni tracks, the   *)
(* input ports, are mixed into the one output port.  A track is idle until *)
(* data arrives, active, or paused; a round of processing waits for all    *)
(* the active tracks.                                                      *)
(***************************************************************************)
EXTENDS AudioBase

MixOut(c)       == c.ni
MixPaused(c)    == "PAUSED" \in c.out[MixOut(c)].flags
MixReady(c)     == OutputReady(c.out[MixOut(c)])
MixSchedule(c)  == ScheduleIf(c, MixReady(c))

\* the mixer is initialised: the pool of a route gets its buffers, and the
\* message that started it goes back with the format
MixPrepareRuntime(c, memory) ==
    LET d == OutputRouteAlloc(c, MixOut(c), memory)
    IN  OutputProduce(MixSchedule(d), MixOut(c), 1)

-----------------------------------------------------------------------------
\* the first message of an idle track starts it
MixerEmpty(c, m) ==
    LET d == TrackReceives(c, m)
        e == IF Has(d, "COMPLETED") THEN Restart(d) ELSE d
        f == [e EXCEPT !.in[m.port].flags =
                IF "IDLE" \in @ THEN Toggle(@, {"IDLE", "ACTIVE"}) ELSE @]
    IN  CASE ~Has(c, "POSTINIT") -> Fail(c, "error")
          [] Has(c, "POSTINIT") /\ ~WakesInput(c.in[m.port], m) -> d
          [] OTHER -> MixSchedule(f)

\* a buffer for the probe
MixerFillProbe(c, m) ==
    LET d == OutputPut(c, m.port, m)
    IN  IF Has(c, "COMPLETED") \/ ProbePaused(c) THEN ResponseOk(c, m)
        ELSE ScheduleIf(d, /\ WakesOutput(c.out[m.port]) /\ MixReady(d)
                           /\ Has(c, "EXECUTION"))

\* the control message of the route is back
MixerFlushReturned(c, m) ==
    LET d == OutputFlushDone(c, MixOut(c))
    IN  PurgeTracks(CASE Unrouting(d.out[MixOut(c)]) -> OutputUnrouteDone(d, MixOut(c))
                      [] ~Unrouting(d.out[MixOut(c)]) /\ m.len = LengthInvalid ->
                            OutputUnroute(d, MixOut(c))
                      [] OTHER -> d)

\* a buffer back from a component that no longer exists: collect the others
MixerSinkLost(c) ==
    IF Flushing(c.out[MixOut(c)]) THEN c
    ELSE [OutputFlush(Cancel(c), MixOut(c), "FILL") EXCEPT !.state = @ \ {"OUTPUT_SETUP"}]

\* a buffer to fill: the first one wakes the mixer
MixerFillOutput(c, m) ==
    ScheduleIf(OutputPut(c, MixOut(c), m), WakesOutput(c.out[MixOut(c)]) /\ ~ProbeWaits(c))

MixerFill(c, m) ==
    CASE ~Has(c, "POSTINIT") -> Fail(c, "error")
      [] Has(c, "POSTINIT") /\ c.probe /\ m.port = ProbePort(c) -> MixerFillProbe(c, m)
      [] Has(c, "POSTINIT") /\ m.port = MixOut(c) /\ Has(c, "RUNTIME_INIT") ->
            IF m.len = 0 THEN MixerFillOutput(c, m) ELSE Fail(c, "error")
      [] OTHER ->
            CASE ControlMsg(c, MixOut(c), m) -> MixerFlushReturned(c, m)
              [] /\ ~ControlMsg(c, MixOut(c), m) /\ m.len = LengthInvalid
                 /\ Routed(c.out[MixOut(c)]) -> MixerSinkLost(c)
              [] /\ ~ControlMsg(c, MixOut(c), m) /\ Has(c, "COMPLETED")
                 /\ ~Routed(c.out[MixOut(c)]) -> ResponseOk(c, m)
              [] OTHER -> MixerFillOutput(c, [m EXCEPT !.len = 1])

-----------------------------------------------------------------------------
MixerRoute(c, m, o) ==
    LET d == OutputRoute(c, MixOut(c), o.buffers, o.sized, o.memory)
    IN  CASE ~Has(c, "POSTINIT") \/ Routed(c.out[MixOut(c)]) -> Fail(c, "error")
          [] Has(c, "POSTINIT") /\ ~Routed(c.out[MixOut(c)]) /\ o.sized /\ ~o.memory ->
                Fail(d, "error")
          [] OTHER -> ResponseOk(MixSchedule(d), m)

MixerUnroute(c, m) ==
    LET d == [Cancel(c) EXCEPT !.state = @ \ {"OUTPUT_SETUP"}]
        e == OutputFlush(d, MixOut(c), "FLUSH")
    IN  CASE ~Has(c, "POSTINIT") -> Fail(c, "error")
          [] Has(c, "POSTINIT") /\ ~Routed(c.out[MixOut(c)]) -> ResponseOk(c, m)
          [] OTHER -> IF FlushedAtOnce(d.out[MixOut(c)], "FLUSH")
                      THEN ResponseOk(OutputUnroute(e, MixOut(c)), m)
                      ELSE OutputUnrouteStart(e, MixOut(c), m)

-----------------------------------------------------------------------------
\* mutant: the tracks that wait for a paused one are not told
MixerPause_NoSchedule(c, m) ==
    LET active == m.port < c.ni /\ "ACTIVE" \in c.in[m.port].flags
    IN  CASE Has(c, "COMPLETED") -> ResponseOk(c, m)
          [] ~Has(c, "COMPLETED") /\ active ->
                Response([c EXCEPT !.in[m.port].flags = Toggle(@, {"ACTIVE", "PAUSED"})], m)
          [] ~Has(c, "COMPLETED") /\ m.port = MixOut(c) ->
                Response([c EXCEPT !.out[m.port].flags = @ \cup {"PAUSED"}], m)
          [] OTHER -> Response(c, m)

\* other tracks may be waiting for the one that is paused
MixerPause(c, m) ==
    LET active == m.port < c.ni /\ "ACTIVE" \in c.in[m.port].flags
        probed == m.port = ProbePort(c) /\ ProbeOn(c)
    IN  CASE Has(c, "COMPLETED") -> ResponseOk(c, m)
          [] ~Has(c, "COMPLETED") /\ active ->
                Response(MixSchedule(
                    [c EXCEPT !.in[m.port].flags = Toggle(@, {"ACTIVE", "PAUSED"})]), m)
          [] ~Has(c, "COMPLETED") /\ m.port = MixOut(c) ->
                Response([c EXCEPT !.out[m.port].flags = @ \cup {"PAUSED"}], m)
          [] ~Has(c, "COMPLETED") /\ probed -> Response(MixSchedule(StopProbe(c)), m)
          [] OTHER -> Response(c, m)

MixerResume(c, m) ==
    LET paused == m.port < c.ni /\ "PAUSED" \in c.in[m.port].flags
        probed == m.port = ProbePort(c) /\ c.probe /\ ProbePaused(c)
    IN  CASE Has(c, "COMPLETED") -> ResponseOk(c, m)
          [] ~Has(c, "COMPLETED") /\ paused ->
                Response(MixSchedule(
                    [c EXCEPT !.in[m.port].flags = Toggle(@, {"ACTIVE", "PAUSED"})]), m)
          [] ~Has(c, "COMPLETED") /\ m.port = MixOut(c) /\ MixPaused(c) ->
                Response(MixSchedule([c EXCEPT !.out[m.port].flags = @ \ {"PAUSED"}]), m)
          [] ~Has(c, "COMPLETED") /\ probed ->
                Response(ScheduleIf(StartProbe(c), MixReady(c) /\ OutputReady(c.out[m.port])), m)
          [] OTHER -> Response(c, m)

\* mutant: a track that is flushed while it is paused stays paused
MixerFlush_StaysPaused(c, m) ==
    LET idle == [InputPurge(c, m.port) EXCEPT !.in[m.port].flags =
                    (@ \ {"ACTIVE", "INPUT_SETUP", "RECVD_DATA"}) \cup {"IDLE"}]
    IN  IF m.port = MixOut(c) THEN OutputUnrouteDone(c, m.port)
        ELSE Response(MixSchedule(idle), m)

\* a flush of a track is answered at once; one of the output can only be the
\* answer to an unrouting
MixerFlush(c, m) ==
    LET played == c.in[m.port].flags \cap {"ACTIVE", "PAUSED"} # {}
        idle   == [InputPurge(c, m.port) EXCEPT !.in[m.port].flags =
                      (@ \ {"ACTIVE", "PAUSED", "INPUT_SETUP", "RECVD_DATA"}) \cup {"IDLE"}]
    IN  CASE \/ m.len \notin {0, LengthInvalid}
             \/ m.port = MixOut(c) /\ ~Unrouting(c.out[MixOut(c)]) -> Fail(c, "error")
          [] m.len \in {0, LengthInvalid} /\ m.port = MixOut(c) /\ Unrouting(c.out[MixOut(c)]) ->
                OutputUnrouteDone(c, MixOut(c))
          [] OTHER -> Response(IF played THEN MixSchedule(idle) ELSE c, m)

-----------------------------------------------------------------------------
(* Preparation of a round: what each active track offers, d.hold telling   *)
(* that one of them has nothing yet.                                       *)
MixerOffer(c, i) ==
    LET p == c.in[i]
        d == IF ~Bypass(p) /\ Done(p) THEN c ELSE InputFill(c, i)
        q == d.in[i]
        filled == CASE Bypass(q) /\ q.access -> q.remaining
                    [] ~Bypass(q) /\ ~Done(p) -> q.filled
                    [] OTHER -> 0
        starved == filled = 0 /\ ~Done(q)
    IN  IF starved THEN Fail(d, "no data")
        ELSE [d EXCEPT !.in[i].flags = @ \cup {"INPUT_SETUP"}, !.avail[i] = filled,
                       !.over[i] = (@ /\ filled = 0) \/ Done(q)]

MixerOfferTrack(c, i) ==
    LET flags == c.in[i].flags
    IN  CASE flags \cap {"ACTIVE", "PAUSED"} = {} -> [c EXCEPT !.over[i] = TRUE]
          [] "ACTIVE" \in flags /\ "INPUT_SETUP" \notin flags -> MixerOffer(c, i)
          [] OTHER -> c

MixerPreprocess(c) ==
    LET d == SetupProbe(c)
        e == IF Has(d, "OUTPUT_SETUP") THEN d
             ELSE [OutputData(d, MixOut(c)) EXCEPT !.state = @ \cup {"OUTPUT_SETUP"}]
        f == FoldLeft(MixerOfferTrack, e, Inputs(c))
        blocked == \/ MixPaused(c)
                   \/ NeedsProbe(c) /\ c.out[ProbePort(c)].queue = <<>>
    IN  CASE blocked -> Fail(c, "no data")
          [] ~blocked /\ ~Has(d, "OUTPUT_SETUP") /\ Has(d, "RUNTIME_INIT") -> d
          [] OTHER ->
                IF ~Has(d, "OUTPUT_SETUP") /\ d.out[MixOut(c)].queue = <<>> THEN Fail(d, "no data")
                ELSE IF ActiveTracks(f) = {} THEN Fail(f, "no data") ELSE f

-----------------------------------------------------------------------------
(* What follows a round.                                                   *)
MixerConsumed(c, i, n) ==
    LET d == InputConsume([c EXCEPT !.in[i].flags = @ \ {"INPUT_SETUP"}], i, n)
    IN  CASE c.in[i].flags \cap {"ACTIVE", "INPUT_SETUP"} = {} -> c
          [] c.in[i].flags \cap {"ACTIVE", "INPUT_SETUP"} # {} /\ Done(d.in[i]) ->
                [InputPurge(d, i) EXCEPT !.in[i].flags = Toggle(@, {"ACTIVE", "IDLE"})]
          [] OTHER -> d

MixerProduced(c, o) ==
    IF o.produced = 0 THEN c
    ELSE [OutputProduce(c, MixOut(c), 1) EXCEPT !.state = @ \ {"OUTPUT_SETUP"}]

\* the end of all streams is passed on to the sink
MixerCompleted(c) == FlushProbe(OutputFlush(c, MixOut(c), "FILL"))

MixerPostprocess(c, o) ==
    LET d == FoldLeft(LAMBDA e, i : MixerConsumed(e, i, o.consumed[i]), c, Inputs(c))
        f == ProduceProbe(MixerProduced(d, o),
                          o.produced > 0 \/ \E i \in DOMAIN c.in : o.consumed[i] > 0)
    IN  CASE o.done /\ Has(c, "EXECUTION") -> MixPrepareRuntime(c, o.memory)
          [] o.done /\ ~Has(c, "EXECUTION") -> MixerCompleted(f)
          [] OTHER -> MixSchedule(f)

-----------------------------------------------------------------------------
(* Termination: a routed output that has buffers under way is flushed      *)
(* first, and the component waits in its "terminate" entry.                *)
MixerTerminate(c, m) ==
    CASE ControlMsg(c, MixOut(c), m) -> Fail(OutputFlushDone(c, MixOut(c)), "unregister")
      [] ~ControlMsg(c, MixOut(c), m) /\ m.op = "FILL" /\ Routed(c.out[MixOut(c)]) -> c
      [] OTHER -> IF m.src = "app" THEN ResponseErr(c, m) ELSE ResponseFailure(c, m)

MixerDestroy(c) ==
    LET d == OutputDestroy(FoldLeft(InputDestroy, c, Inputs(c)), MixOut(c))
        e == IF c.probe THEN OutputDestroy(d, ProbePort(c)) ELSE d
    IN  [(IF c.saved.op # "none" THEN ResponseErr(e, c.saved) ELSE e)
         EXCEPT !.entry = "gone", !.saved = NoMsg]

MixerCleanup(c, m) ==
    LET d == [FlushProbe(PurgeTracks(Cancel(c))) EXCEPT !.saved = m]
        e == OutputFlush(d, MixOut(c), "FLUSH")
    IN  IF FlushedAtOnce(d.out[MixOut(c)], "FLUSH") THEN MixerDestroy(e)
        ELSE [e EXCEPT !.entry = "terminate"]
=============================================================================
