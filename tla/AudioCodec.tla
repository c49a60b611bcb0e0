------------------------------- MODULE AudioCodec -------------------------------
(***************************************************************************)
(* The codec class of DSP components, xa-class-audio-codec.c: one input    *)
(* port 0, one output port 1 and, when c.probe is set, a probe port 2 that *)
(* copies what passes.  c.decoder tells a decoder from the other types,    *)
(* and c.early whether it may be initialised before there is input.        *)
(***************************************************************************)
EXTENDS AudioBase

InPaused(c)  == "PAUSED" \in c.in[0].flags
OutPaused(c) == "PAUSED" \in c.out[1].flags
BothReady(c) == InputReady(c.in[0]) /\ OutputReady(c.out[1])

\* the plug-in is initialised: the pool of a route gets its buffers, the
\* message that started the component goes back with the stream's format
PrepareRuntime(c, memory) ==
    LET d == OutputRouteAlloc(c, 1, memory)
    IN  OutputProduce(ScheduleIf(d, BothReady(d)), 1, 1)

-----------------------------------------------------------------------------
CodecEmptyThisBuffer(c, m) ==
    LET d == InputPut(c, 0, m)
        e == IF Has(d, "COMPLETED") THEN Restart(d) ELSE d
    IN  CASE ~Has(c, "POSTINIT") -> Fail(c, "error")
          [] Has(c, "POSTINIT") /\ ~WakesInput(c.in[0], m) -> d
          [] OTHER -> IF StageOf(e) = {} THEN Fail(e, "error")
                      ELSE ScheduleIf(e, OutputReady(e.out[1]))

\* a buffer for the probe
CodecFillProbe(c, m) ==
    LET d == OutputPut(c, 2, m)
    IN  IF Has(c, "COMPLETED") \/ ProbePaused(c) THEN ResponseOk(c, m)
        ELSE ScheduleIf(d, /\ WakesOutput(c.out[2]) /\ BothReady(c)
                           /\ Has(c, "EXECUTION"))

\* the control message of the route is back: the stream is over downstream
CodecFlushReturned(c, m) ==
    LET d == OutputFlushDone(c, 1)
        e == CASE Unrouting(d.out[1]) -> OutputUnrouteDone(d, 1)
               [] ~Unrouting(d.out[1]) /\ m.len = LengthInvalid -> OutputUnroute(d, 1)
               [] OTHER -> d
    IN  InputPurge(e, 0)

\* a buffer back from a component that no longer exists: collect the others
CodecSinkLost(c) ==
    IF Flushing(c.out[1]) THEN c
    ELSE [OutputFlush(Cancel(c), 1, "FILL") EXCEPT !.state = @ \ {"OUTPUT_SETUP"}]

\* a buffer to fill: the first one wakes the component
CodecFillOutput(c, m) ==
    LET d      == IF Has(c, "EOS_SEQ_DONE") /\ ~Has(c, "RUNTIME_INIT") THEN Restart(c) ELSE c
        e      == OutputPut(d, 1, m)
        starts == Has(e, "RUNTIME_INIT") /\ (~e.decoder \/ e.early)
        probed == ~ProbeWaits(e)
    IN  ScheduleIf(e, /\ WakesOutput(d.out[1]) /\ (InputReady(e.in[0]) \/ starts)
                      /\ probed /\ StageOf(e) # {} /\ OutputReady(e.out[1]))

CodecFillThisBuffer(c, m) ==
    CASE ~Has(c, "POSTINIT") -> Fail(c, "error")
      [] Has(c, "POSTINIT") /\ m.port = 2 -> CodecFillProbe(c, m)
      [] Has(c, "POSTINIT") /\ m.port = 1 /\ Has(c, "RUNTIME_INIT") ->
            CodecFillOutput(Expect(c, m.len = 0, "start message with a length"), m)
      [] OTHER ->
            CASE ControlMsg(c, 1, m) -> CodecFlushReturned(c, m)
              [] /\ ~ControlMsg(c, 1, m) /\ Has(c, "COMPLETED")
                 /\ ~Has(c, "EOS_SEQ_DONE") /\ ~Routed(c.out[1]) ->
                    ResponseOk([c EXCEPT !.state = @ \cup {"EOS_SEQ_DONE"}], m)
              [] ~ControlMsg(c, 1, m) /\ m.len = LengthInvalid /\ Routed(c.out[1]) ->
                    CodecSinkLost(c)
              [] OTHER -> CodecFillOutput(c, [m EXCEPT !.len = 1])

-----------------------------------------------------------------------------
CodecRoute(c, m, o) ==
    LET d == OutputRoute(c, 1, o.buffers, o.sized, o.memory)
        failed == o.sized /\ ~o.memory
    IN  CASE ~Has(c, "POSTINIT") \/ Routed(c.out[1]) -> Fail(c, "error")
          [] Has(c, "POSTINIT") /\ ~Routed(c.out[1]) /\ failed -> Fail(d, "error")
          [] OTHER -> ResponseOk(ScheduleIf(d, BothReady(d)), m)

\* mutant: the pool is destroyed while its buffers are on their way
CodecUnroute_AtOnce(c, m) ==
    LET d == [Cancel(c) EXCEPT !.state = @ \ {"OUTPUT_SETUP"}]
    IN  CASE ~Has(c, "POSTINIT") -> Fail(c, "error")
          [] Has(c, "POSTINIT") /\ ~Routed(c.out[1]) -> ResponseOk(c, m)
          [] OTHER -> ResponseOk(OutputUnroute(OutputFlush(d, 1, "FLUSH"), 1), m)

CodecUnroute(c, m) ==
    LET d == [Cancel(c) EXCEPT !.state = @ \ {"OUTPUT_SETUP"}]
        e == OutputFlush(d, 1, "FLUSH")
    IN  CASE ~Has(c, "POSTINIT") -> Fail(c, "error")
          [] Has(c, "POSTINIT") /\ ~Routed(c.out[1]) -> ResponseOk(c, m)
          [] OTHER -> IF FlushedAtOnce(d.out[1], "FLUSH") THEN ResponseOk(OutputUnroute(e, 1), m)
                      ELSE OutputUnrouteStart(e, 1, m)

-----------------------------------------------------------------------------
\* mutant: the flush is answered and the buffers are kept
CodecFlushInput_KeepsBuffers(c, m) ==
    LET d == [Cancel(c) EXCEPT !.state = @ \ {"INPUT_SETUP"}]
    IN  IF FlushedAtOnce(d.out[1], "FLUSH") THEN Response(OutputFlush(d, 1, "FLUSH"), m)
        ELSE InputControlSave(OutputFlush(d, 1, "FLUSH"), 0, m)

\* the flush of the input, on behalf of the component that feeds it
CodecFlushInput(c, m) ==
    LET d == ResetRuntime([InputPurge(Cancel(c), 0) EXCEPT !.state = @ \ {"INPUT_SETUP"}])
        e == OutputFlush(d, 1, "FLUSH")
        f == [e EXCEPT !.state = Toggle(@, {"EXECUTION", "COMPLETED"})
                                 \cup IF OutputReady(d.out[1]) THEN {"EOS_SEQ_DONE"} ELSE {}]
    IN  CASE FlushedAtOnce(d.out[1], "FLUSH") /\ ~Routed(d.out[1]) -> Response(f, m)
          [] FlushedAtOnce(d.out[1], "FLUSH") /\ Routed(d.out[1])  -> Response(e, m)
          [] OTHER -> InputControlSave(e, 0, m)

\* the flush of the output, answered by the component it is routed to
CodecFlushOutput(c, m) ==
    LET d == CASE Unrouting(c.out[1]) -> OutputUnrouteDone(c, 1)
               [] ~Unrouting(c.out[1]) /\ ~Routed(c.out[1]) ->
                    Response(OutputFlush(c, 1, "FLUSH"), m)
               [] OTHER ->
                    InputPurgeDone(OutputFlushDone(
                        Expect(c, ControlMsg(c, 1, m), "answer to another flush"), 1), 0)
    IN  IF Unrouting(c.out[1]) THEN d ELSE [d EXCEPT !.state = @ \ {"OUTPUT_SETUP"}]

CodecFlush(c, m) ==
    CASE ~Has(c, "POSTINIT") \/ m.len \notin {0, LengthInvalid} -> Fail(c, "error")
      [] Has(c, "POSTINIT") /\ m.len \in {0, LengthInvalid} /\ m.port = 0 -> CodecFlushInput(c, m)
      [] OTHER -> CodecFlushOutput(c, m)

-----------------------------------------------------------------------------
CodecPause(c, m) ==
    LET p == StopProbe(c)
    IN  CASE m.port = 2 /\ c.probe /\ ~ProbePaused(c) -> ResponseOk(ScheduleIf(p, BothReady(p)), m)
          [] ~(m.port = 2 /\ c.probe /\ ~ProbePaused(c)) /\ ~Has(c, "COMPLETED") /\ m.port = 0 ->
                ResponseOk([c EXCEPT !.in[0].flags = @ \cup {"PAUSED"}], m)
          [] ~(m.port = 2 /\ c.probe /\ ~ProbePaused(c)) /\ ~Has(c, "COMPLETED") /\ m.port = 1 ->
                ResponseOk([c EXCEPT !.out[1].flags = @ \cup {"PAUSED"}], m)
          [] OTHER -> ResponseOk(c, m)

CodecResume(c, m) ==
    LET d == CASE m.port = 0 -> [c EXCEPT !.in[0].flags = @ \ {"PAUSED"}]
               [] m.port = 1 -> [c EXCEPT !.out[1].flags = @ \ {"PAUSED"}]
               [] OTHER      -> StartProbe(c)
        ready == BothReady(d) /\ (m.port = 2 => OutputReady(d.out[2]))
        paused == CASE m.port = 0 -> InPaused(c)
                    [] m.port = 1 -> OutPaused(c)
                    [] OTHER      -> c.probe /\ ProbePaused(c)
    IN  IF Has(c, "COMPLETED") \/ ~paused THEN ResponseOk(c, m)
        ELSE ResponseOk(ScheduleIf(d, ready), m)

-----------------------------------------------------------------------------
(* Preparation of a round of processing; ret is "no data" when there is    *)
(* nothing to do it with.                                                  *)
CodecNeedsProbe(c) == ProbeOn(c) /\ ~Has(c, "PROBE_SETUP") /\ ~Has(c, "RUNTIME_INIT")

CodecSetupProbe(c) == IF CodecNeedsProbe(c) THEN [c EXCEPT !.state = @ \cup {"PROBE_SETUP"}] ELSE c

SetupOutput(c) ==
    LET d == IF Has(c, "RUNTIME_INIT") THEN c ELSE OutputData(c, 1)
    IN  IF Has(c, "OUTPUT_SETUP") THEN c ELSE [d EXCEPT !.state = @ \cup {"OUTPUT_SETUP"}]

SetupInput(c) ==
    LET p == c.in[0]
        d == IF ~Bypass(p) /\ Done(p) THEN c ELSE InputFill(c, 0)
        q == d.in[0]
        filled == IF Bypass(q) THEN (IF q.access THEN q.remaining ELSE 0) ELSE q.filled
        starved == Bypass(q) /\ ~q.access /\ ~Done(q) /\ ~Has(c, "RUNTIME_INIT")
    IN  CASE Has(c, "INPUT_SETUP") -> c
          [] ~Has(c, "INPUT_SETUP") /\ starved -> Fail(d, "no data")
          [] OTHER -> [d EXCEPT !.state = @ \cup {"INPUT_SETUP"}, !.avail[0] = filled,
                                !.over[0] = @ \/ Done(q)]

CodecPreprocess(c) ==
    LET d == CodecSetupProbe(c)
        e == SetupOutput(d)
    IN  CASE InPaused(c) \/ OutPaused(c) -> Fail(c, "no data")
          [] ~(InPaused(c) \/ OutPaused(c)) /\ CodecNeedsProbe(c) /\ c.out[2].queue = <<>> ->
                Fail(c, "no data")
          [] OTHER ->
                CASE /\ ~Has(d, "OUTPUT_SETUP") /\ ~Has(d, "RUNTIME_INIT")
                     /\ d.out[1].queue = <<>> -> Fail(d, "no data")
                  [] Has(d, "RUNTIME_INIT") /\ ~d.decoder -> e
                  [] OTHER -> SetupInput(e)

-----------------------------------------------------------------------------
(* What follows a round: the buffers consumed and produced go back.        *)
CodecConsumed(c, o) ==
    IF o.consumed > 0
    THEN [InputConsume(c, 0, o.consumed) EXCEPT !.state = Toggle(@, {"INPUT_SETUP"})]
    ELSE IF o.produced = 0 THEN [c EXCEPT !.state = Toggle(@, {"INPUT_SETUP"})] ELSE c

CodecProduced(c, o) ==
    IF o.produced = 0 THEN c
    ELSE [OutputProduce(c, 1, 1) EXCEPT !.state = Toggle(@, {"OUTPUT_SETUP"})]

CodecProbed(c, o, running) ==
    IF running /\ ProbeOn(c) /\ o.consumed + o.produced > 0
    THEN [OutputProduce(c, 2, 1) EXCEPT !.state = Toggle(@, {"PROBE_SETUP"})]
    ELSE c

\* the end of the stream is passed on to the sink
CodecCompleted(c, o) ==
    LET d == OutputFlush(c, 1, "FILL")
        e == IF FlushedAtOnce(c.out[1], "FILL") THEN InputPurge(d, 0) ELSE d
        f == FlushProbe(e)
    IN  IF o.produced = 0 /\ ~Routed(f.out[1]) THEN [f EXCEPT !.state = @ \cup {"EOS_SEQ_DONE"}]
        ELSE f

\* an initialisation that needs more input gives the start message back
CodecInitPending(c, o) ==
    LET d == Expect([c EXCEPT !.state = @ \ {"INPUT_SETUP"}],
                    ~(c.early /\ c.in[0].filled = 0) \/ c.out[1].queue # <<>>, "no start message")
    IN  CASE ~(Has(c, "RUNTIME_INIT") /\ o.consumed = 0) -> c
          [] /\ Has(c, "RUNTIME_INIT") /\ o.consumed = 0 /\ c.early
             /\ c.in[0].filled = 0 /\ c.out[1].queue # <<>> ->
                [ResponseData(d, Head(d.out[1].queue), 0)
                 EXCEPT !.out[1].queue = Tail(@), !.state = @ \ {"OUTPUT_SETUP"}]
          [] OTHER -> d

CodecPostprocess(c, o, running) ==
    LET d == CodecProbed(CodecProduced(CodecConsumed(c, o), o), o, running)
        e == CodecInitPending(d, o)
    IN  CASE o.done /\ Has(d, "EXECUTION") ->
                [PrepareRuntime(d, o.memory) EXCEPT !.state = @ \ {"INPUT_SETUP", "OUTPUT_SETUP"}]
          [] o.done /\ ~Has(d, "EXECUTION") -> CodecCompleted(d, o)
          [] OTHER -> ScheduleIf(e, BothReady(e))

-----------------------------------------------------------------------------
(* Termination: a routed output that has buffers under way is flushed      *)
(* first, and the component waits in its "terminate" entry.                *)
CodecTerminate(c, m) ==
    CASE ControlMsg(c, 1, m) -> Fail(OutputFlushDone(c, 1), "unregister")
      [] ~ControlMsg(c, 1, m) /\ m.op = "FILL" -> c
      [] OTHER -> IF m.src = "app" THEN ResponseErr(c, m) ELSE ResponseFailure(c, m)

CodecDestroy(c) ==
    LET d == OutputDestroy(InputDestroy(c, 0), 1)
        e == IF c.probe THEN OutputDestroy(d, 2) ELSE d
    IN  [(IF c.saved.op # "none" THEN ResponseErr(e, c.saved) ELSE e)
         EXCEPT !.entry = "gone", !.saved = NoMsg]

\* mutant: the component is destroyed without waiting for its buffers
CodecCleanup_AtOnce(c, m) ==
    LET d == [InputPurge(Cancel(c), 0) EXCEPT !.saved = m]
    IN  CodecDestroy(OutputFlush(d, 1, "FLUSH"))

CodecCleanup(c, m) ==
    LET d == [InputPurge(Cancel(c), 0) EXCEPT !.saved = m]
        e == FlushProbe(d)
        f == OutputFlush(e, 1, "FLUSH")
    IN  IF FlushedAtOnce(e.out[1], "FLUSH") THEN CodecDestroy(f)
        ELSE [f EXCEPT !.entry = "terminate"]
=============================================================================
