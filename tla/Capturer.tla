-------------------------------- MODULE Capturer --------------------------------
(***************************************************************************)
(* The capturer class of DSP components, xa-class-capturer.c: a device     *)
(* fills output port 0, the only port.  It interrupts when it has data;    *)
(* the handler schedules the component's own message, as in the renderer.  *)
(***************************************************************************)
EXTENDS AudioBase

\* the component's own message; no other may empty a buffer here
CapturerEmpty(c, m) ==
    IF m.src # "isr" \/ ~Has(c, "POSTINIT") \/ StageOf(c) = {} THEN Fail(c, "error")
    ELSE Schedule([c EXCEPT !.irq = FALSE])

CapturerFlushReturned(c, m) ==
    LET d == OutputFlushDone(c, 0)
    IN  CASE Unrouting(d.out[0]) -> OutputUnrouteDone(d, 0)
          [] ~Unrouting(d.out[0]) /\ m.len = LengthInvalid -> OutputUnroute(d, 0)
          [] OTHER -> d

CapturerFill(c, m) ==
    LET d == OutputPut(c, 0, IF Has(c, "RUNTIME_INIT") THEN m ELSE [m EXCEPT !.len = 1])
    IN  CASE ~Has(c, "POSTINIT") -> Fail(c, "error")
          [] Has(c, "POSTINIT") /\ Has(c, "RUNTIME_INIT") ->
                ScheduleIf(Expect(d, m.len = 0, "start message with a length"),
                           WakesOutput(c.out[0]))
          [] OTHER ->
                CASE ControlMsg(c, 0, m) -> CapturerFlushReturned(c, m)
                  [] ~ControlMsg(c, 0, m) /\ Has(c, "COMPLETED") /\ ~Routed(c.out[0]) ->
                        ResponseOk(c, m)
                  [] ~ControlMsg(c, 0, m) /\ m.len = LengthInvalid /\ Routed(c.out[0]) ->
                        IF Flushing(c.out[0]) THEN c ELSE OutputFlush(Cancel(c), 0, "FILL")
                  [] OTHER -> d

CapturerRoute(c, m, o) ==
    LET d == OutputRoute(c, 0, o.buffers, o.sized, o.memory)
    IN  CASE ~Has(c, "POSTINIT") \/ Routed(c.out[0]) -> Fail(c, "error")
          [] Has(c, "POSTINIT") /\ ~Routed(c.out[0]) /\ o.sized /\ ~o.memory -> Fail(d, "error")
          [] OTHER -> ResponseOk(d, m)

CapturerUnroute(c, m) ==
    LET d == OutputFlush(Cancel(c), 0, "FLUSH")
    IN  CASE ~Has(c, "POSTINIT") -> Fail(c, "error")
          [] Has(c, "POSTINIT") /\ ~Routed(c.out[0]) -> ResponseOk(c, m)
          [] OTHER -> IF FlushedAtOnce(c.out[0], "FLUSH") THEN ResponseOk(OutputUnroute(d, 0), m)
                      ELSE OutputUnrouteStart(d, 0, m)

CapturerFlush(c, m) ==
    CASE ~Has(c, "POSTINIT") \/ m.len \notin {0, LengthInvalid} -> Fail(c, "error")
      [] Has(c, "POSTINIT") /\ m.len \in {0, LengthInvalid} /\ Unrouting(c.out[0]) ->
            OutputUnrouteDone(c, 0)
      [] OTHER ->
            IF Routed(c.out[0])
            THEN OutputFlushDone(Expect(c, ControlMsg(c, 0, m), "answer to another flush"), 0)
            ELSE Response(OutputFlush(c, 0, "FLUSH"), m)

-----------------------------------------------------------------------------
\* the plug-in is called with or without a buffer to fill
CapturerPreprocess(c) ==
    IF Has(c, "RUNTIME_INIT") THEN c ELSE OutputData(c, 0)

CapturerPostprocess(c, o) ==
    CASE o.done /\ Has(c, "EXECUTION") -> OutputProduce(OutputRouteAlloc(c, 0, o.memory), 0, 1)
      [] o.done /\ ~Has(c, "EXECUTION") -> OutputFlush(c, 0, "FILL")
      [] OTHER -> IF o.produced > 0 THEN OutputProduce(c, 0, 1) ELSE c

-----------------------------------------------------------------------------
CapturerTerminate(c, m) ==
    CASE ControlMsg(c, 0, m) -> Fail(OutputFlushDone(c, 0), "unregister")
      [] ~ControlMsg(c, 0, m) /\ m.op = "FILL" -> c
      [] OTHER -> IF m.src = "app" THEN ResponseErr(c, m) ELSE ResponseFailure(c, m)

CapturerDestroy(c) ==
    LET d == OutputDestroy(c, 0)
    IN  [(IF c.saved.op # "none" THEN ResponseErr(d, c.saved) ELSE d)
         EXCEPT !.entry = "gone", !.saved = NoMsg]

CapturerCleanup(c, m) ==
    LET d == [Cancel(c) EXCEPT !.hw = FALSE, !.saved = m]
        e == OutputFlush(d, 0, "FLUSH")
    IN  IF FlushedAtOnce(d.out[0], "FLUSH") THEN CapturerDestroy(e)
        ELSE [e EXCEPT !.entry = "terminate"]
=============================================================================
