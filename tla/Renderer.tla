-------------------------------- MODULE Renderer --------------------------------
(***************************************************************************)
(* The renderer class of DSP components, xa-class-renderer.c: input port 0 *)
(* is played by a device, output port 1 is optional and carries a copy of  *)
(* what is played.                                                         *)
(*                                                                         *)
(* The device, which runs while c.hw is set, interrupts when it can take   *)
(* more; the handler schedules the component's own message, once while     *)
(* c.irq is set.  Flag OUTPUT_READY tells that the device waits, RUNNING   *)
(* that it has interrupted.                                                *)
(***************************************************************************)
EXTENDS AudioBase

IsrMsg(op) == [op |-> op, src |-> "isr", id |-> <<"isr", 0, 0>>, port |-> 0, len |-> 0, nul |-> TRUE]

RendererEmpty(c, m) ==
    LET d == InputPut(c, 0, m)
    IN  CASE ~Has(c, "POSTINIT") -> Fail(c, "error")
          [] \/ Has(c, "POSTINIT") /\ ~WakesInput(c.in[0], m)
             \/ Has(c, "POSTINIT") /\ Has(c, "RUNTIME_INIT") /\ ~Has(c, "OUTPUT_READY") -> d
          [] OTHER -> Schedule(d)

\* mutant: the component's message is never to be scheduled again
RendererWake_KeepsFlag(c) ==
    IF Has(c, "OUTPUT_READY") THEN c
    ELSE Schedule([c EXCEPT !.state = @ \cup {"OUTPUT_READY"}])

\* the device, or the application that starts the renderer, asks for data
RendererWake(c) ==
    LET d == [c EXCEPT !.irq = FALSE]
    IN  IF Has(c, "OUTPUT_READY") THEN d
        ELSE Schedule([d EXCEPT !.state = @ \cup {"OUTPUT_READY"}])

\* the control message of the route is back
RendererFlushReturned(c, m) ==
    LET d == OutputFlushDone(c, 1)
        e == CASE Unrouting(d.out[1]) -> OutputUnrouteDone(d, 1)
               [] ~Unrouting(d.out[1]) /\ m.len = LengthInvalid -> OutputUnroute(d, 1)
               [] OTHER -> d
    IN  InputPurge(e, 0)

\* the output is optional: its loss does not stop the renderer
RendererSinkLost(c) ==
    IF Flushing(c.out[1]) THEN c
    ELSE [OutputFlush(c, 1, "FILL") EXCEPT !.state = @ \ {"OUTPUT_SETUP"}]

RendererFill(c, m) ==
    CASE m.src = "isr" -> RendererWake([c EXCEPT !.state = @ \cup {"RUNNING"}])
      [] m.src # "isr" /\ Has(c, "RUNTIME_INIT") ->
            RendererWake(OutputPut(Expect(c, m.len = 0, "start message with a length"), 1, m))
      [] OTHER ->
            CASE ControlMsg(c, 1, m) -> RendererFlushReturned(c, m)
              [] ~ControlMsg(c, 1, m) /\ m.len = LengthInvalid /\ Routed(c.out[1]) ->
                    RendererSinkLost(c)
              [] OTHER -> OutputPut(c, 1, [m EXCEPT !.len = 1])

-----------------------------------------------------------------------------
RendererRoute(c, m, o) ==
    LET d == OutputRoute(c, 1, o.buffers, o.sized, o.memory)
    IN  CASE ~Has(c, "POSTINIT") \/ Routed(c.out[1]) -> Fail(c, "error")
          [] Has(c, "POSTINIT") /\ ~Routed(c.out[1]) /\ o.sized /\ ~o.memory -> Fail(d, "error")
          [] OTHER -> ResponseOk(d, m)

RendererUnroute(c, m) ==
    LET d == [c EXCEPT !.state = @ \ {"OUTPUT_SETUP"}]
        e == OutputFlush(d, 1, "FLUSH")
    IN  CASE ~Has(c, "POSTINIT") -> Fail(c, "error")
          [] Has(c, "POSTINIT") /\ ~Routed(c.out[1]) -> ResponseOk(c, m)
          [] OTHER -> IF FlushedAtOnce(d.out[1], "FLUSH") THEN ResponseOk(OutputUnroute(e, 1), m)
                      ELSE OutputUnrouteStart(e, 1, m)

RendererFlush(c, m) ==
    LET o == c.out[1]
        d == CASE m.port = 0 -> Response(InputPurge(Cancel(c), 0), m)
               [] m.port # 0 /\ Unrouting(o) -> OutputUnrouteDone(c, 1)
               [] m.port # 0 /\ ~Unrouting(o) /\ ~Routed(o) ->
                    Response(OutputFlush(c, 1, "FLUSH"), m)
               [] OTHER -> InputPurgeDone(OutputFlushDone(
                    Expect(c, ControlMsg(c, 1, m), "answer to another flush"), 1), 0)
    IN  CASE ~Has(c, "EXECUTION") \/ m.len \notin {0, LengthInvalid} -> Fail(c, "error")
          [] Has(c, "EXECUTION") /\ m.len \in {0, LengthInvalid} /\ m.port = 0 -> d
          [] OTHER -> [d EXCEPT !.state = @ \ {"OUTPUT_SETUP"}]

-----------------------------------------------------------------------------
(* A round of processing needs data, or a device that waits for it.        *)
RendererInput(c) ==
    LET p == c.in[0]
        d == IF ~Bypass(p) /\ Done(p) THEN c ELSE InputFill(c, 0)
        q == d.in[0]
        full    == IF Bypass(q) THEN q.access
                   ELSE Done(q) \/ (p.queue # <<>> /\ q.filled = q.size)
        waiting == Has(c, "OUTPUT_READY")
        late    == ~waiting /\ Has(c, "RUNNING") /\ (IF Bypass(q) THEN Done(q) /\ ~q.access ELSE full)
        starved == ~waiting /\ ~full /\ ~Done(q)
        offers  == CASE ~Bypass(q)            -> q.filled
                     [] Bypass(q) /\ q.access -> q.remaining
                     [] OTHER                 -> 0
    IN  IF late \/ starved THEN Fail(d, "no data")
        ELSE [d EXCEPT !.avail[0] = offers, !.over[0] = @ \/ Done(q)]

RendererPreprocess(c) ==
    LET d == RendererInput(c)
        e == IF Has(d, "OUTPUT_SETUP") \/ ~Routed(d.out[1]) THEN d
             ELSE [OutputData(d, 1) EXCEPT
                    !.state = @ \cup IF d.out[1].queue # <<>> THEN {"OUTPUT_SETUP"} ELSE {}]
    IN  CASE Has(c, "RUNTIME_INIT") -> c
          [] ~Has(c, "RUNTIME_INIT") /\ d.ret = "no data" -> d
          [] OTHER -> e

RendererMoved(c, o) ==
    LET d == IF o.produced > 0 /\ Has(c, "OUTPUT_SETUP")
             THEN [OutputProduce(c, 1, 1) EXCEPT !.state = @ \ {"OUTPUT_SETUP"}] ELSE c
        e == InputConsume(d, 0, o.consumed)
    IN  IF o.produced > 0 THEN [e EXCEPT !.state = @ \ {"OUTPUT_READY"}] ELSE e

\* the plug-in is initialised: it processes what there is until the device
\* runs
RendererStarted(c, memory) ==
    Schedule([OutputProduce(OutputRouteAlloc(c, 1, memory), 1, 1)
              EXCEPT !.state = @ \ {"OUTPUT_READY"}])

RendererCompleted(c) ==
    LET d == OutputFlush(c, 1, "FILL")
    IN  IF FlushedAtOnce(c.out[1], "FILL")
        THEN [InputPurge(d, 0) EXCEPT !.state = @ \ {"RUNNING"}] ELSE d

RendererPostprocess(c, o) ==
    LET d == RendererMoved(c, o)
    IN  CASE o.done /\ Has(c, "EXECUTION")  -> RendererStarted(d, o.memory)
          [] o.done /\ ~Has(c, "EXECUTION") -> RendererCompleted(d)
          [] OTHER -> ScheduleIf(d, InputReady(d.in[0]) /\ o.consumed > 0)

-----------------------------------------------------------------------------
(* Termination waits for the component's own message, if it is scheduled.  *)
RendererTerminate(c, m) ==
    CASE m.src = "isr" -> Fail(c, "unregister")
      [] m.src = "app" -> ResponseErr(c, m)
      [] OTHER         -> ResponseFailure(c, m)

\* the output port is not destroyed
RendererDestroy(c) ==
    LET d == InputDestroy(c, 0)
    IN  [(IF c.saved.op # "none" THEN ResponseErr(d, c.saved) ELSE d)
         EXCEPT !.entry = "gone", !.saved = NoMsg]

RendererCleanup(c, m) ==
    LET d == [InputPurge(Cancel(c), 0) EXCEPT !.hw = FALSE, !.saved = m, !.irq = FALSE]
    IN  IF c.irq THEN [d EXCEPT !.entry = "terminate"] ELSE RendererDestroy(d)
=============================================================================
