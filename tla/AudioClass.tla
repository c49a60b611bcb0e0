------------------------------- MODULE AudioClass -------------------------------
(***************************************************************************)
(* The component a message or a task is for, by its class: what a factory  *)
(* creates, the command tables of the classes with xa_base_command over    *)
(* them, and one round of processing, xa_base_process.                     *)
(*                                                                         *)
(* A kind k describes a component: class; ni inputs, no outputs; size of   *)
(* the internal input buffers, 0 for a bypass; probe; and for a codec      *)
(* whether it is a decoder and may be initialised early.                   *)
(***************************************************************************)
EXTENDS AudioCodec, Mixer, Mimo, Renderer, Capturer

TrackFlags(k, class, flags) == IF k.class \in class THEN flags ELSE {}

Component(k) ==
    LET input  == [InputPort(k.size) EXCEPT !.flags = @ \cup TrackFlags(k, {"mixer", "mimo"}, {"IDLE"})]
        output == [OutputPort EXCEPT !.flags =
                    @ \cup TrackFlags(k, {"mimo"}, {"TRACK_IDLE", "TRACK_ROUTED"})]
        probe  == [OutputPort EXCEPT !.flags = @ \cup {"PROBE_PAUSED"}]
        outs   == k.ni .. k.ni + k.no - 1
    IN  [class |-> k.class, ni |-> k.ni, no |-> k.no, probe |-> k.probe,
         decoder |-> k.decoder, early |-> k.early,
         state |-> {}, entry |-> "command", ret |-> "ok", saved |-> NoMsg, task |-> 0,
         avail |-> [i \in 0 .. k.ni - 1 |-> 0], over |-> [i \in 0 .. k.ni - 1 |-> FALSE],
         relaxed |-> k.relaxed, plugged |-> TrackFlags(k, {"mimo"}, outs),
         hw |-> FALSE, irq |-> FALSE, sent |-> <<>>, bugs |-> {},
         in  |-> [i \in 0 .. k.ni - 1 |-> input],
         out |-> [o \in outs \cup {k.ni + k.no} |-> IF o \in outs THEN output ELSE probe]]

-----------------------------------------------------------------------------
(* The commands *)
EmptyThisBuffer(c, m) ==
    CASE c.class = "codec"    -> CodecEmptyThisBuffer(c, m)
      [] c.class = "mixer"    -> MixerEmpty(c, m)
      [] c.class = "mimo"     -> MimoEmpty(c, m)
      [] c.class = "renderer" -> RendererEmpty(c, m)
      [] c.class = "capturer" -> CapturerEmpty(c, m)

FillThisBuffer(c, m) ==
    CASE c.class = "codec"    -> CodecFillThisBuffer(c, m)
      [] c.class = "mixer"    -> MixerFill(c, m)
      [] c.class = "mimo"     -> MimoFill(c, m)
      [] c.class = "renderer" -> RendererFill(c, m)
      [] c.class = "capturer" -> CapturerFill(c, m)

Flush(c, m) ==
    CASE c.class = "codec"    -> CodecFlush(c, m)
      [] c.class = "mixer"    -> MixerFlush(c, m)
      [] c.class = "mimo"     -> MimoFlush(c, m)
      [] c.class = "renderer" -> RendererFlush(c, m)
      [] c.class = "capturer" -> CapturerFlush(c, m)

PortRoute(c, m, o) ==
    CASE c.class = "codec"    -> CodecRoute(c, m, o)
      [] c.class = "mixer"    -> MixerRoute(c, m, o)
      [] c.class = "mimo"     -> MimoRoute(c, m, o)
      [] c.class = "renderer" -> RendererRoute(c, m, o)
      [] c.class = "capturer" -> CapturerRoute(c, m, o)

PortUnroute(c, m) ==
    CASE c.class = "codec"    -> CodecUnroute(c, m)
      [] c.class = "mixer"    -> MixerUnroute(c, m)
      [] c.class = "mimo"     -> MimoUnroute(c, m)
      [] c.class = "renderer" -> RendererUnroute(c, m)
      [] c.class = "capturer" -> CapturerUnroute(c, m)

\* renderer and capturer have no hook for these
Pause(c, m) ==
    CASE c.class = "codec" -> CodecPause(c, m)
      [] c.class = "mixer" -> MixerPause(c, m)
      [] c.class = "mimo"  -> MimoPause(c, m)
      [] OTHER -> Fail(c, "error")

Resume(c, m) ==
    CASE c.class = "codec" -> CodecResume(c, m)
      [] c.class = "mixer" -> MixerResume(c, m)
      [] c.class = "mimo"  -> MimoResume(c, m)
      [] OTHER -> Fail(c, "error")

\* o tells of the environment what a route depends on
Command(c, m, o) ==
    CASE m.op = "SET_PARAM"  -> SetParam(c, m, o.memory)
      [] m.op = "EMPTY"      -> EmptyThisBuffer(c, m)
      [] m.op = "FILL"       -> FillThisBuffer(c, m)
      [] m.op = "FLUSH"      -> Flush(c, m)
      [] m.op = "ROUTE"      -> PortRoute(c, m, o)
      [] m.op = "UNROUTE"    -> PortUnroute(c, m)
      [] m.op = "PAUSE"      -> Pause(c, m)
      [] m.op = "RESUME"     -> Resume(c, m)
      [] m.op = "UNREGISTER" -> Unregister(c)
      [] OTHER -> Fail(c, "error")

-----------------------------------------------------------------------------
(* Processing.  The plug-in reports what it consumed and produced and      *)
(* whether its stage is done; the allocation of the buffers of a route     *)
(* that waited for the initialisation may fail.                            *)
Preprocess(c) ==
    CASE c.class = "codec"    -> CodecPreprocess(c)
      [] c.class = "mixer"    -> MixerPreprocess(c)
      [] c.class = "mimo"     -> MimoPreprocess(c)
      [] c.class = "renderer" -> RendererPreprocess(c)
      [] c.class = "capturer" -> CapturerPreprocess(c)

\* the device of a renderer or capturer may run while the plug-in executes
Postprocess(c, o, running) ==
    CASE c.class = "codec"    -> CodecPostprocess(c, o, running)
      [] c.class = "mixer"    -> MixerPostprocess(c, o)
      [] c.class = "mimo"     -> MimoPostprocess(c, o, running)
      [] c.class = "renderer" -> RendererPostprocess([c EXCEPT !.hw = StageOf(c) = {"EXECUTION"}], o)
      [] c.class = "capturer" -> CapturerPostprocess([c EXCEPT !.hw = StageOf(c) = {"EXECUTION"}], o)

\* what the inputs offer: all or nothing for a device and for a mixer, which
\* mixes equal parts of its tracks
Reads(p) ==
    LET set == CASE p.class = "codec" -> IF Has(p, "INPUT_SETUP") THEN {0} ELSE {}
                 [] p.class \in {"mixer", "mimo"} ->
                        {i \in ActiveTracks(p) : "INPUT_SETUP" \in p.in[i].flags}
                 [] OTHER -> IF Has(p, "RUNTIME_INIT") THEN {} ELSE DOMAIN p.in
        take(S) == [i \in DOMAIN p.in |-> IF i \in S THEN p.avail[i] ELSE 0]
    IN  CASE p.class = "codec" -> 0 .. take(set)[0]
          [] p.class = "mimo"  -> {take(S) : S \in SUBSET set}
          [] p.class = "mixer" -> {take({}), take(set)}
          [] p.class = "renderer" -> {0, take(set)[0]}
          [] OTHER -> {0}

\* what the outputs may be filled with
Writes(p) ==
    LET ready == {q \in Outs(p) : /\ {"TRACK_ACTIVE", "TRACK_ROUTED", "OUTPUT_SETUP"} \subseteq p.out[q].flags
                                  /\ ~OutFlag(p, q, "NO_BUFFER") /\ ~OutFlag(p, q, "PAUSED")}
        stopped == Has(p, "RUNTIME_INIT") \/ StageOf(p) = {}
    IN  CASE p.class = "mimo" -> IF stopped THEN {{}} ELSE SUBSET ready
          [] p.class = "capturer" -> IF stopped \/ p.out[0].queue = <<>> THEN {0} ELSE {0, 1}
          [] OTHER -> IF stopped THEN {0} ELSE {0, 1}

\* when a plug-in that executes may say that it is done
AtEnd(p) ==
    CASE p.class = "capturer"       -> TRUE
      [] p.class = "mimo"           -> \A i \in ActiveTracks(p) : p.over[i]
      [] OTHER -> \A i \in DOMAIN p.over : p.over[i] /\ "PAUSED" \notin p.in[i].flags

Outcomes(p, memory) ==
    {o \in [consumed : Reads(p), produced : Writes(p), done : BOOLEAN, memory : memory] :
        o.done => StageOf(p) # {} /\ (Has(p, "RUNTIME_INIT") \/ AtEnd(p))}

\* the component after the round with that outcome
BaseProcess(p, o) ==
    Postprocess(Advance(p, o.done), o, ~Has(p, "RUNTIME_INIT"))

-----------------------------------------------------------------------------
(* Termination *)
Terminate(c, m) ==
    CASE c.class = "codec"    -> CodecTerminate(c, m)
      [] c.class = "mixer"    -> MixerTerminate(c, m)
      [] c.class = "mimo"     -> MimoTerminate(c, m)
      [] c.class = "renderer" -> RendererTerminate(c, m)
      [] c.class = "capturer" -> CapturerTerminate(c, m)

Destroy(c) ==
    CASE c.class = "codec"    -> CodecDestroy(c)
      [] c.class = "mixer"    -> MixerDestroy(c)
      [] c.class = "mimo"     -> MimoDestroy(c)
      [] c.class = "renderer" -> RendererDestroy(c)
      [] c.class = "capturer" -> CapturerDestroy(c)

Cleanup(c, m) ==
    CASE c.class = "codec"    -> CodecCleanup(c, m)
      [] c.class = "mixer"    -> MixerCleanup(c, m)
      [] c.class = "mimo"     -> MimoCleanup(c, m)
      [] c.class = "renderer" -> RendererCleanup(c, m)
      [] c.class = "capturer" -> CapturerCleanup(c, m)

Exit(c, m) == IF c.entry = "terminate" THEN Destroy(c) ELSE Cleanup(c, m)

\* a handled message: a failure is answered, and may end the component
Received(r, m) ==
    LET d == IF r.ret = "error" THEN AnswerFailed(r, m) ELSE r
    IN  IF Terminates(r, m) THEN Exit(d, Cause(r, m)) ELSE d
=============================================================================
