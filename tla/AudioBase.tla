------------------------------- MODULE AudioBase -------------------------------
(***************************************************************************)
(* What all audio components of the DSP share, xa-class-base.c: the state  *)
(* flags of set-up, initialisation and execution, the scheduling of data   *)
(* processing, the parameter commands, and the handling of what a          *)
(* component's entry point returns, xf_core_process_message.               *)
(*                                                                         *)
(* A component record c has, besides the fields of Ports: state, the set   *)
(* of its flags; entry, the handler of its messages ("command",            *)
(* "terminate", or "gone" once destroyed); ret, what the last call         *)
(* returned; saved, the command that asked for its termination; and of     *)
(* the plug-in it drives, for each input, avail, the data offered to it,   *)
(* and over, whether it was told that the input is over.                   *)
(*                                                                         *)
(* Ports are numbered as in the code: c.ni inputs from 0, then c.no        *)
(* outputs, then the probe port, which copies what passes through the      *)
(* others if c.probe is set.                                               *)
(***************************************************************************)
EXTENDS Ports

Inputs(c)    == [k \in 1 .. c.ni |-> k - 1]
Outputs(c)   == [k \in 1 .. c.no |-> c.ni + k - 1]
ProbePort(c) == c.ni + c.no

Fail(c, why) == [c EXCEPT !.ret = why]
Has(c, flag) == flag \in c.state

-----------------------------------------------------------------------------
(* c.task counts the places of the component's task in the scheduler's     *)
(* tree, which the flag is to tell.                                        *)

\* mutant: the flag is not consulted
Schedule_Again(c) ==
    IF Has(c, "COMP_FATAL_ERROR") THEN c
    ELSE [c EXCEPT !.state = @ \cup {"SCHEDULE"}, !.task = @ + 1]

Schedule(c) ==
    IF Has(c, "SCHEDULE") \/ Has(c, "COMP_FATAL_ERROR") THEN c
    ELSE [c EXCEPT !.state = @ \cup {"SCHEDULE"}, !.task = @ + 1]

Cancel(c) ==
    IF Has(c, "SCHEDULE") THEN [c EXCEPT !.state = @ \ {"SCHEDULE"}, !.task = @ - 1] ELSE c

\* the task is taken out of the tree to be executed
Take(c) == [c EXCEPT !.state = @ \ {"SCHEDULE"}, !.task = @ - 1]

ScheduleIf(c, ready) == IF ready THEN Schedule(c) ELSE c

-----------------------------------------------------------------------------
(* The first SET_PARAM completes the static configuration of a component:  *)
(* its ports are created and its initialisation may start.                 *)
SetParam(c, m, memory) ==
    LET d == [c EXCEPT !.state = Toggle(@, {"POSTINIT", "RUNTIME_INIT"})]
    IN  CASE Has(c, "POSTINIT") -> ResponseOk(c, m)
          [] ~Has(c, "POSTINIT") /\ ~memory -> Fail(c, "error")
          [] OTHER -> ResponseOk(d, m)

\* XF_UNREGISTER leaves the component to its exit hook
Unregister(c) == Fail(c, "unregister")

-----------------------------------------------------------------------------
(* One round of processing: the plug-in initialises itself or executes, o  *)
(* tells with what result, and a stage that is done gives way to the next. *)
StageOf(c) == {"RUNTIME_INIT", "EXECUTION"} \cap c.state

Advance(c, done) ==
    CASE done /\ Has(c, "RUNTIME_INIT") ->
            [c EXCEPT !.state = Toggle(@, {"RUNTIME_INIT", "EXECUTION"})]
      [] done /\ ~Has(c, "RUNTIME_INIT") /\ Has(c, "EXECUTION") ->
            [c EXCEPT !.state = Toggle(@, {"EXECUTION", "COMPLETED"})]
      [] OTHER -> c

\* a stream that starts again after it was completed
Restart(c) == [c EXCEPT !.state = {"POSTINIT", "EXECUTION"}, !.over = [i \in DOMAIN @ |-> FALSE]]

\* the runtime initialisation of a plug-in that executes
ResetRuntime(c) == [c EXCEPT !.over = [i \in DOMAIN @ |-> FALSE]]

-----------------------------------------------------------------------------
(* The probe port: it is paused until it is asked for, and what is put on  *)
(* it is then needed to process.                                           *)
ProbePaused(c) == "PROBE_PAUSED" \in c.out[ProbePort(c)].flags
ProbeOn(c)     == c.probe /\ ~ProbePaused(c)

\* a probe that waits for a buffer holds processing up
ProbeWaits(c) ==
    ProbeOn(c) /\ ~Has(c, "RUNTIME_INIT") /\ ~OutputReady(c.out[ProbePort(c)])

StopProbe(c) ==
    [OutputFlush(c, ProbePort(c), "FLUSH") EXCEPT !.out[ProbePort(c)].flags = @ \cup {"PROBE_PAUSED"}]

StartProbe(c) == [c EXCEPT !.out[ProbePort(c)].flags = @ \ {"PROBE_PAUSED"}]

FlushProbe(c) == IF c.probe THEN OutputFlush(c, ProbePort(c), "FLUSH") ELSE c

\* the buffer to copy to, taken for the round of processing; none in the
\* classes that keep the flag with the port when the queue is empty
NeedsProbe(c) ==
    ProbeOn(c) /\ ~Has(c, "RUNTIME_INIT") /\ "PROBE_SETUP" \notin c.out[ProbePort(c)].flags

SetupProbe(c) ==
    IF NeedsProbe(c) THEN [c EXCEPT !.out[ProbePort(c)].flags = @ \cup {"PROBE_SETUP"}] ELSE c

\* a round that moved data completes the probe's buffer
ProduceProbe(c, moved) ==
    IF ProbeOn(c) /\ moved
    THEN [OutputProduce(c, ProbePort(c), 1)
          EXCEPT !.out[ProbePort(c)].flags = Toggle(@, {"PROBE_SETUP"})]
    ELSE c

-----------------------------------------------------------------------------
(* Tracks: the inputs of the classes that have several. A track is idle    *)
(* until data arrives.                                                     *)
TrackReceives(c, m) ==
    InputPut([c EXCEPT !.in[m.port].flags =
                IF m.len = 0 THEN @ \ {"RECVD_DATA"} ELSE @ \cup {"RECVD_DATA"}], m.port, m)

ActiveTracks(c) == {i \in DOMAIN c.in : "ACTIVE" \in c.in[i].flags}

PurgeTracks(c) == FoldLeft(InputPurge, c, Inputs(c))

-----------------------------------------------------------------------------
(* What becomes of a message whose handler failed.  A command of the       *)
(* application is answered with the error; one of a component is answered  *)
(* with a failure, unless it is a buffer of this component's own, and the  *)
(* component is terminated.                                                *)
AnswerFailed(c, m) ==
    CASE m.src = "app" -> ResponseErr(c, m)
      [] m.src # "app" /\ m.op # "FILL" -> ResponseFailure(c, m)
      [] OTHER -> c

Terminates(c, m) == c.ret = "unregister" \/ (c.ret = "error" /\ m.src # "app")

\* the command to answer when the termination is complete, none if the
\* component terminates by itself
Cause(c, m) == IF c.ret = "unregister" THEN m ELSE NoMsg

\* A message for a component that is no longer there
NotRegistered(m) ==
    IF m.src = "app" THEN [m EXCEPT !.op = "UNREGISTER", !.len = 0]
    ELSE Turned([m EXCEPT !.len = LengthInvalid])
=============================================================================
