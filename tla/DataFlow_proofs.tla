----------------------------- MODULE DataFlow_proofs -----------------------------
(***************************************************************************)
(* The task of a component and the flag that tells of it, for every class, *)
(* any number of ports, tracks and buffers, and all that the surroundings  *)
(* may do.                                                                 *)
(*                                                                         *)
(* Every operator the handlers are made of is shown to leave the component *)
(* the Same but for its ports, or to keep it Sound; what is done to each   *)
(* port in turn is a fold, and FoldLemmas is instantiated with its step.   *)
(***************************************************************************)
EXTENDS DataFlow, TLAPS

Fields == {"class", "ni", "no", "entry", "state", "task"}

\* d is the same component as a
Frame(a, d) ==
    /\ Fields \subseteq DOMAIN d
    /\ d.class = a.class /\ d.ni = a.ni /\ d.no = a.no /\ d.entry = a.entry
    /\ d.ni \in Nat /\ d.no \in Nat

\* at its ports, its plug-in and what it sends at most, it differs
Same(a, d) == Frame(a, d) /\ d.state = a.state /\ d.task = a.task

\* or at flags that do not concern the scheduler
Kept(a, d) ==
    Frame(a, d) /\ d.task = a.task /\ ("SCHEDULE" \in d.state <=> "SCHEDULE" \in a.state)

\* the flag tells whether the task is in the tree
Told(d) == d.task = IF "SCHEDULE" \in d.state THEN 1 ELSE 0

Sound(a, d) == Frame(a, d) /\ (Told(a) => Told(d))

PurgeInput  == INSTANCE FoldLemmas WITH Op <- LAMBDA arg, d, i : InputPurge(d, i), Good <- Same
CloseInput  == INSTANCE FoldLemmas WITH Op <- LAMBDA arg, d, i : InputDestroy(d, i), Good <- Same
CloseOutput == INSTANCE FoldLemmas WITH Op <- LAMBDA arg, d, o : OutputDestroy(d, o), Good <- Same
OfferTrack  == INSTANCE FoldLemmas WITH Op <- LAMBDA arg, d, i : MixerOfferTrack(d, i), Good <- Same
ConsumeTrack == INSTANCE FoldLemmas WITH
    Op <- LAMBDA arg, d, i : MixerConsumed(d, i, arg.consumed[i]), Good <- Same
StartTrack  == INSTANCE FoldLemmas WITH
    Op <- LAMBDA arg, d, o : MimoStartTrack(d, o, arg), Good <- Same
SetupTrack  == INSTANCE FoldLemmas WITH Op <- LAMBDA arg, d, o : MimoSetupOutput(d, o), Good <- Same
OfferInput  == INSTANCE FoldLemmas WITH
    Op <- LAMBDA arg, acc, i : MimoOffer(acc, i),
    Good <- LAMBDA a, acc : DOMAIN acc = {"c", "starved"} /\ Same(a, acc.c)
ConsumeInput == INSTANCE FoldLemmas WITH
    Op <- LAMBDA arg, d, i : MimoConsumed(d, i, arg.consumed[i], arg.done), Good <- Same
ProduceOutput == INSTANCE FoldLemmas WITH
    Op <- LAMBDA arg, d, o : MimoProduced(d, o, arg), Good <- Same
FlushTrack  == INSTANCE FoldLemmas WITH
    Op <- LAMBDA arg, d, o : MimoFlushTrack(d, o, arg), Good <- Same

-----------------------------------------------------------------------------
(* The ports *)

\* A response touches what the component has sent, no more.
LEMMA Responses ==
    ASSUME NEW a, NEW d, Same(a, d)
    PROVE  /\ \A h, x : Same(a, Expect(d, h, x))
           /\ \A m : Same(a, Response(d, m))
           /\ \A m, n : Same(a, ResponseData(d, m, n))
           /\ \A m : Same(a, ResponseOk(d, m))
           /\ \A m : Same(a, ResponseErr(d, m))
           /\ \A m : Same(a, ResponseFailure(d, m))
           /\ \A m : Same(a, RespondAllOk(d, m))
  BY DEF Expect, Response, ResponseData, ResponseOk, ResponseErr, ResponseFailure, RespondAllOk,
         Same, Frame, Fields

\* What xf-io.c does to an input port stays there, or is a response.
LEMMA InputPorts ==
    ASSUME NEW a, NEW d, Same(a, d), NEW i
    PROVE  /\ \A m : Same(a, InputPut(d, i, m))
           /\ Same(a, InputFill(d, i))
           /\ \A n : Same(a, InputConsume(d, i, n))
           /\ Same(a, InputPurge(d, i))
           /\ \A m : Same(a, InputControlSave(d, i, m))
           /\ Same(a, InputPurgeDone(d, i))
           /\ Same(a, InputDestroy(d, i))
<1>1. \A m : Same(a, InputPut(d, i, m))
  BY Responses DEF InputPut, Expect, Same, Frame, Fields
<1>2. ASSUME NEW e, Same(a, e) PROVE Same(a, InputComplete(e, i)) /\ Same(a, MarkDone(e, i))
  BY <1>2, Responses DEF InputComplete, MarkDone, Expect, Same, Frame, Fields
<1>3. Same(a, FillBypass(d, i))
  BY <1>2 DEF FillBypass
<1>4. Same(a, FillBuffer(d, i))
  BY DEF FillBuffer, Filled, Same, Frame, Fields
<1>5. Same(a, InputFill(d, i))
  BY <1>3, <1>4 DEF InputFill
<1>6. \A n : Same(a, InputConsume(d, i, n))
  BY DEF InputConsume, Same, Frame, Fields
<1>7. Same(a, InputPurge(d, i))
  <2> DEFINE e == RespondAllOk(d, d.in[i].queue)
  <2>1. Same(a, e)
    BY Responses
  <2> HIDE DEF e
  <2> QED
    BY <2>1 DEF InputPurge, e, Same, Frame, Fields
<1>8. \A m : Same(a, InputControlSave(d, i, m))
  BY Responses DEF InputControlSave, Expect, Same, Frame, Fields
<1>9. Same(a, InputPurgeDone(d, i))
  <2> DEFINE e == Expect(d, "PURGING" \in d.in[i].flags, "no purge started")
  <2>1. Same(a, e)
    BY DEF Expect, Same, Frame, Fields
  <2> HIDE DEF e
  <2>2. Same(a, ResponseOk(e, Head(e.in[i].queue))) /\ Same(a, Expect(e, FALSE, "no saved flush command"))
    BY <2>1, Responses
  <2> QED
    BY <2>2 DEF InputPurgeDone, e, Same, Frame, Fields
<1>10. Same(a, InputDestroy(d, i))
  BY DEF InputDestroy, Same, Frame, Fields
<1> QED
  BY <1>1, <1>5, <1>6, <1>7, <1>8, <1>9, <1>10

\* So does what it does to an output port.
LEMMA OutputPorts ==
    ASSUME NEW a, NEW d, Same(a, d), NEW o
    PROVE  /\ \A mem : Same(a, OutputRouteAlloc(d, o, mem))
           /\ \A n, sized, mem : Same(a, OutputRoute(d, o, n, sized, mem))
           /\ Same(a, OutputUnroute(d, o))
           /\ \A m : Same(a, OutputUnrouteStart(d, o, m))
           /\ Same(a, OutputUnrouteDone(d, o))
           /\ \A m : Same(a, OutputPut(d, o, m))
           /\ Same(a, OutputData(d, o))
           /\ \A n : Same(a, OutputProduce(d, o, n))
           /\ \A op : Same(a, OutputFlush(d, o, op))
           /\ Same(a, OutputFlushDone(d, o))
           /\ Same(a, OutputDestroy(d, o))
<1>1. ASSUME NEW e, Same(a, e) PROVE \A mem : Same(a, OutputRouteAlloc(e, o, mem))
  BY <1>1 DEF OutputRouteAlloc, Same, Frame, Fields
<1>2. ASSUME NEW n, NEW sized, NEW mem PROVE Same(a, OutputRoute(d, o, n, sized, mem))
  <2> DEFINE e == [d EXCEPT !.out[o].pool = n, !.out[o].pools = @ + 1, !.out[o].sized = FALSE,
                            !.out[o].flags = (@ \cup {"ROUTING"}) \ {"IDLE"}]
  <2>1. Same(a, e)
    BY DEF Same, Frame, Fields
  <2> HIDE DEF e
  <2>2. Same(a, OutputRouteAlloc(e, o, mem))
    BY <1>1, <2>1
  <2> QED
    BY <2>1, <2>2 DEF OutputRoute, e
<1>3. ASSUME NEW e, Same(a, e) PROVE Same(a, OutputUnroute(e, o))
  BY <1>3 DEF OutputUnroute, Same, Frame, Fields
<1>4. \A m : Same(a, OutputUnrouteStart(d, o, m))
  BY DEF OutputUnrouteStart, Expect, Same, Frame, Fields
<1>5. Same(a, OutputUnrouteDone(d, o))
  <2> DEFINE e == Expect(d, Unrouting(d.out[o]), "no unrouting started")
             f == OutputUnroute(e, o)
             g == [f EXCEPT !.out[o].unroute = NoMsg]
  <2>1. Same(a, e)
    BY DEF Expect, Same, Frame, Fields
  <2>2. Same(a, f)
    <3> HIDE DEF e
    <3> QED
      BY <1>3, <2>1
  <2>3. Same(a, g)
    <3> HIDE DEF f
    <3> QED
      BY <2>2 DEF Same, Frame, Fields
  <2>4. \A m : Same(a, ResponseOk(g, m))
    <3> HIDE DEF g
    <3> QED
      BY <2>3, Responses
  <2> QED
    BY <2>4 DEF OutputUnrouteDone
<1>6. \A m : Same(a, OutputPut(d, o, m))
  BY DEF OutputPut, Same, Frame, Fields
<1>7. Same(a, OutputData(d, o))
  BY DEF OutputData, Expect, Same, Frame, Fields
<1>8. ASSUME NEW n PROVE Same(a, OutputProduce(d, o, n))
  <2> DEFINE e == Expect(d, ~Unrouting(d.out[o]), "production on a port being unrouted")
             f == ResponseData(e, Head(d.out[o].queue), n)
  <2>1. Same(a, e)
    BY DEF Expect, Same, Frame, Fields
  <2>2. Same(a, f) /\ Same(a, Expect(e, FALSE, "production without buffer"))
    <3> HIDE DEF e
    <3> QED
      BY <2>1, Responses
  <2>3. Same(a, [f EXCEPT !.out[o].queue = Tail(@), !.out[o].flags = @ \ {"IDLE"}])
    <3> HIDE DEF f
    <3> QED
      BY <2>2 DEF Same, Frame, Fields
  <2> QED
    BY <2>2, <2>3 DEF OutputProduce
<1>9. \A op : Same(a, OutputFlush(d, o, op))
  BY DEF OutputFlush, RespondAllOk, Response, Same, Frame, Fields
<1>10. Same(a, OutputFlushDone(d, o))
  BY DEF OutputFlushDone, Expect, Same, Frame, Fields
<1>11. Same(a, OutputDestroy(d, o))
  <2> DEFINE e == Expect(d, Routed(d.out[o]) => "IDLE" \in d.out[o].flags,
                         "destroying a port that is not idle")
             f == IF Routed(d.out[o]) THEN OutputUnroute(e, o) ELSE d
  <2>1. Same(a, e)
    BY DEF Expect, Same, Frame, Fields
  <2>2. Same(a, f)
    <3> HIDE DEF e
    <3> QED
      BY <1>3, <2>1
  <2>3. Same(a, [f EXCEPT !.out[o].flags = {}])
    <3> HIDE DEF f
    <3> QED
      BY <2>2 DEF Same, Frame, Fields
  <2> QED
    BY <2>3 DEF OutputDestroy
<1> QED
  BY <1>1, <1>2, <1>3, <1>4, <1>5, <1>6, <1>7, <1>8, <1>9, <1>10, <1>11

-----------------------------------------------------------------------------
(* The tasks *)

\* Putting the task into the tree and taking it out keep the flag true; a
\* restart does if the component is not scheduled.
LEMMA Scheduling ==
    ASSUME NEW a, NEW d
    PROVE  /\ Sound(a, d) => Sound(a, Schedule(d)) /\ \A x : Sound(a, ScheduleIf(d, x))
           /\ Sound(a, d) => Sound(a, Cancel(d))
           /\ Sound(a, d) /\ (Told(a) => "SCHEDULE" \notin d.state) => Sound(a, Restart(d))
           /\ Same(a, d) => Same(a, ResetRuntime(d))
           /\ \A why : Same(a, d) => Same(a, Fail(d, why))
  BY DEF Sound, Told, Same, Frame, Fields, Schedule, ScheduleIf, Cancel, Restart, ResetRuntime, Has, Fail

\* What is the same is kept, what is kept is sound, if it was.
LEMMA SameKept == ASSUME NEW a, NEW d, Same(a, d) PROVE Kept(a, d)
  BY DEF Same, Kept

\* A step that keeps a component can follow one that leaves it sound.
LEMMA KeptSound == ASSUME NEW a, NEW d, NEW e, Sound(a, d), Kept(d, e) PROVE Sound(a, e)
  BY DEF Sound, Told, Kept, Frame

\* One that leaves it the same even more so.
LEMMA SameSound == ASSUME NEW a, NEW d, NEW e, Sound(a, d), Same(d, e) PROVE Sound(a, e)
  BY DEF Sound, Told, Same, Frame

\* A component is what it is.
LEMMA Itself == ASSUME NEW a, NEW d, Frame(a, d) PROVE Same(d, d) /\ Kept(d, d)
  BY DEF Same, Kept, Frame

\* The commands and results that change the stage of a component.
LEMMA Initialising ==
    ASSUME NEW a, NEW d, Same(a, d)
    PROVE  /\ \A m, mem : Kept(a, SetParam(d, m, mem))
           /\ \A done : Kept(a, Advance(d, done))
<1>1. \A m, mem : Kept(a, SetParam(d, m, mem))
  BY DEF SetParam, Toggle, Has, ResponseOk, Response, Fail, Same, Kept, Frame, Fields
<1>2. \A done : Kept(a, Advance(d, done))
  BY DEF Advance, Toggle, Has, Same, Kept, Frame, Fields
<1> QED
  BY <1>1, <1>2

\* The probe port is one more output.
LEMMA Probing ==
    ASSUME NEW a, NEW d, Same(a, d)
    PROVE  /\ Same(a, StopProbe(d)) /\ Same(a, StartProbe(d)) /\ Same(a, FlushProbe(d))
           /\ Same(a, SetupProbe(d)) /\ \A moved : Same(a, ProduceProbe(d, moved))
<1>1. Same(a, StopProbe(d))
  <2> DEFINE e == OutputFlush(d, ProbePort(d), "FLUSH")
  <2>1. Same(a, e)
    BY OutputPorts
  <2> HIDE DEF e
  <2> QED
    BY <2>1 DEF StopProbe, e, Same, Frame, Fields
<1>2. Same(a, StartProbe(d)) /\ Same(a, SetupProbe(d))
  BY DEF StartProbe, SetupProbe, Same, Frame, Fields
<1>3. Same(a, FlushProbe(d))
  BY OutputPorts DEF FlushProbe
<1>4. ASSUME NEW moved PROVE Same(a, ProduceProbe(d, moved))
  <2> DEFINE e == OutputProduce(d, ProbePort(d), 1)
  <2>1. Same(a, e)
    BY OutputPorts
  <2> HIDE DEF e
  <2> QED
    BY <2>1 DEF ProduceProbe, e, Same, Frame, Fields
<1> QED
  BY <1>1, <1>2, <1>3, <1>4

\* The sequences of ports, for the folds.
LEMMA PortSequences ==
    ASSUME NEW a, NEW d, Same(a, d)
    PROVE  /\ d.ni \in Nat /\ DOMAIN Inputs(d) = 1 .. d.ni
           /\ d.no \in Nat /\ DOMAIN Outputs(d) = 1 .. d.no
  BY DEF Same, Frame, Inputs, Outputs

\* The inputs of the classes that have several, one after the other.
LEMMA Tracks ==
    ASSUME NEW a, NEW d, Same(a, d)
    PROVE  Same(a, PurgeTracks(d)) /\ \A m : Same(a, TrackReceives(d, m))
<1>1. Same(a, PurgeInput!Fold(0, d, Inputs(d)))
  <2>1. \A e, i : Same(a, e) => Same(a, InputPurge(e, i))
    BY InputPorts
  <2> QED
    BY <2>1, PortSequences, PurgeInput!Folded
<1>2. PurgeInput!Fold(0, d, Inputs(d)) = PurgeTracks(d)
  BY DEF PurgeTracks, FoldLeft, PurgeInput!Fold, PurgeInput!FoldLeft, MapThenFoldSet, PurgeInput!MapThenFoldSet,
         Max, PurgeInput!Max
<1>3. ASSUME NEW m PROVE Same(a, TrackReceives(d, m))
  <2> DEFINE e == [d EXCEPT !.in[m.port].flags =
                     IF m.len = 0 THEN @ \ {"RECVD_DATA"} ELSE @ \cup {"RECVD_DATA"}]
  <2>1. Same(a, e)
    BY DEF Same, Frame, Fields
  <2> HIDE DEF e
  <2>2. Same(a, InputPut(e, m.port, m))
    BY <2>1, InputPorts
  <2> QED
    BY <2>2 DEF TrackReceives, e
<1> QED
  BY <1>1, <1>2, <1>3

\* What the handlers are made of keeps a component sound.
LEMMA SoundSteps ==
    ASSUME NEW a, NEW d, Sound(a, d)
    PROVE  /\ \A h, x : Sound(a, Expect(d, h, x))
           /\ \A m : Sound(a, Response(d, m)) /\ Sound(a, ResponseOk(d, m))
           /\ \A m, n : Sound(a, ResponseData(d, m, n))
           /\ \A why : Sound(a, Fail(d, why))
           /\ \A x : Sound(a, ScheduleIf(d, x))
           /\ Sound(a, Schedule(d)) /\ Sound(a, Cancel(d))
           /\ \A i, m : Sound(a, InputPut(d, i, m)) /\ Sound(a, InputControlSave(d, i, m))
           /\ \A i : Sound(a, InputPurge(d, i)) /\ Sound(a, InputPurgeDone(d, i))
           /\ \A o, n, sized, mem : Sound(a, OutputRoute(d, o, n, sized, mem))
           /\ \A o, mem : Sound(a, OutputRouteAlloc(d, o, mem))
           /\ \A o : /\ Sound(a, OutputUnroute(d, o)) /\ Sound(a, OutputUnrouteDone(d, o))
                     /\ Sound(a, OutputFlushDone(d, o)) /\ Sound(a, OutputData(d, o))
           /\ \A o, m : Sound(a, OutputUnrouteStart(d, o, m)) /\ Sound(a, OutputPut(d, o, m))
           /\ \A o, n : Sound(a, OutputProduce(d, o, n))
           /\ \A o, op : Sound(a, OutputFlush(d, o, op))
           /\ Sound(a, StopProbe(d)) /\ Sound(a, StartProbe(d)) /\ Sound(a, FlushProbe(d))
           /\ Sound(a, PurgeTracks(d)) /\ Sound(a, ResetRuntime(d))
<1>1. Same(d, d)
  BY Itself DEF Sound
<1>2. \A e : Same(d, e) => Sound(a, e)
  BY SameSound
<1>3. Sound(a, Schedule(d)) /\ Sound(a, Cancel(d)) /\ \A x : Sound(a, ScheduleIf(d, x))
  BY Scheduling
<1>4. \A h, x : Sound(a, Expect(d, h, x))
  BY <1>1, <1>2, Responses
<1>5. /\ \A m : Sound(a, Response(d, m)) /\ Sound(a, ResponseOk(d, m))
      /\ \A m, n : Sound(a, ResponseData(d, m, n))
  BY <1>1, <1>2, Responses
<1>6. Sound(a, ResetRuntime(d)) /\ \A why : Sound(a, Fail(d, why))
  BY <1>1, <1>2, Scheduling
<1>7. /\ \A i, m : Sound(a, InputPut(d, i, m)) /\ Sound(a, InputControlSave(d, i, m))
      /\ \A i : Sound(a, InputPurge(d, i)) /\ Sound(a, InputPurgeDone(d, i))
  BY <1>1, <1>2, InputPorts
<1>8. /\ \A o, n, sized, mem : Sound(a, OutputRoute(d, o, n, sized, mem))
      /\ \A o, mem : Sound(a, OutputRouteAlloc(d, o, mem))
  BY <1>1, <1>2, OutputPorts
<1>9. \A o : /\ Sound(a, OutputUnroute(d, o)) /\ Sound(a, OutputUnrouteDone(d, o))
             /\ Sound(a, OutputFlushDone(d, o)) /\ Sound(a, OutputData(d, o))
  BY <1>1, <1>2, OutputPorts
<1>10. /\ \A o, m : Sound(a, OutputUnrouteStart(d, o, m)) /\ Sound(a, OutputPut(d, o, m))
       /\ \A o, n : Sound(a, OutputProduce(d, o, n))
       /\ \A o, op : Sound(a, OutputFlush(d, o, op))
  BY <1>1, <1>2, OutputPorts
<1>11. Sound(a, StopProbe(d)) /\ Sound(a, StartProbe(d)) /\ Sound(a, FlushProbe(d))
  BY <1>1, <1>2, Probing
<1>12. Sound(a, PurgeTracks(d))
  BY <1>1, <1>2, Tracks
<1> QED
  BY <1>3, <1>4, <1>5, <1>6, <1>7, <1>8, <1>9, <1>10, <1>11, <1>12

\* Flags the scheduler does not look at may come and go.
LEMMA Flags ==
    ASSUME NEW a, NEW d, Sound(a, d), NEW s, "SCHEDULE" \in s <=> "SCHEDULE" \in d.state
    PROVE  Sound(a, [d EXCEPT !.state = s])
  BY DEF Sound, Told, Frame, Fields

\* a change of ports
LEMMA PortsOnly ==
    ASSUME NEW a, NEW d, Sound(a, d)
    PROVE  (\A x : Sound(a, [d EXCEPT !.in = x])) /\ (\A x : Sound(a, [d EXCEPT !.out = x]))
  BY DEF Sound, Told, Frame, Fields

\* So does a start after the end, unless the component is scheduled.
LEMMA Restarting ==
    ASSUME NEW a, NEW d, Sound(a, d), Told(a) => ~Overtaken(d), NEW e, Same(d, e)
    PROVE  /\ Sound(a, e)
           /\ Has(e, "COMPLETED") \/ Has(e, "EOS_SEQ_DONE") => Sound(a, Restart(e))
  BY SameSound, Scheduling DEF Overtaken, Has, Same

-----------------------------------------------------------------------------
(* The codec *)

\* Buffers may start the stream again.
LEMMA CodecBuffers ==
    ASSUME NEW a, NEW d, Sound(a, d), Told(a) => ~Overtaken(d), NEW m
    PROVE  Sound(a, CodecEmptyThisBuffer(d, m)) /\ Sound(a, CodecFillThisBuffer(d, m))
<1>1. Same(d, d)
  BY Itself DEF Sound
<1>2. Sound(a, CodecEmptyThisBuffer(d, m))
  <2> DEFINE p == InputPut(d, 0, m)
             e == IF Has(p, "COMPLETED") THEN Restart(p) ELSE p
  <2>1. Same(d, p)
    BY <1>1, InputPorts
  <2> HIDE DEF p
  <2>2. Sound(a, p) /\ Sound(a, e)
    BY <2>1, Restarting
  <2> HIDE DEF e
  <2> QED
    BY <2>2, SoundSteps DEF CodecEmptyThisBuffer, p, e
<1>3. ASSUME NEW x, Same(d, x), NEW n PROVE Sound(a, CodecFillOutput(x, n))
  <2> DEFINE e == IF Has(x, "EOS_SEQ_DONE") /\ ~Has(x, "RUNTIME_INIT") THEN Restart(x) ELSE x
  <2>1. Sound(a, e)
    BY <1>3, Restarting
  <2> HIDE DEF e
  <2> QED
    BY <2>1, SoundSteps DEF CodecFillOutput, e
<1>4. /\ Sound(a, CodecFillOutput(Expect(d, m.len = 0, "start message with a length"), m))
      /\ \A n : Sound(a, CodecFillOutput(d, n))
  BY <1>1, <1>3, Responses
<1>5. Sound(a, CodecFillProbe(d, m))
  BY SoundSteps DEF CodecFillProbe
<1>6. Sound(a, CodecFlushReturned(d, m))
  BY SoundSteps DEF CodecFlushReturned
<1>7. Sound(a, CodecSinkLost(d))
  BY SoundSteps, Flags DEF CodecSinkLost
<1>8. Sound(a, CodecFillThisBuffer(d, m))
  BY <1>4, <1>5, <1>6, <1>7, SoundSteps, Flags DEF CodecFillThisBuffer
<1> QED
  BY <1>2, <1>8

\* The other commands of a codec do not.
LEMMA CodecCommands ==
    ASSUME NEW d, Sound(d, d), NEW m, NEW o
    PROVE  /\ Sound(d, CodecRoute(d, m, o)) /\ Sound(d, CodecUnroute(d, m))
           /\ Sound(d, CodecFlush(d, m))
           /\ Sound(d, CodecPause(d, m)) /\ Sound(d, CodecResume(d, m))
<1>1. Sound(d, CodecRoute(d, m, o)) /\ Sound(d, CodecUnroute(d, m))
  BY SoundSteps, Flags DEF CodecRoute, CodecUnroute
<1>2. Sound(d, CodecFlushInput(d, m))
  BY SoundSteps, Flags DEF CodecFlushInput, Toggle
<1>3. Sound(d, CodecFlushOutput(d, m))
  BY SoundSteps, Flags DEF CodecFlushOutput, ControlMsg
<1>4. Sound(d, CodecFlush(d, m))
  BY <1>2, <1>3, SoundSteps DEF CodecFlush
<1>5. Sound(d, CodecPause(d, m))
  BY SoundSteps, PortsOnly DEF CodecPause
<1>6. Sound(d, CodecResume(d, m))
  BY SoundSteps, PortsOnly DEF CodecResume
<1> QED
  BY <1>1, <1>4, <1>5, <1>6

\* Nor does a round of its processing.
LEMMA CodecRound ==
    ASSUME NEW d, Sound(d, d), NEW o
    PROVE  /\ Sound(d, CodecPreprocess(d))
           /\ \A running : Sound(d, CodecPostprocess(d, o, running))
<1>1. ASSUME NEW e, Sound(d, e) PROVE Sound(d, SetupInput(e))
  <2>1. Sound(d, InputFill(e, 0)) 
    BY <1>1, Itself, InputPorts, SameSound DEF Sound
  <2> DEFINE f == IF ~Bypass(e.in[0]) /\ Done(e.in[0]) THEN e ELSE InputFill(e, 0)
  <2>2. Sound(d, f)
    BY <1>1, <2>1
  <2> HIDE DEF f
  <2>3. \A s : ("SCHEDULE" \in s <=> "SCHEDULE" \in f.state) =>
            \A x, y : Sound(d, [f EXCEPT !.state = s, !.avail[0] = x, !.over[0] = y])
    BY <2>2 DEF Sound, Told, Frame, Fields
  <2> QED
    BY <1>1, <2>2, <2>3, SoundSteps DEF SetupInput, f
<1>2. Sound(d, CodecSetupProbe(d))
  BY Flags DEF CodecSetupProbe
<1>3. ASSUME NEW e, Sound(d, e) PROVE Sound(d, SetupOutput(e))
  BY <1>3, SoundSteps, Flags DEF SetupOutput
<1>4. Sound(d, CodecPreprocess(d))
  BY <1>1, <1>2, <1>3, SoundSteps DEF CodecPreprocess
<1>5. Sound(d, CodecConsumed(d, o))
  <2>1. \A n : Sound(d, InputConsume(d, 0, n))
    BY Itself, InputPorts, SameSound DEF Sound
  <2> QED
    BY <2>1, Flags DEF CodecConsumed, Toggle
<1>6. ASSUME NEW e, Sound(d, e) PROVE Sound(d, CodecProduced(e, o))
  BY <1>6, SoundSteps, Flags DEF CodecProduced, Toggle
<1>7. ASSUME NEW e, Sound(d, e), NEW r PROVE Sound(d, CodecProbed(e, o, r))
  BY <1>7, SoundSteps, Flags DEF CodecProbed, Toggle
<1>8. ASSUME NEW e, Sound(d, e) PROVE Sound(d, CodecInitPending(e, o))
  <2> DEFINE x == [e EXCEPT !.state = @ \ {"INPUT_SETUP"}]
             f == Expect(x, ~(e.early /\ e.in[0].filled = 0) \/ e.out[1].queue # <<>>,
                         "no start message")
             g == ResponseData(f, Head(f.out[1].queue), 0)
  <2>1. Sound(d, f)
    BY <1>8, Flags DEF Expect, Sound, Told, Frame, Fields
  <2> HIDE DEF f
  <2>2. Sound(d, g)
    BY <2>1, SoundSteps
  <2> HIDE DEF g
  <2>3. Sound(d, [g EXCEPT !.out[1].queue = Tail(@), !.state = @ \ {"OUTPUT_SETUP"}])
    BY <2>2 DEF Sound, Told, Frame, Fields
  <2> QED
    BY <1>8, <2>1, <2>3 DEF CodecInitPending, f, g
<1>9. ASSUME NEW e, Sound(d, e) PROVE Sound(d, CodecCompleted(e, o))
  BY <1>9, SoundSteps, Flags DEF CodecCompleted
<1>10. ASSUME NEW e, Sound(d, e), NEW mem PROVE Sound(d, PrepareRuntime(e, mem))
  BY <1>10, SoundSteps DEF PrepareRuntime
<1>11. ASSUME NEW r PROVE Sound(d, CodecPostprocess(d, o, r))
  BY <1>5, <1>6, <1>7, <1>8, <1>9, <1>10, SoundSteps, Flags DEF CodecPostprocess
<1> QED
  BY <1>4, <1>11

-----------------------------------------------------------------------------
(* The mixer *)

\* A buffer for a track may start the mixer again.
LEMMA MixerBuffers ==
    ASSUME NEW a, NEW d, Sound(a, d), Told(a) => ~Overtaken(d), NEW m
    PROVE  Sound(a, MixerEmpty(d, m))
<1> DEFINE p == TrackReceives(d, m)
           e == IF Has(p, "COMPLETED") THEN Restart(p) ELSE p
           f == [e EXCEPT !.in[m.port].flags =
                   IF "IDLE" \in @ THEN Toggle(@, {"IDLE", "ACTIVE"}) ELSE @]
<1>1. Same(d, p)
  BY Itself, Tracks DEF Sound
<1> HIDE DEF p
<1>2. Sound(a, p) /\ Sound(a, e)
  BY <1>1, Restarting
<1> HIDE DEF e
<1>3. Sound(a, f)
  BY <1>2 DEF Sound, Told, Frame, Fields
<1> HIDE DEF f
<1> QED
  BY <1>2, <1>3, SoundSteps DEF MixerEmpty, MixSchedule, p, e, f

\* The other commands of a mixer do not.
LEMMA MixerCommands ==
    ASSUME NEW d, Sound(d, d), NEW m, NEW o
    PROVE  /\ Sound(d, MixerFill(d, m))
           /\ Sound(d, MixerRoute(d, m, o)) /\ Sound(d, MixerUnroute(d, m))
           /\ Sound(d, MixerFlush(d, m))
           /\ Sound(d, MixerPause(d, m)) /\ Sound(d, MixerResume(d, m))
<1>1. Sound(d, MixerFillProbe(d, m))
  BY SoundSteps DEF MixerFillProbe
<1>2. Sound(d, MixerFlushReturned(d, m))
  BY SoundSteps DEF MixerFlushReturned
<1>3. Sound(d, MixerSinkLost(d))
  BY SoundSteps, Flags DEF MixerSinkLost
<1>4. \A n : Sound(d, MixerFillOutput(d, n))
  BY SoundSteps DEF MixerFillOutput
<1>5. Sound(d, MixerFill(d, m))
  BY <1>1, <1>2, <1>3, <1>4, SoundSteps DEF MixerFill
<1>6. Sound(d, MixerRoute(d, m, o)) /\ Sound(d, MixerUnroute(d, m))
  BY SoundSteps, Flags DEF MixerRoute, MixerUnroute, MixSchedule
<1>7. Sound(d, MixerFlush(d, m))
  <2> DEFINE e == InputPurge(d, m.port)
             f == [e EXCEPT !.in[m.port].flags =
                     (@ \ {"ACTIVE", "PAUSED", "INPUT_SETUP", "RECVD_DATA"}) \cup {"IDLE"}]
  <2>1. Sound(d, e)
    BY SoundSteps
  <2> HIDE DEF e
  <2>2. Sound(d, f)
    BY <2>1 DEF Sound, Told, Frame, Fields
  <2> HIDE DEF f
  <2> QED
    BY <2>2, SoundSteps DEF MixerFlush, MixSchedule, e, f
<1>8. Sound(d, MixerPause(d, m)) /\ Sound(d, MixerResume(d, m))
  BY SoundSteps, PortsOnly DEF MixerPause, MixerResume, MixSchedule
<1> QED
  BY <1>5, <1>6, <1>7, <1>8

\* What is done to each track in turn.
LEMMA MixerFolds ==
    ASSUME NEW a, NEW d, Same(a, d)
    PROVE  /\ Same(a, FoldLeft(MixerOfferTrack, d, Inputs(d)))
           /\ \A o : Same(a, ConsumeTrack!Fold(o, d, Inputs(d)))
<1>1. ASSUME NEW e, Same(a, e), NEW i PROVE Same(a, MixerOffer(e, i))
  <2> DEFINE f == IF ~Bypass(e.in[i]) /\ Done(e.in[i]) THEN e ELSE InputFill(e, i)
  <2>1. Same(a, f)
    BY <1>1, InputPorts
  <2> HIDE DEF f
  <2>2. \A x, y, z : Same(a, [f EXCEPT !.in[i].flags = x, !.avail[i] = y, !.over[i] = z])
    BY <2>1 DEF Same, Frame, Fields
  <2> QED
    BY <2>1, <2>2, Scheduling DEF MixerOffer, f
<1>2. ASSUME NEW e, Same(a, e), NEW i PROVE Same(a, MixerOfferTrack(e, i))
  <2>1. Same(a, [e EXCEPT !.over[i] = TRUE])
    BY <1>2 DEF Same, Frame, Fields
  <2> QED
    BY <1>1, <1>2, <2>1 DEF MixerOfferTrack
<1>3. Same(a, OfferTrack!Fold(0, d, Inputs(d)))
  BY <1>2, PortSequences, OfferTrack!Folded
<1>4. OfferTrack!Fold(0, d, Inputs(d))
          = FoldLeft(MixerOfferTrack, d, Inputs(d))
  BY DEF FoldLeft, OfferTrack!Fold, OfferTrack!FoldLeft, MapThenFoldSet, OfferTrack!MapThenFoldSet,
         Max, OfferTrack!Max
<1>5. ASSUME NEW e, Same(a, e), NEW i, NEW n PROVE Same(a, MixerConsumed(e, i, n))
  <2> DEFINE x == [e EXCEPT !.in[i].flags = @ \ {"INPUT_SETUP"}]
             f == InputConsume(x, i, n)
             g == InputPurge(f, i)
  <2>1. Same(a, x)
    BY <1>5 DEF Same, Frame, Fields
  <2> HIDE DEF x
  <2>2. Same(a, f)
    BY <2>1, InputPorts
  <2> HIDE DEF f
  <2>3. Same(a, g)
    BY <2>2, InputPorts
  <2> HIDE DEF g
  <2>4. Same(a, [g EXCEPT !.in[i].flags = Toggle(@, {"ACTIVE", "IDLE"})])
    BY <2>3 DEF Same, Frame, Fields
  <2> QED
    BY <1>5, <2>2, <2>4 DEF MixerConsumed, x, f, g
<1>6. ASSUME NEW o
      PROVE  Same(a, ConsumeTrack!Fold(o, d, Inputs(d)))
  BY <1>5, PortSequences, ConsumeTrack!Folded
<1> QED
  BY <1>3, <1>4, <1>6

\* A round of mixing.
LEMMA MixerRound ==
    ASSUME NEW d, Sound(d, d), NEW o
    PROVE  Sound(d, MixerPreprocess(d)) /\ Sound(d, MixerPostprocess(d, o))
<1>1. Sound(d, MixerPreprocess(d))
  <2> DEFINE x == SetupProbe(d)
             e == IF Has(x, "OUTPUT_SETUP") THEN x
                  ELSE [OutputData(x, MixOut(d)) EXCEPT !.state = @ \cup {"OUTPUT_SETUP"}]
             f == FoldLeft(MixerOfferTrack, e, Inputs(d))
  <2>1. Sound(d, x) /\ x.ni = d.ni
    BY Itself, Probing, SameSound DEF Sound, Frame
  <2> HIDE DEF x
  <2>2. Sound(d, e)
    BY <2>1, SoundSteps, Flags
  <2>3. Inputs(e) = Inputs(d)
    BY <2>2 DEF Inputs, Sound, Frame
  <2> HIDE DEF e
  <2>4. Sound(d, f)
    BY <2>2, <2>3, Itself, MixerFolds, SameSound DEF Sound
  <2> HIDE DEF f
  <2>5. Sound(d, Fail(f, "no data")) /\ Sound(d, Fail(d, "no data")) /\ Sound(d, Fail(x, "no data"))
    BY <2>1, <2>4, SoundSteps
  <2> QED
    BY <2>1, <2>4, <2>5 DEF MixerPreprocess, x, e, f
<1>2. ASSUME NEW e, Sound(d, e) PROVE Sound(d, MixerProduced(e, o))
  BY <1>2, SoundSteps, Flags DEF MixerProduced
<1>3. ASSUME NEW e, Sound(d, e) PROVE Sound(d, MixerCompleted(e))
  BY <1>3, SoundSteps DEF MixerCompleted
<1>4. ASSUME NEW mem PROVE Sound(d, MixPrepareRuntime(d, mem))
  BY SoundSteps DEF MixPrepareRuntime, MixSchedule
<1>5. Sound(d, MixerPostprocess(d, o))
  <2> DEFINE e == FoldLeft(LAMBDA x, i : MixerConsumed(x, i, o.consumed[i]), d, Inputs(d))
             f(x) == ProduceProbe(MixerProduced(e, o), x)
  <2>0. e = ConsumeTrack!Fold(o, d, Inputs(d))
    BY DEF FoldLeft, ConsumeTrack!Fold, ConsumeTrack!FoldLeft, MapThenFoldSet,
           ConsumeTrack!MapThenFoldSet, Max, ConsumeTrack!Max
  <2> HIDE DEF e
  <2>1. Sound(d, e)
    BY <2>0, Itself, MixerFolds, SameSound DEF Sound
  <2>2. Sound(d, MixerProduced(e, o))
    BY <1>2, <2>1
  <2>3. \A x : Sound(d, f(x))
    BY <2>2, Itself, Probing, SameSound DEF Sound
  <2> HIDE DEF f
  <2>4. \A x : Sound(d, MixerCompleted(f(x))) /\ Sound(d, MixSchedule(f(x)))
    BY <1>3, <2>3, SoundSteps DEF MixSchedule
  <2> QED
    BY <1>4, <2>4 DEF MixerPostprocess, e, f
<1> QED
  BY <1>1, <1>5

-----------------------------------------------------------------------------
(* The class with several inputs and outputs *)

\* The flags of an output, and what the plug-in is told, do not concern the task.
LEMMA TrackChanges ==
    ASSUME NEW a, NEW d, Same(a, d)
    PROVE  /\ \A o, fs : Same(a, AddOut(d, o, fs)) /\ Same(a, DropOut(d, o, fs))
           /\ \A p : Same(a, Connect(d, p)) /\ Same(a, Disconnect(d, p))
  BY DEF AddOut, DropOut, Connect, Disconnect, Same, Frame, Fields

\* In the terms of the handlers.
LEMMA TrackSteps ==
    ASSUME NEW a, NEW d, Sound(a, d)
    PROVE  /\ \A o, fs : Sound(a, AddOut(d, o, fs)) /\ Sound(a, DropOut(d, o, fs))
           /\ \A p : Sound(a, Connect(d, p)) /\ Sound(a, Disconnect(d, p))
           /\ \A o, x : Sound(a, RouteTrack(d, o, x))
           /\ Sound(a, MimoRun(d))
<1>1. /\ \A o, fs : Sound(a, AddOut(d, o, fs)) /\ Sound(a, DropOut(d, o, fs))
      /\ \A p : Sound(a, Connect(d, p)) /\ Sound(a, Disconnect(d, p))
  BY Itself, TrackChanges, SameSound DEF Sound
<1>2. \A o, x : Sound(a, RouteTrack(d, o, x))
  BY Itself, TrackChanges, SameSound DEF RouteTrack, Sound
<1>3. Sound(a, MimoRun(d))
  BY SoundSteps DEF MimoRun
<1> QED
  BY <1>1, <1>2, <1>3

\* A buffer for an input may start the component again.
LEMMA MimoBuffers ==
    ASSUME NEW a, NEW d, Sound(a, d), Told(a) => ~Overtaken(d), NEW m
    PROVE  Sound(a, MimoEmpty(d, m))
<1> DEFINE p == TrackReceives(d, m)
           e == IF Has(p, "COMPLETED") THEN Restart(p) ELSE p
           x == [e EXCEPT !.in[m.port].flags = Toggle(@, {"IDLE", "ACTIVE"})]
           f == IF InFlag(e, m.port, "IDLE") THEN Connect(x, m.port) ELSE e
<1>1. Same(d, p)
  BY Itself, Tracks DEF Sound
<1> HIDE DEF p
<1>2. Sound(a, p) /\ Sound(a, e)
  BY <1>1, Restarting
<1> HIDE DEF e
<1>3. Sound(a, x)
  BY <1>2 DEF Sound, Told, Frame, Fields
<1> HIDE DEF x
<1>4. Sound(a, f)
  BY <1>2, <1>3, TrackSteps
<1> HIDE DEF f
<1> QED
  BY <1>2, <1>4, SoundSteps DEF MimoEmpty, p, e, x, f

\* The other commands do not.
LEMMA MimoCommands ==
    ASSUME NEW d, Sound(d, d), NEW m, NEW o
    PROVE  /\ Sound(d, MimoFill(d, m))
           /\ Sound(d, MimoRoute(d, m, o)) /\ Sound(d, MimoUnroute(d, m))
           /\ Sound(d, MimoFlush(d, m))
           /\ Sound(d, MimoPause(d, m)) /\ Sound(d, MimoResume(d, m))
<1>1. Sound(d, MimoFillProbe(d, m))
  BY SoundSteps DEF MimoFillProbe
<1>2. Sound(d, MimoFlushReturned(d, m))
  BY SoundSteps, TrackSteps DEF MimoFlushReturned
<1>3. \A p : Sound(d, MimoSinkLost(d, p))
  BY SoundSteps, TrackSteps DEF MimoSinkLost
<1>4. ASSUME NEW n PROVE Sound(d, MimoFillOutput(d, n))
  <2> DEFINE x == OutputPut(d, n.port, n)
             e == IF OutFlag(x, n.port, "TRACK_IDLE")
                  THEN [x EXCEPT !.out[n.port].flags = Toggle(@, {"TRACK_IDLE", "TRACK_ACTIVE"})]
                  ELSE x
  <2>1. Sound(d, x)
    BY SoundSteps
  <2> HIDE DEF x
  <2>2. Sound(d, e)
    BY <2>1 DEF Sound, Told, Frame, Fields
  <2> HIDE DEF e
  <2> QED
    BY <2>1, <2>2, TrackSteps DEF MimoFillOutput, x, e
<1>5. Sound(d, MimoFill(d, m))
  BY <1>1, <1>2, <1>3, <1>4, SoundSteps DEF MimoFill
<1>6. Sound(d, MimoRoute(d, m, o))
  BY SoundSteps, TrackSteps, PortsOnly DEF MimoRoute
<1>7. Sound(d, MimoUnroute(d, m))
  BY SoundSteps, TrackSteps DEF MimoUnroute
<1>8. Sound(d, MimoFlushInput(d, m))
  <2> DEFINE e == InputPurge(d, m.port)
             f == [e EXCEPT !.in[m.port].flags =
                     (@ \ {"ACTIVE", "PAUSED", "INPUT_SETUP", "RECVD_DATA"}) \cup {"IDLE"}]
  <2>1. Sound(d, e)
    BY SoundSteps
  <2> HIDE DEF e
  <2>2. Sound(d, f)
    BY <2>1 DEF Sound, Told, Frame, Fields
  <2> HIDE DEF f
  <2> QED
    BY <2>2, SoundSteps, TrackSteps DEF MimoFlushInput, e, f
<1>9. \A p : Sound(d, MimoFlushUnrouting(d, p))
  BY SoundSteps, TrackSteps DEF MimoFlushUnrouting
<1>10. Sound(d, MimoFlushOutput(d, m))
  BY SoundSteps, TrackSteps DEF MimoFlushOutput, ControlMsg
<1>11. Sound(d, MimoFlush(d, m))
  BY <1>8, <1>9, <1>10, SoundSteps DEF MimoFlush
<1>12. Sound(d, MimoPause(d, m)) /\ Sound(d, MimoResume(d, m))
  BY SoundSteps, TrackSteps, PortsOnly DEF MimoPause, MimoResume
<1> QED
  BY <1>5, <1>6, <1>7, <1>11, <1>12

\* What is done to each input or output in turn.
LEMMA MimoFolds ==
    ASSUME NEW a, NEW d, Same(a, d)
    PROVE  /\ \A mem : Same(a, StartTrack!Fold(mem, d, Outputs(d)))
           /\ Same(a, SetupTrack!Fold(0, d, Outputs(d)))
           /\ Same(a, OfferInput!Fold(0, [c |-> d, starved |-> 0], Inputs(d)).c)
           /\ \A o : Same(a, ConsumeInput!Fold(o, d, Inputs(d)))
           /\ \A s : Same(a, ProduceOutput!Fold(s, d, Outputs(d)))
           /\ \A op : Same(a, FlushTrack!Fold(op, d, Outputs(d)))
<1>1. ASSUME NEW e, Same(a, e), NEW o, NEW mem PROVE Same(a, MimoStartTrack(e, o, mem))
  <2> DEFINE x == [e EXCEPT !.out[o].queue = Tail(@)]
             f == OutputRouteAlloc(x, o, mem)
             g(y) == RouteTrack(f, o, y)
  <2>1. Same(a, x)
    BY <1>1 DEF Same, Frame, Fields
  <2> HIDE DEF x
  <2>2. Same(a, f)
    BY <2>1, OutputPorts
  <2> HIDE DEF f
  <2>3. \A y : Same(a, g(y))
    BY <2>2, TrackChanges DEF RouteTrack
  <2> HIDE DEF g
  <2> QED
    BY <1>1, <2>3, Responses DEF MimoStartTrack, x, f, g
<1>2. ASSUME NEW e, Same(a, e), NEW o PROVE Same(a, MimoSetupOutput(e, o))
  BY <1>2, OutputPorts, TrackChanges, Scheduling DEF MimoSetupOutput
<1>3. ASSUME NEW acc, DOMAIN acc = {"c", "starved"}, Same(a, acc.c), NEW i
      PROVE  DOMAIN MimoOffer(acc, i) = {"c", "starved"} /\ Same(a, MimoOffer(acc, i).c)
  <2> DEFINE e == acc.c
             f == IF ~Bypass(e.in[i]) /\ Done(e.in[i]) THEN e ELSE InputFill(e, i)
  <2>1. Same(a, f)
    BY <1>3, InputPorts
  <2> HIDE DEF f
  <2>2. \A x, y, z : Same(a, [f EXCEPT !.in[i].flags = x, !.avail[i] = y, !.over[i] = z])
    BY <2>1 DEF Same, Frame, Fields
  <2> QED
    BY <1>3, <2>1, <2>2, Scheduling DEF MimoOffer, f
<1>4. ASSUME NEW e, Same(a, e), NEW i, NEW n, NEW done PROVE Same(a, MimoConsumed(e, i, n, done))
  <2> DEFINE x == IF n > 0 THEN InputConsume(e, i, n) ELSE e
             y == IF n > 0 \/ x.in[i].size # x.in[i].filled
                  THEN [x EXCEPT !.in[i].flags = @ \ {"INPUT_SETUP"}] ELSE x
             z == [y EXCEPT !.in[i].flags = Toggle(@, {"ACTIVE", "IDLE"})]
             f == Disconnect(z, i)
  <2>1. Same(a, x)
    BY <1>4, InputPorts
  <2> HIDE DEF x
  <2>2. Same(a, y)
    BY <2>1 DEF Same, Frame, Fields
  <2> HIDE DEF y
  <2>3. Same(a, z)
    BY <2>2 DEF Same, Frame, Fields
  <2> HIDE DEF z
  <2>4. Same(a, f)
    BY <2>3, TrackChanges
  <2> HIDE DEF f
  <2> QED
    BY <1>4, <2>2, <2>4, InputPorts DEF MimoConsumed, x, y, z, f
<1>5. ASSUME NEW e, Same(a, e), NEW o, NEW s PROVE Same(a, MimoProduced(e, o, s))
  BY <1>5, OutputPorts, TrackChanges DEF MimoProduced
<1>6. ASSUME NEW e, Same(a, e), NEW o, NEW op PROVE Same(a, MimoFlushTrack(e, o, op))
  BY <1>6, OutputPorts, TrackChanges DEF MimoFlushTrack
<1>7. \A mem : Same(a, StartTrack!Fold(mem, d, Outputs(d)))
  BY <1>1, PortSequences, StartTrack!Folded
<1>8. Same(a, SetupTrack!Fold(0, d, Outputs(d)))
  BY <1>2, PortSequences, SetupTrack!Folded
<1>9. Same(a, OfferInput!Fold(0, [c |-> d, starved |-> 0], Inputs(d)).c)
  BY <1>3, PortSequences, OfferInput!Folded
<1>10. \A o : Same(a, ConsumeInput!Fold(o, d, Inputs(d)))
  BY <1>4, PortSequences, ConsumeInput!Folded
<1>11. \A s : Same(a, ProduceOutput!Fold(s, d, Outputs(d)))
  BY <1>5, PortSequences, ProduceOutput!Folded
<1>12. \A op : Same(a, FlushTrack!Fold(op, d, Outputs(d)))
  BY <1>6, PortSequences, FlushTrack!Folded
<1> QED
  BY <1>7, <1>8, <1>9, <1>10, <1>11, <1>12

\* A round of processing.
LEMMA MimoRound ==
    ASSUME NEW d, Sound(d, d), NEW o, NEW running
    PROVE  Sound(d, MimoPreprocess(d)) /\ Sound(d, MimoPostprocess(d, o, running))
<1>1. Sound(d, MimoPreprocess(d))
  <2> DEFINE x == SetupProbe(d)
             f == FoldLeft(MimoSetupOutput, x, Outputs(d))
             g == FoldLeft(MimoOffer, [c |-> f, starved |-> 0], Inputs(d)).c
  <2>1. Same(d, x)
    BY Itself, Probing DEF Sound
  <2>2. Outputs(x) = Outputs(d) /\ Inputs(x) = Inputs(d)
    BY <2>1 DEF Inputs, Outputs, Same, Frame
  <2> HIDE DEF x
  <2>3. f = SetupTrack!Fold(0, x, Outputs(d))
    BY DEF FoldLeft, SetupTrack!Fold, SetupTrack!FoldLeft, MapThenFoldSet,
           SetupTrack!MapThenFoldSet, Max, SetupTrack!Max
  <2> HIDE DEF f
  <2>4. Same(d, f)
    BY <2>1, <2>2, <2>3, MimoFolds
  <2>5. Inputs(f) = Inputs(d)
    BY <2>4 DEF Inputs, Same, Frame
  <2>6. g = OfferInput!Fold(0, [c |-> f, starved |-> 0], Inputs(d)).c
    BY DEF FoldLeft, OfferInput!Fold, OfferInput!FoldLeft, MapThenFoldSet,
           OfferInput!MapThenFoldSet, Max, OfferInput!Max
  <2> HIDE DEF g
  <2>7. Same(d, g)
    BY <2>4, <2>5, <2>6, MimoFolds
  <2>8. Sound(d, x) /\ Sound(d, f) /\ Sound(d, g)
    BY <2>1, <2>4, <2>7, SameSound
  <2> QED
    BY <2>8, SoundSteps DEF MimoPreprocess, x, f, g
<1>2. ASSUME NEW e, Sound(d, e), NEW mem PROVE Sound(d, MimoPrepareRuntime(e, mem))
  <2> DEFINE f == FoldLeft(LAMBDA x, p : MimoStartTrack(x, p, mem), e, Outputs(e))
  <2>1. f = StartTrack!Fold(mem, e, Outputs(e))
    BY DEF FoldLeft, StartTrack!Fold, StartTrack!FoldLeft, MapThenFoldSet,
           StartTrack!MapThenFoldSet, Max, StartTrack!Max
  <2> HIDE DEF f
  <2>2. Sound(d, f)
    BY <1>2, <2>1, Itself, MimoFolds, SameSound DEF Sound
  <2> QED
    BY <1>2, <2>2, SoundSteps DEF MimoPrepareRuntime, f
<1>3. ASSUME NEW e, Sound(d, e) PROVE Sound(d, MimoCompleted(e))
  <2> DEFINE f == FoldLeft(LAMBDA x, p : MimoFlushTrack(x, p, "FILL"), e, Outputs(e))
  <2>1. f = FlushTrack!Fold("FILL", e, Outputs(e))
    BY DEF FoldLeft, FlushTrack!Fold, FlushTrack!FoldLeft, MapThenFoldSet,
           FlushTrack!MapThenFoldSet, Max, FlushTrack!Max
  <2> HIDE DEF f
  <2>2. Sound(d, f)
    BY <1>3, <2>1, Itself, MimoFolds, SameSound DEF Sound
  <2> QED
    BY <2>2, SoundSteps DEF MimoCompleted, f
<1>4. Sound(d, MimoPostprocess(d, o, running))
  <2> DEFINE x == FoldLeft(LAMBDA e, i : MimoConsumed(e, i, o.consumed[i], o.done), d, Inputs(d))
             y == FoldLeft(LAMBDA f, p : MimoProduced(f, p, o.produced), x, Outputs(d))
             g(u) == IF running THEN ProduceProbe(y, u) ELSE y
  <2>1. x = ConsumeInput!Fold(o, d, Inputs(d))
    BY DEF FoldLeft, ConsumeInput!Fold, ConsumeInput!FoldLeft, MapThenFoldSet,
           ConsumeInput!MapThenFoldSet, Max, ConsumeInput!Max
  <2> HIDE DEF x
  <2>2. Same(d, x)
    BY <2>1, Itself, MimoFolds DEF Sound
  <2>3. Outputs(x) = Outputs(d)
    BY <2>2 DEF Outputs, Same, Frame
  <2>4. y = ProduceOutput!Fold(o.produced, x, Outputs(d))
    BY DEF FoldLeft, ProduceOutput!Fold, ProduceOutput!FoldLeft, MapThenFoldSet,
           ProduceOutput!MapThenFoldSet, Max, ProduceOutput!Max
  <2> HIDE DEF y
  <2>5. Same(d, y)
    BY <2>2, <2>3, <2>4, MimoFolds
  <2>6. \A u : Sound(d, g(u))
    BY <2>5, Probing, SameSound
  <2> HIDE DEF g
  <2>7. \A u, v, w : Sound(d, MimoReschedule(g(u), v, w))
    BY <2>6, SoundSteps DEF MimoReschedule
  <2> QED
    BY <1>2, <1>3, <2>6, <2>7 DEF MimoPostprocess, x, y, g
<1> QED
  BY <1>1, <1>4

-----------------------------------------------------------------------------
(* The renderer *)

\* No message starts a renderer again.
LEMMA RendererCommands ==
    ASSUME NEW d, Sound(d, d), NEW m, NEW o
    PROVE  /\ Sound(d, RendererEmpty(d, m)) /\ Sound(d, RendererFill(d, m))
           /\ Sound(d, RendererRoute(d, m, o)) /\ Sound(d, RendererUnroute(d, m))
           /\ Sound(d, RendererFlush(d, m))
<1>1. Sound(d, RendererEmpty(d, m))
  BY SoundSteps DEF RendererEmpty
<1>2. ASSUME NEW e, Sound(d, e) PROVE Sound(d, RendererWake(e))
  <2> DEFINE x == [e EXCEPT !.irq = FALSE]
  <2>1. Sound(d, x)
    BY <1>2 DEF Sound, Told, Frame, Fields
  <2> HIDE DEF x
  <2> QED
    BY <2>1, SoundSteps, Flags DEF RendererWake, x
<1>3. Sound(d, RendererFlushReturned(d, m))
  BY SoundSteps DEF RendererFlushReturned
<1>4. Sound(d, RendererSinkLost(d))
  BY SoundSteps, Flags DEF RendererSinkLost
<1>5. Sound(d, RendererFill(d, m))
  BY <1>2, <1>3, <1>4, SoundSteps, Flags DEF RendererFill
<1>6. Sound(d, RendererRoute(d, m, o)) /\ Sound(d, RendererUnroute(d, m))
  BY SoundSteps, Flags DEF RendererRoute, RendererUnroute
<1>7. Sound(d, RendererFlush(d, m))
  BY SoundSteps, Flags DEF RendererFlush, ControlMsg
<1> QED
  BY <1>1, <1>5, <1>6, <1>7

\* A round of playing, whether or not the device runs after it.
LEMMA RendererRound ==
    ASSUME NEW d, Sound(d, d), NEW o
    PROVE  /\ Sound(d, RendererPreprocess(d))
           /\ \A h : Sound(d, RendererPostprocess([d EXCEPT !.hw = h], o))
<1>1. Sound(d, RendererInput(d))
  <2> DEFINE f == IF ~Bypass(d.in[0]) /\ Done(d.in[0]) THEN d ELSE InputFill(d, 0)
  <2>1. Sound(d, f)
    BY Itself, InputPorts, SameSound DEF Sound
  <2> HIDE DEF f
  <2>2. \A x, y : Sound(d, [f EXCEPT !.avail[0] = x, !.over[0] = y])
    BY <2>1 DEF Sound, Told, Frame, Fields
  <2> QED
    BY <2>1, <2>2, SoundSteps DEF RendererInput, f
<1>2. Sound(d, RendererPreprocess(d))
  BY <1>1, SoundSteps, Flags DEF RendererPreprocess
<1>3. ASSUME NEW h PROVE Sound(d, RendererPostprocess([d EXCEPT !.hw = h], o))
  <2> DEFINE e == [d EXCEPT !.hw = h]
  <2>1. Sound(d, e)
    BY DEF Sound, Told, Frame, Fields
  <2> HIDE DEF e
  <2>2. \A x, n : Sound(d, x) => Sound(d, InputConsume(x, 0, n))
    BY Itself, InputPorts, SameSound DEF Sound
  <2>3. Sound(d, RendererMoved(e, o))
    BY <2>1, <2>2, SoundSteps, Flags DEF RendererMoved
  <2>4. ASSUME NEW x, Sound(d, x) PROVE Sound(d, RendererCompleted(x))
    BY <2>4, SoundSteps, Flags DEF RendererCompleted
  <2>5. ASSUME NEW x, Sound(d, x), NEW mem PROVE Sound(d, RendererStarted(x, mem))
    BY <2>5, SoundSteps, Flags DEF RendererStarted
  <2> QED
    BY <2>3, <2>4, <2>5, SoundSteps DEF RendererPostprocess, e
<1> QED
  BY <1>2, <1>3

-----------------------------------------------------------------------------
(* The capturer *)

\* No message starts a capturer again.
LEMMA CapturerCommands ==
    ASSUME NEW d, Sound(d, d), NEW m, NEW o
    PROVE  /\ Sound(d, CapturerEmpty(d, m)) /\ Sound(d, CapturerFill(d, m))
           /\ Sound(d, CapturerRoute(d, m, o)) /\ Sound(d, CapturerUnroute(d, m))
           /\ Sound(d, CapturerFlush(d, m))
<1>1. Sound(d, CapturerEmpty(d, m))
  <2> DEFINE x == [d EXCEPT !.irq = FALSE]
  <2>1. Sound(d, x)
    BY DEF Sound, Told, Frame, Fields
  <2> HIDE DEF x
  <2> QED
    BY <2>1, SoundSteps DEF CapturerEmpty, x
<1>2. Sound(d, CapturerFlushReturned(d, m))
  BY SoundSteps DEF CapturerFlushReturned
<1>3. Sound(d, CapturerFill(d, m))
  BY <1>2, SoundSteps DEF CapturerFill
<1>4. Sound(d, CapturerRoute(d, m, o)) /\ Sound(d, CapturerUnroute(d, m))
  BY SoundSteps DEF CapturerRoute, CapturerUnroute
<1>5. Sound(d, CapturerFlush(d, m))
  BY SoundSteps DEF CapturerFlush, ControlMsg
<1> QED
  BY <1>1, <1>3, <1>4, <1>5

\* A round of capturing, whether or not the device runs after it.
LEMMA CapturerRound ==
    ASSUME NEW d, Sound(d, d), NEW o
    PROVE  /\ Sound(d, CapturerPreprocess(d))
           /\ \A h : Sound(d, CapturerPostprocess([d EXCEPT !.hw = h], o))
<1>1. Sound(d, CapturerPreprocess(d))
  BY SoundSteps DEF CapturerPreprocess
<1>2. ASSUME NEW h PROVE Sound(d, CapturerPostprocess([d EXCEPT !.hw = h], o))
  <2> DEFINE e == [d EXCEPT !.hw = h]
  <2>1. Sound(d, e)
    BY DEF Sound, Told, Frame, Fields
  <2> HIDE DEF e
  <2> QED
    BY <2>1, SoundSteps DEF CapturerPostprocess, e
<1> QED
  BY <1>1, <1>2

-----------------------------------------------------------------------------
(* The end of a component *)

\* d is a, at most with other ports, and is ending
Leaves(a, d) ==
    /\ Fields \subseteq DOMAIN d
    /\ d.class = a.class /\ d.ni = a.ni /\ d.no = a.no /\ d.ni \in Nat /\ d.no \in Nat
    /\ d.state = a.state /\ d.task = a.task /\ d.entry \in {"terminate", "gone"}

\* Messages that arrive in the meantime do not concern the task.
LEMMA Terminating ==
    ASSUME NEW d, Frame(d, d), NEW m
    PROVE  /\ Same(d, CodecTerminate(d, m)) /\ Same(d, MixerTerminate(d, m))
           /\ Same(d, MimoTerminate(d, m)) /\ Same(d, RendererTerminate(d, m))
           /\ Same(d, CapturerTerminate(d, m))
<1>1. Same(d, d)
  BY Itself
<1>2. \A o : Same(d, Fail(OutputFlushDone(d, o), "unregister"))
  BY <1>1, OutputPorts, Scheduling
<1>3. /\ Same(d, ResponseErr(d, m)) /\ Same(d, ResponseFailure(d, m))
      /\ Same(d, Fail(d, "unregister"))
  BY <1>1, Responses, Scheduling
<1>4. /\ Same(d, CodecTerminate(d, m)) /\ Same(d, MixerTerminate(d, m))
      /\ Same(d, RendererTerminate(d, m)) /\ Same(d, CapturerTerminate(d, m))
  BY <1>1, <1>2, <1>3 DEF CodecTerminate, MixerTerminate, RendererTerminate, CapturerTerminate,
                          ControlMsg
<1>5. Same(d, MimoTerminate(d, m))
  BY <1>1, <1>3, OutputPorts, TrackChanges, Scheduling DEF MimoTerminate, ControlMsg
<1> QED
  BY <1>4, <1>5

\* The last responses, and the ports are closed.
LEMMA Destroying ==
    ASSUME NEW a, NEW d, Same(a, d)
    PROVE  /\ Leaves(a, CodecDestroy(d)) /\ Leaves(a, MixerDestroy(d)) /\ Leaves(a, MimoDestroy(d))
           /\ Leaves(a, RendererDestroy(d)) /\ Leaves(a, CapturerDestroy(d))
<1> DEFINE Answer(e, old) == IF old.saved.op # "none" THEN ResponseErr(e, old.saved) ELSE e
           Gone(e) == [e EXCEPT !.entry = "gone", !.saved = NoMsg]
<1>1. ASSUME NEW e, Same(a, e) PROVE Leaves(a, Gone(e))
  BY <1>1 DEF Same, Frame, Fields, Leaves
<1>2. ASSUME NEW e, Same(a, e) PROVE Same(a, Answer(e, d))
  BY <1>2, Responses
<1> HIDE DEF Gone, Answer
<1>3. Leaves(a, CodecDestroy(d))
  <2> DEFINE x == OutputDestroy(InputDestroy(d, 0), 1)
             e == IF d.probe THEN OutputDestroy(x, 2) ELSE x
  <2>1. Same(a, e)
    BY InputPorts, OutputPorts
  <2> HIDE DEF e
  <2> QED
    BY <1>1, <1>2, <2>1 DEF CodecDestroy, e, Answer, Gone
<1>4. Leaves(a, RendererDestroy(d)) /\ Leaves(a, CapturerDestroy(d))
  BY <1>1, <1>2, InputPorts, OutputPorts DEF RendererDestroy, CapturerDestroy, Answer, Gone
<1> DEFINE x == FoldLeft(InputDestroy, d, Inputs(d))
<1>5. x = CloseInput!Fold(0, d, Inputs(d))
  BY DEF FoldLeft, CloseInput!Fold, CloseInput!FoldLeft, MapThenFoldSet,
         CloseInput!MapThenFoldSet, Max, CloseInput!Max
<1> HIDE DEF x
<1>6. Same(a, x)
  <2>1. \A e, i : Same(a, e) => Same(a, InputDestroy(e, i))
    BY InputPorts
  <2> QED
    BY <1>5, <2>1, PortSequences, CloseInput!Folded
<1>7. Leaves(a, MixerDestroy(d))
  <2> DEFINE y == OutputDestroy(x, MixOut(d))
             e == IF d.probe THEN OutputDestroy(y, ProbePort(d)) ELSE y
  <2>1. Same(a, e)
    BY <1>6, OutputPorts
  <2> HIDE DEF e
  <2> QED
    BY <1>1, <1>2, <2>1 DEF MixerDestroy, x, e, Answer, Gone
<1>8. Leaves(a, MimoDestroy(d))
  <2> DEFINE y == FoldLeft(OutputDestroy, x, Outputs(d))
             e == IF d.probe THEN OutputDestroy(y, ProbePort(d)) ELSE y
  <2>1. y = CloseOutput!Fold(0, x, Outputs(d))
    BY DEF FoldLeft, CloseOutput!Fold, CloseOutput!FoldLeft, MapThenFoldSet,
           CloseOutput!MapThenFoldSet, Max, CloseOutput!Max
  <2> HIDE DEF y
  <2>2. Same(a, y)
    <3>1. \A f, o : Same(a, f) => Same(a, OutputDestroy(f, o))
      BY OutputPorts
    <3> QED
      BY <1>6, <2>1, <3>1, PortSequences, CloseOutput!Folded
  <2>3. Same(a, e)
    BY <2>2, OutputPorts
  <2> HIDE DEF e
  <2> QED
    BY <1>1, <1>2, <2>3 DEF MimoDestroy, x, y, e, Answer, Gone
<1> QED
  BY <1>3, <1>4, <1>7, <1>8

\* A cleanup takes the task out of the tree, and then leaves it alone.
LEMMA CleaningUp ==
    ASSUME NEW d, Frame(d, d), NEW m
    PROVE  /\ Leaves(Cancel(d), CodecCleanup(d, m)) /\ Leaves(Cancel(d), MixerCleanup(d, m))
           /\ Leaves(Cancel(d), MimoCleanup(d, m)) /\ Leaves(Cancel(d), RendererCleanup(d, m))
           /\ Leaves(Cancel(d), CapturerCleanup(d, m))
<1> DEFINE a == Cancel(d)
           Wait(e) == [e EXCEPT !.entry = "terminate"]
           Saved(e) == [e EXCEPT !.saved = m]
<1>1. Same(a, a) /\ Inputs(a) = Inputs(d) /\ Outputs(a) = Outputs(d) /\ MixOut(a) = MixOut(d)
  BY DEF Cancel, Same, Frame, Fields, Inputs, Outputs, MixOut
<1> HIDE DEF a
<1>2. ASSUME NEW e, Same(a, e) PROVE Leaves(a, Wait(e)) /\ Same(a, Saved(e))
  BY <1>2 DEF Same, Frame, Fields, Leaves
<1> HIDE DEF Wait, Saved
<1>3. Leaves(a, CodecCleanup(d, m))
  <2> DEFINE e == FlushProbe(Saved(InputPurge(a, 0)))
             f == OutputFlush(e, 1, "FLUSH")
  <2>1. Same(a, f)
    BY <1>1, <1>2, InputPorts, OutputPorts, Probing
  <2> HIDE DEF f
  <2> QED
    BY <1>2, <2>1, Destroying DEF CodecCleanup, a, e, f, Wait, Saved
<1>4. Leaves(a, MixerCleanup(d, m))
  <2> DEFINE e == Saved(FlushProbe(PurgeTracks(a)))
             f == OutputFlush(e, MixOut(d), "FLUSH")
  <2>1. Same(a, f)
    BY <1>1, <1>2, OutputPorts, Probing, Tracks
  <2> HIDE DEF f
  <2> QED
    BY <1>2, <2>1, Destroying DEF MixerCleanup, a, e, f, Wait, Saved
<1>5. Leaves(a, MimoCleanup(d, m))
  <2> DEFINE x == PurgeTracks(a)
             y == FoldLeft(LAMBDA f, o : MimoFlushTrack(f, o, "FLUSH"), x, Outputs(d))
             g == Saved(y)
  <2>1. Same(a, x)
    BY <1>1, Tracks
  <2>2. Outputs(x) = Outputs(d)
    BY <1>1, <2>1 DEF Outputs, Same, Frame
  <2> HIDE DEF x
  <2>3. y = FlushTrack!Fold("FLUSH", x, Outputs(d))
    BY DEF FoldLeft, FlushTrack!Fold, FlushTrack!FoldLeft, MapThenFoldSet,
           FlushTrack!MapThenFoldSet, Max, FlushTrack!Max
  <2> HIDE DEF y
  <2>4. Same(a, y)
    BY <2>1, <2>2, <2>3, MimoFolds
  <2>5. Same(a, g) /\ Same(a, FlushProbe(g))
    BY <1>2, <2>4, Probing
  <2> HIDE DEF g
  <2> QED
    BY <1>2, <2>5, Destroying DEF MimoCleanup, a, x, y, g, Wait, Saved
<1>6. Leaves(a, RendererCleanup(d, m))
  <2> DEFINE e == InputPurge(a, 0)
             f == [e EXCEPT !.hw = FALSE, !.saved = m, !.irq = FALSE]
  <2>1. Same(a, e)
    BY <1>1, InputPorts
  <2> HIDE DEF e
  <2>2. Same(a, f)
    BY <2>1 DEF Same, Frame, Fields
  <2> HIDE DEF f
  <2> QED
    BY <1>2, <2>2, Destroying DEF RendererCleanup, a, e, f, Wait
<1>7. Leaves(a, CapturerCleanup(d, m))
  <2> DEFINE e == [a EXCEPT !.hw = FALSE, !.saved = m]
             f == OutputFlush(e, 0, "FLUSH")
  <2>1. Same(a, e)
    BY <1>1 DEF Same, Frame, Fields
  <2> HIDE DEF e
  <2>2. Same(a, f)
    BY <2>1, OutputPorts
  <2> HIDE DEF f
  <2> QED
    BY <1>2, <2>2, Destroying DEF CapturerCleanup, a, e, f, Wait
<1> QED
  BY <1>3, <1>4, <1>5, <1>6, <1>7 DEF a

-----------------------------------------------------------------------------
(* The entries of a component, whatever its class *)

Classes == {"codec", "mixer", "mimo", "renderer", "capturer"}

\* A command keeps the flag true, but for the start of a scheduled component
\* after its end.
LEMMA Commands ==
    ASSUME NEW d, Frame(d, d), d.class \in Classes, NEW m, NEW o
    PROVE  /\ Frame(d, Command(d, m, o))
           /\ (Overtaken(d) /\ StartsAgain(d, m)) \/ Sound(d, Command(d, m, o))
<1>1. Sound(d, d)
  BY DEF Sound
<1>2. ASSUME m.op \in {"EMPTY", "FILL"} PROVE Frame(d, Command(d, m, o))
  <2> DEFINE a == [d EXCEPT !.task = 2]
  <2>1. Sound(a, d) /\ ~Told(a) /\ \A e : Frame(a, e) <=> Frame(d, e)
    BY DEF Sound, Told, Frame, Fields
  <2> HIDE DEF a
  <2>2. /\ Sound(a, CodecEmptyThisBuffer(d, m)) /\ Sound(a, CodecFillThisBuffer(d, m))
        /\ Sound(a, MixerEmpty(d, m)) /\ Sound(a, MimoEmpty(d, m))
    BY <2>1, CodecBuffers, MixerBuffers, MimoBuffers
  <2>3. /\ Sound(d, MixerFill(d, m)) /\ Sound(d, MimoFill(d, m))
        /\ Sound(d, RendererEmpty(d, m)) /\ Sound(d, RendererFill(d, m))
        /\ Sound(d, CapturerEmpty(d, m)) /\ Sound(d, CapturerFill(d, m))
    BY <1>1, MixerCommands, MimoCommands, RendererCommands, CapturerCommands
  <2>4. Frame(d, EmptyThisBuffer(d, m)) /\ Frame(d, FillThisBuffer(d, m))
    BY <2>1, <2>2, <2>3 DEF EmptyThisBuffer, FillThisBuffer, Classes, Sound
  <2> QED
    BY <1>2, <2>4 DEF Command
<1>3. ASSUME m.op = "EMPTY" PROVE (Overtaken(d) /\ StartsAgain(d, m)) \/ Sound(d, Command(d, m, o))
  <2>1. ~Overtaken(d) => /\ Sound(d, CodecEmptyThisBuffer(d, m))
                         /\ Sound(d, MixerEmpty(d, m)) /\ Sound(d, MimoEmpty(d, m))
    BY <1>1, CodecBuffers, MixerBuffers, MimoBuffers
  <2>2. Sound(d, RendererEmpty(d, m)) /\ Sound(d, CapturerEmpty(d, m))
    BY <1>1, RendererCommands, CapturerCommands
  <2> QED
    BY <1>3, <2>1, <2>2 DEF Command, EmptyThisBuffer, Classes, StartsAgain
<1>4. ASSUME m.op = "FILL" PROVE (Overtaken(d) /\ StartsAgain(d, m)) \/ Sound(d, Command(d, m, o))
  <2>1. ~Overtaken(d) => Sound(d, CodecFillThisBuffer(d, m))
    BY <1>1, CodecBuffers
  <2>2. /\ Sound(d, MixerFill(d, m)) /\ Sound(d, MimoFill(d, m))
        /\ Sound(d, RendererFill(d, m)) /\ Sound(d, CapturerFill(d, m))
    BY <1>1, MixerCommands, MimoCommands, RendererCommands, CapturerCommands
  <2> QED
    BY <1>4, <2>1, <2>2 DEF Command, FillThisBuffer, Classes, StartsAgain
<1>5. ASSUME m.op \notin {"EMPTY", "FILL"} PROVE Sound(d, Command(d, m, o))
  <2>1. Sound(d, SetParam(d, m, o.memory))
    BY <1>1, Itself, Initialising, KeptSound
  <2>2. Sound(d, Flush(d, m)) /\ Sound(d, PortRoute(d, m, o)) /\ Sound(d, PortUnroute(d, m))
    BY <1>1, CodecCommands, MixerCommands, MimoCommands, RendererCommands, CapturerCommands
       DEF Flush, PortRoute, PortUnroute, Classes
  <2>3. Sound(d, Pause(d, m)) /\ Sound(d, Resume(d, m))
    BY <1>1, CodecCommands, MixerCommands, MimoCommands, SoundSteps DEF Pause, Resume
  <2>4. Sound(d, Unregister(d)) /\ Sound(d, Fail(d, "error"))
    BY <1>1, SoundSteps DEF Unregister
  <2> QED
    BY <1>5, <2>1, <2>2, <2>3, <2>4 DEF Command
<1> QED
  BY <1>2, <1>3, <1>4, <1>5 DEF Sound

\* A round of processing keeps it true.
LEMMA Rounds ==
    ASSUME NEW d, Frame(d, d), d.class \in Classes
    PROVE  Sound(d, Preprocess(d)) /\ \A o : Sound(d, BaseProcess(d, o))
<1>1. Sound(d, Preprocess(d))
  <2>1. Sound(d, d)
    BY DEF Sound
  <2> QED
    BY <2>1, CodecRound, MixerRound, MimoRound, RendererRound, CapturerRound DEF Preprocess, Classes
<1>2. ASSUME NEW o PROVE Sound(d, BaseProcess(d, o))
  <2> DEFINE e == Advance(d, o.done)
  <2>1. Kept(d, e)
    BY Itself, Initialising
  <2> HIDE DEF e
  <2>2. Sound(d, e) /\ Sound(e, e) /\ e.class \in Classes
    BY <2>1 DEF Sound, Told, Kept, Frame
  <2>3. \A r : Sound(e, Postprocess(e, o, r))
    BY <2>2, CodecRound, MixerRound, MimoRound, RendererRound, CapturerRound
       DEF Postprocess, Classes
  <2> QED
    BY <2>2, <2>3 DEF BaseProcess, e, Sound, Frame
<1> QED
  BY <1>1, <1>2

\* the flag and the tree agree as FlagMatchesTree says
Matches(d) == Told(d) /\ (d.entry # "command" => d.task = 0)

\* d may follow a
After(a, d) ==
    /\ Fields \subseteq DOMAIN d
    /\ d.class = a.class /\ d.ni = a.ni /\ d.no = a.no /\ d.ni \in Nat /\ d.no \in Nat
    /\ d.entry \in {"command", "terminate", "gone"}
    /\ Matches(a) => Matches(d)

\* What is done with the result of a handler: a failure is answered, and the
\* component may end, with its task out of the tree.
LEMMA Receiving ==
    ASSUME NEW a, NEW r, Frame(a, r), a.class \in Classes, a.entry \in {"command", "terminate"},
           Matches(a) => Matches(r), NEW m
    PROVE  After(a, Received(r, m))
<1> DEFINE d == IF r.ret = "error" THEN AnswerFailed(r, m) ELSE r
<1>1. Same(r, d)
  BY Itself, Responses DEF AnswerFailed
<1> HIDE DEF d
<1>2. /\ Frame(d, d) /\ d.class \in Classes /\ d.entry = a.entry
      /\ d.class = a.class /\ d.ni = a.ni /\ d.no = a.no
      /\ Matches(a) => Matches(d)
  BY <1>1 DEF Same, Frame, Matches, Told
<1>3. After(a, d)
  BY <1>2 DEF After, Frame
<1>4. ASSUME d.entry = "terminate", NEW n PROVE After(a, Exit(d, n))
  <2>1. Leaves(d, Destroy(d))
    BY <1>2, Itself, Destroying DEF Destroy, Classes
  <2>2. After(a, Destroy(d))
    BY <1>2, <1>4, <2>1 DEF Leaves, After, Matches, Told
  <2> QED
    BY <1>4, <2>2 DEF Exit
<1>5. ASSUME d.entry = "command", NEW n PROVE After(a, Exit(d, n))
  <2>1. Leaves(Cancel(d), Cleanup(d, n))
    BY <1>2, CleaningUp DEF Cleanup, Classes
  <2>2. /\ Frame(d, Cancel(d)) /\ "SCHEDULE" \notin Cancel(d).state
        /\ Told(d) => Cancel(d).task = 0
    BY <1>2 DEF Cancel, Has, Told, Frame, Fields
  <2>3. After(a, Cleanup(d, n))
    BY <1>2, <2>1, <2>2 DEF Leaves, After, Matches, Told, Frame
  <2> QED
    BY <1>5, <2>3 DEF Exit
<1> QED
  BY <1>2, <1>3, <1>4, <1>5 DEF Received, d

-----------------------------------------------------------------------------
(* The steps *)

\* the component has its fields
Shape == Frame(c, c) /\ c.class \in Classes /\ c.entry \in {"command", "terminate", "gone"}

\* What has been completed is sent on; the component is as it was.
LEMMA Committing ==
    ASSUME NEW a, NEW r, After(a, r), Commit(r)
    PROVE  After(a, c')
<1> DEFINE e(x, y) == Expect(Expect(r, x, "answered twice"), y, "answer to an interrupt")
           f(x, y) == [e(x, y) EXCEPT !.sent = <<>>, !.ret = "ok"]
<1>1. \A x, y : After(a, f(x, y))
  BY DEF Expect, After, Matches, Told, Fields
<1>2. \E x, y : c' = f(x, y)
  BY DEF Commit
<1> HIDE DEF f
<1> QED
  BY <1>1, <1>2

\* A component as its factory makes it.
LEMMA Starting == ASSUME KindsAssumption, Init PROVE Shape /\ Matches(c)
<1>1. PICK k \in Kinds : c = Component(k)
  BY DEF Init
<1>2. k.class \in Classes /\ k.ni \in Nat /\ k.no \in Nat
  BY DEF KindsAssumption, Classes
<1>3. /\ Fields \subseteq DOMAIN c
      /\ c.class = k.class /\ c.ni = k.ni /\ c.no = k.no
      /\ c.entry = "command" /\ c.state = {} /\ c.task = 0
  BY <1>1 DEF Component, Fields
<1> QED
  BY <1>2, <1>3 DEF Shape, Frame, Matches, Told

\* A handled command.
LEMMA Commanding ==
    ASSUME Shape, DoCommand
    PROVE  \/ After(c, c')
           \/ After([c EXCEPT !.task = 2], c') /\ Overtaken(c) /\ StartsAgain(c, M)
<1>1. PICK o : Commit(Received(Command(c, M, o), M))
  BY DEF DoCommand
<1> DEFINE a == [c EXCEPT !.task = 2]
           r == Command(c, M, o)
<1>2. a.class = c.class /\ a.entry = c.entry /\ ~Matches(a) /\ c.entry = "command"
  BY DEF Shape, Frame, Fields, Matches, Told, DoCommand
<1>3. Frame(c, r) /\ Frame(a, r) /\ ((Overtaken(c) /\ StartsAgain(c, M)) \/ Sound(c, r))
  BY Commands DEF Shape, Frame, Fields
<1>4. After(a, Received(r, M))
  BY <1>2, <1>3, Receiving DEF Shape
<1>5. Sound(c, r) => After(c, Received(r, M))
  BY <1>2, <1>3, Receiving DEF Shape, Sound, Matches, Frame
<1> HIDE DEF r
<1>6. After(a, c') /\ (Sound(c, r) => After(c, c'))
  BY <1>1, <1>4, <1>5, Committing DEF r
<1> QED
  BY <1>3, <1>6

\* A message while the component ends.
LEMMA Finishing == ASSUME Shape, DoTerminate PROVE After(c, c')
<1> DEFINE r == Terminate(c, M)
<1>1. Commit(Received(r, M)) /\ c.entry = "terminate"
  BY DEF DoTerminate
<1>2. Same(c, r)
  BY Terminating DEF Terminate, Shape, Classes
<1> HIDE DEF r
<1>3. After(c, Received(r, M))
  BY <1>1, <1>2, Receiving DEF Shape, Same, Matches, Told, Frame
<1> QED
  BY <1>1, <1>3, Committing

\* A round of processing.
LEMMA Processing == ASSUME Shape, Process PROVE After(c, c')
<1> DEFINE x == Take(c)
           p == Preprocess(x)
           b(o) == BaseProcess(p, o)
<1>1. c.entry = "command" /\ c.task > 0
  BY DEF Process
<1>2. Frame(c, x) /\ Frame(x, x) /\ x.class \in Classes /\ (Matches(c) => Told(x))
  BY <1>1 DEF Take, Matches, Told, Shape, Frame, Fields
<1>3. Commit(p) \/ \E o : Commit(b(o))
  BY DEF Process
<1> HIDE DEF x
<1>4. Sound(x, p)
  BY <1>2, Rounds
<1> HIDE DEF p
<1>5. Frame(p, p) /\ p.class \in Classes
  BY <1>2, <1>4 DEF Sound, Frame
<1>6. \A o : Sound(p, b(o))
  BY <1>5, Rounds
<1> HIDE DEF b
<1>7. After(c, p) /\ \A o : After(c, b(o))
  BY <1>1, <1>2, <1>4, <1>6 DEF After, Sound, Matches, Frame
<1> QED
  BY <1>3, <1>7, Committing

\* A step leads to a component that may follow, or starts one again.
LEMMA Stepping ==
    ASSUME Shape, [Next]_vars
    PROVE  /\ Shape' /\ c'.class = c.class
           /\ \/ Matches(c) => Matches(c')
              \/ inbox # <<>> /\ Overtaken(c) /\ StartsAgain(c, M)
<1>1. ASSUME NEW a, a = c \/ a = [c EXCEPT !.task = 2], After(a, c')
      PROVE  Shape' /\ c'.class = c.class
  BY <1>1 DEF After, Shape, Frame, Fields
<1>2. After(c, c) /\ After(c, [c EXCEPT !.irq = TRUE])
      /\ \A s : After(c, [c EXCEPT !.sent = s])
  BY DEF After, Matches, Told, Shape, Frame, Fields
<1>3. CASE DoCommand
  <2>1. inbox # <<>>
    BY <1>3 DEF DoCommand
  <2> QED
    BY <1>1, <1>3, <2>1, Commanding DEF After
<1>4. CASE DoTerminate
  BY <1>1, <1>4, Finishing DEF After
<1>5. CASE DoDispatchFailure
  <2>1. After(c, c')
    BY <1>2, <1>5, Committing DEF DoDispatchFailure
  <2> QED
    BY <1>1, <2>1 DEF After
<1>6. CASE Process
  BY <1>1, <1>6, Processing DEF After
<1>7. CASE Interrupt
  <2>1. After(c, c')
    BY <1>2, <1>7 DEF Interrupt
  <2> QED
    BY <1>1, <2>1 DEF After
<1>8. CASE UNCHANGED c
  BY <1>1, <1>2, <1>8 DEF After
<1>9. DoCommand \/ DoTerminate \/ DoDispatchFailure \/ Process \/ Interrupt \/ UNCHANGED c
  BY DEF Next, vars, Handle, AppSetParam, AppStart, AppInput, AppInputOver, AppOutput, AppProbe,
         AppRoute, AppUnroute, AppPause, AppResume, AppUnregister, Send,
         FeedData, FeedOver, FeedFlush, Feed, FeedGone, SinkAnswer, SinkGone
<1> QED
  BY <1>3, <1>4, <1>5, <1>6, <1>7, <1>8, <1>9

-----------------------------------------------------------------------------
(* The theorems *)

\* A component keeps its fields and its class.
THEOREM ShapeKept == Spec => []Shape
<1> USE KindsAssumption
<1>1. Init => Shape
  BY Starting
<1>2. Shape /\ [Next]_vars => Shape'
  BY Stepping
<1> QED
  BY <1>1, <1>2, PTL DEF Spec

\* The flag that tells whether a component's task is in the scheduler's tree
\* (XA_BASE_FLAG_SCHEDULE of xa-class-base.c) is lost in one way only: the
\* component is scheduled after the end of its stream, and the message it
\* handles starts it again. This holds for every class, for any number of
\* ports, buffers and tracks, and for all that the surroundings may do.
THEOREM OneWayToLoseTheFlag == Spec => LostByRestart
<1>1. FlagMatchesTree <=> Matches(c)
  BY DEF FlagMatchesTree, Matches, Told, Has
<1>2. FlagMatchesTree' <=> Matches(c')
  BY DEF FlagMatchesTree, Matches, Told, Has
<1>3. Shape /\ [Next]_vars =>
        [FlagMatchesTree /\ ~FlagMatchesTree' =>
            inbox # <<>> /\ Overtaken(c) /\ StartsAgain(c, M)]_vars
  BY <1>1, <1>2, Stepping
<1> QED
  BY <1>3, ShapeKept, PTL DEF Spec, LostByRestart

\* A renderer or a capturer never loses it.
THEOREM DevicesKeepTheFlag ==
    ASSUME \A k \in Kinds : k.class \in {"renderer", "capturer"}
    PROVE  Spec => []FlagMatchesTree
<1> DEFINE Device == c.class \in {"renderer", "capturer"}
<1> USE KindsAssumption
<1>1. FlagMatchesTree <=> Matches(c)
  BY DEF FlagMatchesTree, Matches, Told, Has
<1>2. FlagMatchesTree' <=> Matches(c')
  BY DEF FlagMatchesTree, Matches, Told, Has
<1>3. Init => Device /\ FlagMatchesTree
  <2>1. ASSUME Init PROVE Device
    <3>1. PICK k \in Kinds : c = Component(k)
      BY <2>1 DEF Init
    <3> QED
      BY <3>1 DEF Component
  <2> QED
    BY <1>1, <2>1, Starting
<1>4. Shape /\ Device /\ FlagMatchesTree /\ [Next]_vars => Device' /\ FlagMatchesTree'
  BY <1>1, <1>2, Stepping DEF StartsAgain
<1> QED
  BY <1>3, <1>4, ShapeKept, PTL DEF Spec
=============================================================================
