---------------------------- MODULE CommandService ----------------------------
(***************************************************************************)
(* What the hosted path promises an application that reads all its answers *)
(* before it closes the device: the commands of a session are started in   *)
(* the order in which they were written, each exactly once; they complete  *)
(* in any order; and each answer is delivered exactly once, in the order   *)
(* of completion, to the session that wrote the command.                   *)
(***************************************************************************)
EXTENDS Naturals, Sequences

CONSTANTS MaxSessions, MaxCommands

VARIABLES session,      \* the opening of the device in use
          written,      \* how many commands it has written
          queue,        \* those not yet started
          executing,    \* those started and not completed
          answers       \* the completed ones whose answer has not been read

vars == <<session, written, queue, executing, answers>>

Init == session = 0 /\ written = 0 /\ queue = <<>> /\ executing = {} /\ answers = <<>>

Begin ==
    /\ queue = <<>> /\ executing = {} /\ answers = <<>>
    /\ session < MaxSessions
    /\ session' = session + 1 /\ written' = 0
    /\ UNCHANGED <<queue, executing, answers>>

Submit ==
    /\ session > 0 /\ written < MaxCommands
    /\ written' = written + 1
    /\ queue' = Append(queue, <<session, written + 1>>)
    /\ UNCHANGED <<session, executing, answers>>

Start ==
    /\ queue # <<>>
    /\ executing' = executing \cup {Head(queue)} /\ queue' = Tail(queue)
    /\ UNCHANGED <<session, written, answers>>

Complete ==
    /\ \E m \in executing : executing' = executing \ {m} /\ answers' = Append(answers, m)
    /\ UNCHANGED <<session, written, queue>>

Deliver ==
    /\ answers # <<>>
    /\ answers' = Tail(answers)
    /\ UNCHANGED <<session, written, queue, executing>>

Next == Begin \/ Submit \/ Start \/ Complete \/ Deliver

Spec == Init /\ [][Next]_vars
=============================================================================
