------------------------------- MODULE MCHostProxy -------------------------------
(* What the threads of the application call in the runs of HostProxy. *)
EXTENDS HostProxy, TLC

CONSTANTS t1, t2

Two(a, b, nbuffers, nclients, faults) ==
    [calls |-> (t1 :> a) @@ (t2 :> b), buffers |-> nbuffers, clients |-> nclients, faults |-> faults]

Life     == <<"open", "config", "close">>
Streams  == <<"open", "command", "command", "answer", "answer", "close">>
Unroutes == <<"open", "unroute", "route">>
Pools    == <<"alloc", "free">>

\* one client for two components; one buffer for two threads
Scarce == {Two(<<"open", "close">>, <<"open", "pause", "close">>, 2, 2, f) : f \in SUBSET {"slow", "refuse"}}
    \cup {Two(<<"open", "route", "close">>, Pools, 1, 3, f) : f \in SUBSET {"send", "refuse"}}

\* what may go wrong on its own, and together
Lives == {Two(Life, Unroutes, 3, 3, {f}) : f \in Faults}
    \cup {Two(Streams, <<"stats">>, 2, 3, {}), Two(<<"stats", "alloc">>, <<"alloc">>, 2, 2, {"refuse"}),
           Two(Streams, Pools, 2, 3, {"preempt", "torn"})}

\* a component that cannot be opened, and the buffers it takes along
Keeps == {Two(<<"open", "open", "pause", "close">>, Pools, 2, 2, {"pipe", "refuse"})}

\* a response that comes after its component is gone
Late == {Two(<<"open", "command", "pause", "close">>, <<>>, 1, 2, {"slow"})}

MCSetups == Scarce \cup Lives \cup Keeps \cup Late

\* commands in sequence, and a receiving thread that may be held up
Preempted == {Two(<<"alloc", "alloc", "alloc">>, <<>>, 1, 2, {"preempt"})}
Torn      == {Two(Streams, <<>>, 1, 2, {"torn"})}
=============================================================================
