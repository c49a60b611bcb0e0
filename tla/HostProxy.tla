-------------------------------- MODULE HostProxy --------------------------------
(***************************************************************************)
(* The application's proxy: its threads call the DSP as if it were a       *)
(* library, and one receiving thread distributes what comes back.          *)
(*                                                                         *)
(* A call takes an auxiliary buffer, the proxy's lock, sends a message and *)
(* waits for a response: one wait queue serves all calls under the lock,   *)
(* another the disconnections, which have a lock of their own, and one     *)
(* each component the responses to messages sent without waiting. A wait   *)
(* queue is a pipe, a counter of what is in it, and a condition variable   *)
(* that limits the time of the wait (the build for a hosted AP on Linux).  *)
(*                                                                         *)
(* The kernel driver and the DSP are taken for what the calls rely on:     *)
(* they answer each message once, and the last of a component is the one   *)
(* that deletes it.                                                        *)
(***************************************************************************)
EXTENDS Integers, Sequences

CONSTANTS Threads,   \* the application's threads, each with a component of its own
          Nobody,    \* no thread
          Setups     \* what the application does and meets, see Init

Faults == {"slow", "send", "refuse", "preempt", "torn", "pipe"}
Calls  == {"open", "close", "route", "unroute", "config", "pause", "alloc", "free", "stats",
           "command", "answer"}

ASSUME ProxyAssumption ==
    /\ Nobody \notin Threads /\ Threads \cap {"sync", "delayed"} = {}
    /\ \A s \in Setups :
        /\ s.calls \in [Threads -> Seq(Calls)]
        /\ s.buffers \in Nat \ {0} /\ s.clients \in Nat \ {0, 1}
        /\ s.faults \subseteq Faults

VARIABLES setup,     \* the element of Setups
          lock,      \* who holds the proxy's lock and that of the disconnections
          aux,       \* free auxiliary buffers, a list
          cmap,      \* client association map: a component's owner or the next free client
          handle,    \* component handles
          call,      \* the threads: where they are in which call
          queue,     \* wait queues
          recv,      \* the receiving thread
          dsp,       \* messages sent and not answered
          wire,      \* responses not received, in order
          past       \* what has happened: a wait that timed out, statistics refused,
                     \* a wait queue not made

vars == <<setup, lock, aux, cmap, handle, call, queue, recv, dsp, wire, past>>

Locks    == {"proxy", "delayed"}
Shared   == {"sync", "delayed"}           \* the wait queues that are not a component's
Queues   == Shared \cup Threads
Buffers  == 1 .. setup.buffers
Client   == 0 .. setup.clients - 1        \* 0 is the head of the free ones

\* what a call got: no answer yet, an error of its own, or a response
NoAnswer   == [error |-> "none", id |-> <<>>, opcode |-> "none"]
Error(e)   == [NoAnswer EXCEPT !.error = e]
Quiet      == [pc |-> "idle", msg |-> <<>>, to |-> "sync", count |-> 0]
EmptyQueue == [pipe |-> <<>>, num_msg_in_wait |-> 0, mutex |-> Nobody]

\* A setup s has each thread's calls in order, the number of auxiliary buffers
\* and of clients, and what may go wrong: a response that takes longer than the
\* timeout, a message that cannot be sent, a DSP that refuses; a receiving
\* thread that is not of a higher priority than the application on the same
\* processor; counters whose update takes more than one instruction; a pipe
\* that cannot be made.
Init ==
    /\ setup \in Setups
    /\ lock = [l \in Locks |-> Nobody]
    /\ aux = [i \in Buffers |-> i]
    /\ cmap = [i \in Client |-> (i + 1) % setup.clients]
    /\ handle = [t \in Threads |-> [open |-> FALSE, client |-> 0, aux |-> 0]]
    /\ call = [t \in Threads |-> [pc |-> "idle", left |-> setup.calls[t], b |-> 0,
                                  got |-> NoAnswer, count |-> 0]]
    /\ queue = [q \in Queues |-> EmptyQueue]
    /\ recv = Quiet /\ dsp = {} /\ wire = <<>> /\ past = {}

-----------------------------------------------------------------------------
(* Calls                                                                   *)

Op(t)      == Head(call[t].left)
Id(t)      == <<t, Len(call[t].left)>>
UsesAux(o) == o \in {"open", "route", "unroute", "alloc", "free", "stats"}
LockOf(o)  == IF o = "unroute" THEN "delayed" ELSE "proxy"
QueueOf(t) == CASE Op(t) = "unroute" -> "delayed" [] Op(t) = "answer" -> t [] OTHER -> "sync"
\* mutant: a configuration is sent without the lock
FirstStep_ConfigUnlocked(o) ==
    CASE UsesAux(o) -> "aux" [] o \in {"command", "config"} -> "send" [] o = "answer" -> "wait"
      [] OTHER -> "lock"

FirstStep(o) ==
    CASE UsesAux(o) -> "aux" [] o = "command" -> "send" [] o = "answer" -> "wait" [] OTHER -> "lock"

\* the receiving thread comes first, except where it is blocked
MayRun ==
    \/ "preempt" \in setup.faults
    \/ recv.pc = "idle"
    \/ recv.pc = "signal" /\ queue[recv.to].mutex # Nobody

At(t, pc) == MayRun /\ call[t].pc = pc
Goto(t, pc) == call' = [call EXCEPT ![t].pc = pc]
Fail(t, e)  == call' = [call EXCEPT ![t].pc = "done", ![t].got = Error(e)]
Leave(t)    == call' = [call EXCEPT ![t].pc = "idle", ![t].left = Tail(call[t].left), ![t].b = 0,
                                    ![t].got = NoAnswer, ![t].count = 0]

\* a response with the opcode of the request; an error response has that of
\* XF_UNREGISTER
Opcode(o, ok) == IF ok THEN o ELSE "close"
Failed(t)     == call[t].got.error # "none" \/ call[t].got.opcode # Op(t)

\* mutant: xf_close forgets the component before it is deleted
Begin_WipedFirst(t) ==
    /\ At(t, "idle") /\ call[t].left # <<>>
    /\ Op(t) \notin {"alloc", "free", "stats"} => (handle[t].open <=> Op(t) # "open")
    /\ handle' = [handle EXCEPT ![t].open = @ /\ Op(t) # "close"]
    /\ Goto(t, FirstStep(Op(t)))
    /\ UNCHANGED <<setup, lock, aux, cmap, queue, recv, dsp, wire, past>>

\* A thread calls with an open component, and opens one that is not.
Begin(t) ==
    /\ At(t, "idle") /\ call[t].left # <<>>
    /\ Op(t) \notin {"alloc", "free", "stats"} => (handle[t].open <=> Op(t) # "open")
    /\ Goto(t, FirstStep(Op(t)))
    /\ UNCHANGED <<setup, lock, aux, cmap, handle, queue, recv, dsp, wire, past>>

\* xf_buffer_get; xf_open then makes the component's wait queue
GetAux(t) ==
    /\ At(t, "aux") /\ lock["proxy"] = Nobody
    /\ IF aux = <<>>
       THEN Leave(t) /\ UNCHANGED <<aux, queue>>
       ELSE /\ aux' = Tail(aux)
            /\ call' = [call EXCEPT ![t].pc = "lock", ![t].b = Head(aux)]
            /\ queue' = IF Op(t) = "open" THEN [queue EXCEPT ![t] = EmptyQueue] ELSE queue
    /\ UNCHANGED <<setup, lock, cmap, handle, recv, dsp, wire, past>>

\* xf_open returns when the pipe of the wait queue cannot be made, and the
\* buffer is not put back
NoPipe(t) ==
    /\ At(t, "aux") /\ lock["proxy"] = Nobody
    /\ Op(t) = "open" /\ "pipe" \in setup.faults /\ aux # <<>>
    /\ aux' = Tail(aux)
    /\ Leave(t)
    /\ past' = past \cup {"pipe"}
    /\ UNCHANGED <<setup, lock, cmap, handle, queue, recv, dsp, wire>>

\* xf_client_alloc
ClientAlloc(t) ==
    /\ cmap' = [cmap EXCEPT ![0] = cmap[cmap[0]], ![cmap[0]] = t]
    /\ handle' = [handle EXCEPT ![t].client = cmap[0]]

\* xf_client_free
ClientFree(m, client) == [m EXCEPT ![client] = m[0], ![0] = client]

Lock(t) ==
    /\ At(t, "lock") /\ lock[LockOf(Op(t))] = Nobody
    /\ lock' = [lock EXCEPT ![LockOf(Op(t))] = t]
    /\ IF Op(t) # "open"
       THEN Goto(t, "send") /\ UNCHANGED <<cmap, handle>>
       ELSE IF cmap[0] = 0
       THEN Fail(t, "memory") /\ UNCHANGED <<cmap, handle>>
       ELSE Goto(t, "send") /\ ClientAlloc(t)
    /\ UNCHANGED <<setup, aux, queue, recv, dsp, wire, past>>

\* mutant: the response to a disconnection is for the wait queue of the others
Message_NotDelayed(t) ==
    [id |-> Id(t), op |-> Op(t),
     comp |-> IF Op(t) \in {"open", "alloc", "free", "stats"} THEN Nobody ELSE t,
     back |-> IF Op(t) = "command" THEN handle[t].client ELSE 0]

\* the message of a call: to which component it goes, which wait queue its
\* response is for
Message(t) ==
    [id |-> Id(t), op |-> Op(t),
     comp |-> IF Op(t) \in {"open", "alloc", "free", "stats"} THEN Nobody ELSE t,
     back |-> IF Op(t) = "command" THEN handle[t].client
              ELSE IF Op(t) = "unroute" THEN -1 ELSE 0]

\* xf_ipc_send; xf_command does not wait
Send(t) ==
    /\ At(t, "send")
    /\ \/ /\ dsp' = dsp \cup {Message(t)}
          /\ IF Op(t) = "command" THEN Leave(t) ELSE Goto(t, "wait")
       \/ /\ "send" \in setup.faults
          /\ IF Op(t) = "command" THEN Leave(t) ELSE Fail(t, "send")
          /\ UNCHANGED dsp
    /\ UNCHANGED <<setup, lock, aux, cmap, handle, queue, recv, wire, past>>

-----------------------------------------------------------------------------
(* xf_proxy_response_get, xf_proxy_response_get_delayed, xf_response_get   *)

Set(q, field, value) == queue' = [queue EXCEPT ![q] = [@ EXCEPT ![field] = value]]

\* __xf_wait_prepare, and the test of the counter
Wait(t) ==
    LET q == QueueOf(t) IN
    /\ At(t, "wait") /\ queue[q].mutex = Nobody
    /\ IF queue[q].num_msg_in_wait = 0
       THEN Goto(t, "sleep") /\ UNCHANGED queue
       ELSE Goto(t, "read") /\ Set(q, "mutex", t)
    /\ UNCHANGED <<setup, lock, aux, cmap, handle, recv, dsp, wire, past>>

\* woken up; the counter is not tested again
Resume(t) ==
    LET q == QueueOf(t) IN
    /\ At(t, "woken") /\ queue[q].mutex = Nobody
    /\ Goto(t, "read") /\ Set(q, "mutex", t)
    /\ UNCHANGED <<setup, lock, aux, cmap, handle, recv, dsp, wire, past>>

\* The timeout is so long that whatever is under way has come to rest, unless
\* the DSP is slow.
AtRest == recv.pc = "idle" /\ wire = <<>> /\ dsp = {}

Timeout(t) ==
    /\ At(t, "sleep") /\ queue[QueueOf(t)].mutex = Nobody
    /\ AtRest \/ "slow" \in setup.faults
    /\ Fail(t, "timeout")
    /\ past' = past \cup {"timeout"}
    /\ UNCHANGED <<setup, lock, aux, cmap, handle, queue, recv, dsp, wire>>

\* The pipe is read with the mutex held, for as long as it takes, and the
\* counter decremented.
Read(t) ==
    LET q == QueueOf(t)
        m == Head(queue[q].pipe) IN
    /\ At(t, "read") /\ queue[q].pipe # <<>>
    /\ call' = [call EXCEPT ![t].pc = "count", ![t].count = queue[q].num_msg_in_wait,
                            ![t].got = [error |-> "none", id |-> m.id, opcode |-> m.opcode]]
    /\ Set(q, "pipe", Tail(queue[q].pipe))
    /\ UNCHANGED <<setup, lock, aux, cmap, handle, recv, dsp, wire, past>>

Decremented(t) ==
    (IF "torn" \in setup.faults THEN call[t].count ELSE queue[QueueOf(t)].num_msg_in_wait) - 1

Decrement(t) ==
    LET q == QueueOf(t) IN
    /\ At(t, "count")
    /\ queue' = [queue EXCEPT ![q].num_msg_in_wait = Decremented(t), ![q].mutex = Nobody]
    /\ IF Op(t) = "answer" THEN Leave(t) ELSE Goto(t, "done")
    /\ UNCHANGED <<setup, lock, aux, cmap, handle, recv, dsp, wire, past>>

-----------------------------------------------------------------------------
(* The end of a call                                                       *)

\* xf_close keeps the component when it could not be deleted
Opens(t)  == Op(t) = "open" /\ ~Failed(t)
Closes(t) == Op(t) = "close" /\ call[t].got.error = "none"

\* mutant: the client of a component that could not be opened is not given back
Undone_Forgotten(t) == FALSE

Undone(t) == Op(t) = "open" /\ Failed(t) /\ call[t].got.error # "memory"

Refused(t) == Op(t) = "stats" /\ Failed(t)

\* mutant: the buffer of a call that failed is kept
GivesBack_IfDone(t) == UsesAux(Op(t)) /\ ~Failed(t) /\ ~Opens(t)

\* only an open component keeps its buffer, and statistics that are refused
GivesBack(t) == UsesAux(Op(t)) /\ ~Opens(t) /\ ~Refused(t)

\* mutant: xf_close returns with the lock when it fails
Released_NotOnError(t) ==
    IF Op(t) = "close" /\ ~Closes(t) THEN lock ELSE [lock EXCEPT ![LockOf(Op(t))] = Nobody]

Released(t) == [lock EXCEPT ![LockOf(Op(t))] = Nobody]

\* Unlock, and before it what is done under the lock.
Unlock(t) ==
    /\ At(t, "done") /\ Op(t) # "answer"
    /\ lock' = Released(t)
    /\ cmap' = IF Closes(t) \/ Undone(t) THEN ClientFree(cmap, handle[t].client) ELSE cmap
    /\ handle' = [handle EXCEPT ![t].open = Opens(t) \/ (handle[t].open /\ ~Closes(t)),
                                ![t].aux  = IF Opens(t) THEN call[t].b
                                            ELSE IF Closes(t) THEN 0 ELSE handle[t].aux]
    /\ CASE Refused(t)   -> Goto(t, "again")
         [] Closes(t)    -> call' = [call EXCEPT ![t].pc = "put", ![t].b = handle[t].aux]
         [] GivesBack(t) -> Goto(t, "put")
         [] OTHER        -> Leave(t)
    /\ past' = IF Refused(t) THEN past \cup {"stats"} ELSE past
    /\ UNCHANGED <<setup, aux, queue, recv, dsp, wire>>

\* xf_get_dsp_stats unlocks a second time when it failed, and keeps the buffer
UnlockAgain(t) ==
    /\ At(t, "again")
    /\ lock' = [lock EXCEPT !["proxy"] = Nobody]
    /\ Leave(t)
    /\ UNCHANGED <<setup, aux, cmap, handle, queue, recv, dsp, wire, past>>

\* a wait for a component's responses that timed out
GiveUp(t) ==
    /\ At(t, "done") /\ Op(t) = "answer"
    /\ Leave(t)
    /\ UNCHANGED <<setup, lock, aux, cmap, handle, queue, recv, dsp, wire, past>>

\* xf_buffer_put
PutAux(t) ==
    /\ At(t, "put") /\ lock["proxy"] = Nobody
    /\ aux' = <<call[t].b>> \o aux
    /\ Leave(t)
    /\ UNCHANGED <<setup, lock, cmap, handle, queue, recv, dsp, wire, past>>

-----------------------------------------------------------------------------
(* xf_proxy_thread, and xf_proxy_response_put with its two variants        *)

Receive ==
    LET m     == Head(wire)
        owner == cmap[m.back]                  \* xf_client_lookup
        Put(q) == recv' = [recv EXCEPT !.pc = "write", !.msg = m, !.to = q] IN
    /\ recv.pc = "idle" /\ wire # <<>>
    /\ wire' = Tail(wire)
    /\ CASE m.back = -1 -> Put("delayed")
         [] m.back = 0  -> Put("sync")
         [] m.back \notin {-1, 0} /\ owner \in Threads -> Put(owner)
         [] OTHER       -> UNCHANGED recv
    /\ UNCHANGED <<setup, lock, aux, cmap, handle, call, queue, dsp, past>>

Write ==
    /\ recv.pc = "write"
    /\ Set(recv.to, "pipe", Append(queue[recv.to].pipe, recv.msg))
    /\ recv' = [recv EXCEPT !.pc = "load"]
    /\ UNCHANGED <<setup, lock, aux, cmap, handle, call, dsp, wire, past>>

\* num_msg_in_wait++, in two steps if it is torn
Load ==
    /\ recv.pc = "load" /\ "torn" \in setup.faults
    /\ recv' = [recv EXCEPT !.pc = "store", !.count = queue[recv.to].num_msg_in_wait]
    /\ UNCHANGED <<setup, lock, aux, cmap, handle, call, queue, dsp, wire, past>>

Increment ==
    /\ recv.pc = IF "torn" \in setup.faults THEN "store" ELSE "load"
    /\ Set(recv.to, "num_msg_in_wait",
           1 + IF "torn" \in setup.faults THEN recv.count ELSE queue[recv.to].num_msg_in_wait)
    /\ recv' = [recv EXCEPT !.pc = "signal", !.count = 0]
    /\ UNCHANGED <<setup, lock, aux, cmap, handle, call, dsp, wire, past>>

\* __xf_wakeup
Sleepers(q) == {t \in Threads : call[t].pc = "sleep" /\ QueueOf(t) = q}

Signal ==
    /\ recv.pc = "signal" /\ queue[recv.to].mutex = Nobody
    /\ IF Sleepers(recv.to) = {} THEN UNCHANGED call
       ELSE \E t \in Sleepers(recv.to) : Goto(t, "woken")
    /\ recv' = Quiet
    /\ UNCHANGED <<setup, lock, aux, cmap, handle, queue, dsp, wire, past>>

\* The DSP answers in any order, a deletion after all else it has for the
\* component.
Answer ==
    \E m \in dsp, ok \in BOOLEAN :
        /\ m.op = "close" => \A n \in dsp \ {m} : n.comp # m.comp
        /\ ~ok => "refuse" \in setup.faults
        /\ dsp' = dsp \ {m}
        /\ wire' = Append(wire, [id |-> m.id, opcode |-> Opcode(m.op, ok), back |-> m.back])
        /\ UNCHANGED <<setup, lock, aux, cmap, handle, call, queue, recv, past>>

-----------------------------------------------------------------------------

Thread(t) ==
    \/ Begin(t) \/ GetAux(t) \/ NoPipe(t) \/ Lock(t) \/ Send(t) \/ Wait(t) \/ Resume(t)
    \/ Timeout(t) \/ Read(t) \/ Decrement(t) \/ Unlock(t) \/ UnlockAgain(t) \/ GiveUp(t) \/ PutAux(t)

ProxyThread == Receive \/ Write \/ Load \/ Increment \/ Signal

Next == (\E t \in Threads : Thread(t)) \/ ProxyThread \/ Answer

Spec == Init /\ [][Next]_vars

\* The threads run, the DSP answers, and a wait has an end.
FairSpec == Spec /\ (\A t \in Threads : WF_vars(Thread(t))) /\ WF_vars(ProxyThread) /\ WF_vars(Answer)

-----------------------------------------------------------------------------

\* Everything has its type.
TypeOK ==
    /\ setup \in Setups
    /\ lock \in [Locks -> Threads \cup {Nobody}]
    /\ aux \in Seq(Buffers)
    /\ cmap \in [Client -> Client \cup Threads] /\ cmap[0] \in Client
    /\ \A t \in Threads :
        /\ handle[t].open \in BOOLEAN /\ handle[t].client \in Client
        /\ handle[t].aux \in 0 .. setup.buffers /\ call[t].b \in 0 .. setup.buffers
        /\ call[t].left \in Seq(Calls) /\ call[t].count \in Int
        /\ call[t].pc # "idle" => call[t].left # <<>>
    /\ \A q \in Queues :
        queue[q].num_msg_in_wait \in Int /\ queue[q].mutex \in Threads \cup {Nobody}
    /\ recv.to \in Queues /\ past \subseteq {"timeout", "stats", "pipe"}

\* The proxy's lock and that of the disconnections each admit one call: two
\* waiting on the same queue would take each other's responses (xf_proxy_lock).
\* It is so until xf_get_dsp_stats fails, which unlocks twice.
InSection(t, l) ==
    /\ call[t].pc \in {"send", "wait", "sleep", "woken", "read", "count", "done"}
    /\ Op(t) \notin {"command", "answer"} /\ LockOf(Op(t)) = l
OneCallAtATime ==
    "stats" \notin past => \A l \in Locks, t \in Threads : InSection(t, l) => lock[l] = t

\* Whatever calls fail and wherever they do, no auxiliary buffer is given out
\* twice, and as long as neither of the two returns that keep one has been taken
\* none is lost: the one of xf_get_dsp_stats that failed, and the one of xf_open
\* without a pipe (xf_buffer_get, xf_buffer_put, their callers). After the
\* former a second unlocking has let two calls in.
Free(b)     == \E i \in DOMAIN aux : aux[i] = b
Holds(t, b) == b \in {call[t].b, handle[t].aux}
AuxConserved ==
    "stats" \notin past =>
        /\ \A i, j \in DOMAIN aux : aux[i] = aux[j] => i = j
        /\ "pipe" \notin past => \A b \in Buffers : Free(b) \/ \E t \in Threads : Holds(t, b)
        /\ \A b \in Buffers, t \in Threads :
            Holds(t, b) => ~Free(b) /\ \A u \in Threads : Holds(u, b) => u = t

\* The free clients hang together from the head to the end, and what is not
\* among them is an open component's, or one's that is being opened or closed.
Reached ==
    LET within[n \in Nat] == IF n = 0 THEN {cmap[0]}
                             ELSE within[n - 1] \cup {cmap[c] : c \in within[n - 1] \ {0}}
    IN  within[setup.clients]
Opening(t) ==
    /\ call[t].pc \notin {"idle", "aux", "lock", "put"}
    /\ Op(t) = "open" /\ call[t].got.error # "memory"
Registered == {t \in Threads : handle[t].open \/ Opening(t)}
ClientsSound ==
    /\ Reached = Client \ {handle[t].client : t \in Registered}
    /\ \A t \in Registered : cmap[handle[t].client] = t

\* Until a wait has timed out, every call gets the response to its own message,
\* and a thread that waits for its component one to a message of its own:
\* responses are matched by their order alone. A second unlocking lets two
\* calls in.
OwnAnswer ==
    \A t \in Threads :
        call[t].got.id # <<>> /\ past \subseteq {"pipe"} =>
            IF Op(t) = "answer" THEN call[t].got.id[1] = t ELSE call[t].got.id = Id(t)

\* Until then, no response is put into the wait queue of a component that is
\* not open: its pipe is closed, or belongs to someone else. xf_close relies on
\* its answer being the last, and on getting no other call's.
PutToOpen == recv.pc # "idle" /\ recv.to \in Threads /\ past \subseteq {"pipe"} => handle[recv.to].open

\* Where the receiving thread has the higher priority, every call returns,
\* whatever else goes wrong: no thread reads for a response that will not come.
EveryCallReturns ==
    \A t \in Threads : call[t].pc # "idle" /\ "preempt" \notin setup.faults ~> call[t].pc = "idle"

\* A wait has a timeout, so every call returns (xf-ipc.h:59: "wait object to
\* return timeout error on no-response").
TimeoutOnNoResponse == \A t \in Threads : call[t].pc # "idle" ~> call[t].pc = "idle"

\* A thread sleeps only while there is no response for it, or one whose
\* announcement is on its way (xf-proxy.h:260: "wait if response queue is
\* empty").
WaitsOnlyWhenEmpty ==
    \A t \in Threads :
        call[t].pc = "sleep" => queue[QueueOf(t)].pipe = <<>> \/ recv.to = QueueOf(t)
=============================================================================
