--------------------------------- MODULE Workers ---------------------------------
(***************************************************************************)
(* The core of the DSP: the table of clients, the dispatch of messages,    *)
(* and the worker threads, xf-core.c, with the change of a component's     *)
(* priority, xa-class-base.c.                                              *)
(*                                                                         *)
(* The DSP thread takes what the host sends.  Without workers it runs the  *)
(* components itself; with them, each message goes into the queue of the   *)
(* worker its component's priority names, or, between two components of    *)
(* one worker, into that worker's local queue.  A worker takes the tasks   *)
(* of its own scheduler before it waits for a message (LOCAL_SCHED,        *)
(* LOCAL_MSGQ).  All threads run on one processor, the runnable one of     *)
(* the highest priority at any time.                                       *)
(*                                                                         *)
(* Of a component there is what the core and its peers see: a source has   *)
(* buffers that go to a sink and come back, both put themselves into the   *)
(* scheduler when there is something to do, and a source that ends waits   *)
(* for its flush to come back.  DataFlow has the rest.                     *)
(***************************************************************************)
EXTENDS Integers, Sequences, FiniteSets, SequencesExt

CONSTANTS NWorkers,    \* worker threads, numbered from 0, the background's
          Rank,        \* the priority of each thread, the DSP's being the last
          MaxClients,  \* entries of the client table
          MaxObjects,  \* components created, ever
          Room,        \* length of a worker's queue
          Buffers,     \* buffers of a source
          MaxData,     \* times a source fills one
          MaxCommands, \* plain commands, late changes of priority
          MaxChanges,  \* and priorities that are refused
          MaxFails,    \* messages of components that a handler cannot take
          MaxAsked,    \* unanswered commands of the application
          Faults       \* what may go wrong, see below

\* "exit": a thread may be interrupted between the release of a component and
\* the raising of its priority.  "routed": the priority of a component is changed
\* while it is connected, or has commands unanswered.  "scratch": there is no
\* scratch memory for the new priority.  "late": workers are created after
\* components.  "reuse": an id is given to a new component while the one before
\* is still addressed.
AllFaults == {"exit", "routed", "scratch", "late", "reuse"}

Dsp     == NWorkers
Threads == 0 .. NWorkers
Pool    == 0 .. NWorkers - 1
Clients == 1 .. MaxClients
Objects == 1 .. MaxObjects
Proxy   == 0              \* the application, and the core as its correspondent
None    == 0              \* no component, no client
Keep    == -1             \* a SET_PARAM without a priority

ASSUME WorkersAssumption ==
    /\ NWorkers \in Nat \ {0} /\ MaxClients \in Nat /\ MaxObjects \in Nat
    /\ Rank \in [Threads -> Nat] /\ \A w \in Pool : Rank[w] <= Rank[Dsp]
    /\ Room \in Nat \ {0} /\ Buffers \in Nat \ {0} /\ MaxData \in Nat /\ MaxCommands \in Nat
    /\ MaxChanges \in Nat /\ MaxFails \in Nat /\ MaxAsked \in Nat \ {0}
    /\ Faults \subseteq AllFaults

VARIABLES n_workers,   \* workers there are
          interim,     \* cd->queue, messages for the DSP thread
          queue,       \* the workers' queues, of messages with their components
          local,       \* the workers' local_msg_queue
          sched,       \* tasks in the trees of the workers and, last, of the core
          cmap, free,  \* client table: each id's component; the list of free ids
          comp,        \* components
          th,          \* threads
          app,         \* the application
          wrong        \* uses of a component that is not the one meant, or is no more

vars == <<n_workers, interim, queue, local, sched, cmap, free, comp, th, app, wrong>>

-----------------------------------------------------------------------------
\* A message. owner is the component whose buffer it is, or none; serial counts
\* the commands of the application and the fillings of buffers.
Message(op, src, dst, owner, serial) ==
    [op |-> op, src |-> src, dst |-> dst, owner |-> owner, serial |-> serial,
     arg |-> Keep, error |-> FALSE, gone |-> FALSE, meant |-> None]

NoMsg  == Message("none", Proxy, Proxy, None, 0)
NoItem == [comp |-> None, msg |-> NoMsg]
Marker == NoItem

\* xf_msg_complete: back to where it came from
Completed(m) ==
    [m EXCEPT !.src = m.dst, !.dst = m.src,
              !.op = CASE m.src # Proxy /\ m.op = "EMPTY" -> "FILL"
                       [] m.src # Proxy /\ m.op = "FILL"  -> "EMPTY"
                       [] OTHER -> m.op]

ResponseErr(m)     == Completed([m EXCEPT !.op = "UNREGISTER"])
ResponseFailure(m) == Completed([m EXCEPT !.gone = TRUE])

NewComponent(id, priority) ==
    [life |-> "live", id |-> id, priority |-> priority, ready |-> FALSE, scheduled |-> FALSE,
     terminating |-> FALSE, cause |-> NoMsg, held |-> <<>>, peer |-> None, mate |-> None, home |-> 0,
     filled |-> 0, lost |-> FALSE, seen |-> 0, heard |-> 0]

NotYet   == [NewComponent(None, 0) EXCEPT !.life = "none"]
Released(c) == [NewComponent(None, c.priority) EXCEPT !.life = "dead"]
Idle   == [pc |-> "idle", comp |-> None, todo |-> <<>>, then |-> "drain", item |-> NoItem,
           q |-> 0, to |-> 0, client |-> None, target |-> 0, rescheds |-> FALSE, raised |-> FALSE]
Waiting == [Idle EXCEPT !.pc = "waiting"]   \* a worker that found no task

Init ==
    /\ n_workers = 0
    /\ interim = <<>>
    /\ queue = [w \in Pool |-> <<>>] /\ local = [w \in Pool |-> <<>>]
    /\ sched = [t \in Threads |-> {}]
    /\ cmap = [i \in Clients |-> None] /\ free = [i \in Clients |-> i]
    /\ comp = [o \in Objects |-> NotYet]
    /\ th = [t \in Threads |-> IF t = Dsp THEN Idle ELSE Waiting]
    /\ app = [asked |-> 0, open |-> {}, known |-> [i \in Clients |-> None], registering |-> FALSE,
               plain |-> 0, changes |-> 0, fails |-> 0]
    /\ wrong = {}

-----------------------------------------------------------------------------
(* Priorities *)

Top == Rank[Dsp] + 1

\* xf_core_process_message goes from the release of a component to the raising
\* of its thread in a few instructions, during which only "exit" interrupts it
Hurries(t) == th[t].pc = "freed" /\ "exit" \notin Faults

Priority(t) == IF th[t].raised \/ Hurries(t) THEN Top ELSE Rank[t]

HasRoom(w) == Len(queue[w]) < Room

Ready(t) ==
    CASE th[t].pc = "idle" /\ t = Dsp -> interim # <<>> \/ (n_workers = 0 /\ sched[Dsp] # {})
      [] th[t].pc = "waiting" -> queue[t] # <<>>
      [] th[t].pc = "send" -> HasRoom(th[t].to)
      [] th[t].pc = "mark" -> HasRoom(th[t].q)
      [] th[t].pc = "exited" -> FALSE
      [] OTHER -> TRUE

Runs(t) == Ready(t) /\ \A u \in Threads : Ready(u) => Priority(u) <= Priority(t)

-----------------------------------------------------------------------------
(* Components.  A handler returns the component after it, the messages it  *)
(* completes or submits, in order, and what it says: "ok", "error", or     *)
(* "unregister".                                                           *)
Result(c, out, ret) == [c |-> c, out |-> out, ret |-> ret]

\* xa_base_schedule and xa_base_cancel; the trees follow in Rescheduled
Schedule(c) == [c EXCEPT !.scheduled = TRUE]
Cancel(c)   == [c EXCEPT !.scheduled = FALSE]

Filled(o, c) == Message("EMPTY", c.id, c.peer, o, c.filled + 1)
CanFill(c)   == c.home > 0 /\ ~c.lost /\ c.filled < MaxData

\* xa_base_process: one buffer is emptied and one is filled
Process(o, c) ==
    LET d == [c EXCEPT !.scheduled = FALSE,
                       !.held = IF @ = <<>> THEN @ ELSE Tail(@),
                       !.home = IF CanFill(c) THEN @ - 1 ELSE @,
                       !.filled = IF CanFill(c) THEN @ + 1 ELSE @]
        out == (IF c.held = <<>> THEN <<>> ELSE <<Completed(Head(c.held))>>)
               \o (IF CanFill(c) THEN <<Filled(o, c)>> ELSE <<>>)
    IN  IF c.terminating THEN Result(Cancel(c), <<>>, "ok")
        ELSE Result([d EXCEPT !.scheduled = d.held # <<>> \/ CanFill(d)], out, "ok")

\* the input is purged: everything in it goes back
Purged(c) == [k \in 1 .. Len(c.held) |-> Completed(c.held[k])]

\* A component is created with the highest priority of the workers, and has the
\* lowest from its first SET_PARAM on, unless that names another; a priority
\* there is no worker for is refused.
BasePriority(c) == IF c.ready THEN c.priority ELSE 0
Changes(c, m)   == m.op = "SET_PARAM" /\ ~c.terminating /\ m.arg # Keep /\ m.arg + 1 < n_workers

SetParam(c, m) ==
    LET d == [c EXCEPT !.priority = BasePriority(c)]
    IN  IF m.arg = Keep THEN Result([d EXCEPT !.ready = TRUE], <<Completed(m)>>, "ok")
        ELSE Result(d, <<>>, "error")

\* xa_base_command; a change of priority is in ChangePriority
Command(o, c, m) ==
    CASE m.op = "UNREGISTER" -> Result(c, <<>>, "unregister")
      [] m.op = "SET_PARAM" -> SetParam(c, m)
      [] m.op = "ROUTE" -> Result(Schedule([c EXCEPT !.peer = m.arg, !.mate = cmap[m.arg],
                                                     !.home = Buffers]), <<Completed(m)>>, "ok")
      [] m.op = "EMPTY" -> Result(Schedule([c EXCEPT !.held = Append(@, m), !.heard = m.serial]),
                                  <<>>, "ok")
      [] m.op = "FILL"  -> IF m.gone \/ m.error
                           THEN Result([c EXCEPT !.home = @ + 1, !.lost = TRUE], <<>>, "ok")
                           ELSE Result(Schedule([c EXCEPT !.home = @ + 1]), <<>>, "ok")
      [] m.op = "FLUSH" -> Result([c EXCEPT !.held = <<>>], Append(Purged(c), Completed(m)), "ok")
      [] OTHER -> Result(c, <<Completed(m)>>, "ok")

\* xa_audio_codec_terminate, for the component that waits for its flush
\* mutant: the application is not told
Terminate_Silent(o, c, m) ==
    CASE m.op = "FLUSH" /\ m.owner = o -> Result(c, <<>>, "unregister")
      [] m.op = "FILL" -> Result([c EXCEPT !.home = @ + 1], <<>>, "ok")
      [] OTHER -> Result(c, IF m.src = Proxy THEN <<>> ELSE <<ResponseFailure(m)>>, "ok")

Terminate(o, c, m) ==
    CASE m.op = "FLUSH" /\ m.owner = o -> Result(c, <<>>, "unregister")
      [] m.op = "FILL" -> Result([c EXCEPT !.home = @ + 1], <<>>, "ok")
      [] OTHER -> Result(c, <<IF m.src = Proxy THEN ResponseErr(m) ELSE ResponseFailure(m)>>, "ok")

Heard(c, m) == IF m.src = Proxy THEN [c EXCEPT !.seen = m.serial] ELSE c

Entry(o, c, m, fails) ==
    CASE c.terminating -> Terminate(o, Heard(c, m), m)
      [] ~c.terminating /\ fails ->
            Result([c EXCEPT !.home = IF m.op = "FILL" THEN @ + 1 ELSE @], <<>>, "error")
      [] OTHER -> Command(o, Heard(c, m), m)

\* component->exit, what it does before the memory is released: it purges the
\* input and, when buffers are away, sends a flush after them and waits
\* mutant: it does not wait
Exit_AtOnce(o, c, cause) ==
    [c |-> Cancel([c EXCEPT !.held = <<>>, !.cause = cause]), out |-> Purged(c), destroyed |-> TRUE]

Exit(o, c, cause) ==
    LET d == Cancel([c EXCEPT !.held = <<>>, !.cause = cause])
    IN  CASE c.terminating -> [c |-> c, out |-> <<>>, destroyed |-> TRUE]
          [] ~c.terminating /\ c.peer # None /\ c.home < Buffers ->
                [c |-> [d EXCEPT !.terminating = TRUE],
                 out |-> Append(Purged(c), Message("FLUSH", c.id, c.peer, o, 0)),
                 destroyed |-> FALSE]
          [] OTHER -> [c |-> d, out |-> Purged(c), destroyed |-> TRUE]

\* xf_core_process_message
ProcessMessage(o, c, m, fails) ==
    LET r == Entry(o, c, m, fails)
        n == [m EXCEPT !.error = TRUE]
        e == Exit(o, r.c, IF r.ret = "unregister" THEN m ELSE NoMsg)
        refused == IF r.ret = "error" /\ m.op # "FILL" THEN <<ResponseFailure(n)>> ELSE <<>>
    IN  CASE r.ret = "ok" -> [c |-> r.c, out |-> r.out, destroyed |-> FALSE]
          [] r.ret = "error" /\ m.src = Proxy ->
                [c |-> r.c, out |-> Append(r.out, ResponseErr(n)), destroyed |-> FALSE]
          [] OTHER -> [c |-> e.c, out |-> r.out \o refused \o e.out, destroyed |-> e.destroyed]

\* the tree a component's task belongs to, and the trees after its flag changed
TreeOf(c) == IF n_workers = 0 THEN Dsp ELSE c.priority

Rescheduled(o, d) ==
    CASE d.scheduled /\ ~comp[o].scheduled -> [sched EXCEPT ![TreeOf(d)] = @ \cup {o}]
      [] ~d.scheduled /\ comp[o].scheduled -> [sched EXCEPT ![TreeOf(d)] = @ \ {o}]
      [] OTHER -> sched

-----------------------------------------------------------------------------
(* Steps of a thread *)

\* the component a message was meant for
Meant(m) ==
    CASE m.owner = None -> m.meant
      [] m.owner # None /\ m.dst = comp[m.owner].id -> m.owner
      [] OTHER -> comp[m.owner].mate

Answered(m) == [app EXCEPT !.open = @ \ {m.serial}]

\* a handler may fail to take a buffer
Outcomes(m) ==
    IF m.op \in {"EMPTY", "FILL"} /\ app.fails < MaxFails
       /\ ("reuse" \in Faults \/ ~app.registering)
    THEN BOOLEAN ELSE {FALSE}

Misuse(o, m) ==
    (IF comp[o].life = "live" THEN {} ELSE {"executed after its release"})
    \cup (IF Meant(m) = o THEN {} ELSE {"message of another component"})

\* thread t has component o handle message m
Handle(t, o, m, fails) ==
    LET r == ProcessMessage(o, comp[o], m, fails)
    IN  /\ comp' = [comp EXCEPT ![o] = r.c]
        /\ sched' = Rescheduled(o, r.c)
        /\ th' = [th EXCEPT ![t] = [Idle EXCEPT !.pc = "submit", !.comp = o, !.todo = r.out,
                     !.then = IF r.destroyed THEN "exit" ELSE "drain",
                     !.client = m.dst, !.q = comp[o].priority, !.raised = th[t].raised]]
        /\ app' = [app EXCEPT !.fails = IF fails THEN @ + 1 ELSE @]

\* xa_component_setparam: the task is cancelled, the thread raised, and a
\* marker put into the queue the component is thought to have now
\* mutant: the thread is not raised
ChangePriority_NotRaised(t, o, m) ==
    LET c == comp[o]
        d == [c EXCEPT !.scheduled = FALSE, !.priority = BasePriority(c), !.seen = m.serial]
    IN  /\ comp' = [comp EXCEPT ![o] = d]
        /\ sched' = Rescheduled(o, d)
        /\ th' = [th EXCEPT ![t] = [Idle EXCEPT !.pc = "mark", !.comp = o, !.then = "move",
                     !.todo = <<Completed(m)>>, !.q = BasePriority(c), !.target = m.arg + 1,
                     !.rescheds = c.scheduled, !.raised = FALSE]]
        /\ UNCHANGED app

ChangePriority(t, o, m) ==
    LET c == comp[o]
        d == [c EXCEPT !.scheduled = FALSE, !.priority = BasePriority(c), !.seen = m.serial]
    IN  /\ comp' = [comp EXCEPT ![o] = d]
        /\ sched' = Rescheduled(o, d)
        /\ th' = [th EXCEPT ![t] = [Idle EXCEPT !.pc = "mark", !.comp = o, !.then = "move",
                     !.todo = <<Completed(m)>>, !.q = BasePriority(c), !.target = m.arg + 1,
                     !.rescheds = c.scheduled, !.raised = TRUE]]
        /\ UNCHANGED app

Enter(t, o, m) ==
    /\ wrong' = wrong \cup Misuse(o, m)
    /\ IF Changes(comp[o], m) THEN ChangePriority(t, o, m)
       ELSE \E fails \in Outcomes(m) : Handle(t, o, m, fails)

\* A message that has no component to go to: the application gets an error, a
\* component that is there a failure, and otherwise the message is dropped
SourceAlive(m) == m.src # Proxy /\ cmap[m.src] # None

Bounce(t, m, returns, rest, then) ==
    LET back == IF returns THEN <<ResponseFailure(m)>> ELSE <<>>
    IN  /\ th' = [th EXCEPT ![t].pc = "submit", ![t].todo = back \o rest, ![t].then = then]
        /\ app' = IF m.src = Proxy THEN Answered(m) ELSE app

\* xf_comp_send, once there are workers: the component is read before the
\* message is sent
Address(t, m, rest) ==
    LET o == cmap[m.dst]
    IN  /\ th' = [th EXCEPT ![t].pc = "send", ![t].item = [comp |-> o, msg |-> m],
                            ![t].to = comp[o].priority, ![t].todo = rest]
        /\ UNCHANGED <<interim, local, comp, sched, app>>

\* xf_msg_submit and, for what goes to the application, xf_msg_proxy_complete
ToApplication(t, m, rest) ==
    /\ m.dst = Proxy
    /\ th' = [th EXCEPT ![t].todo = rest]
    /\ app' = Answered(m)
    /\ UNCHANGED <<interim, local, comp, sched, wrong>>

ToInterim(t, m, rest) ==
    /\ m.dst # Proxy /\ n_workers = 0
    /\ interim' = Append(interim, m)
    /\ th' = [th EXCEPT ![t].todo = rest]
    /\ UNCHANGED <<local, comp, sched, app, wrong>>

\* What is read as the priority of a component: once it is released, what it was,
\* or a pointer of the allocator's, no worker's number, if its block was not
\* merged with the one before; what another thread put there, if one may run.
Pointer == -1
SeenPriorities(o) ==
    {comp[o].priority}
    \cup (IF comp[o].life = "live" THEN {} ELSE {Pointer})
    \cup (IF comp[o].life = "dead" /\ "exit" \in Faults THEN Pool ELSE {})

Compared(m)   == m.src # Proxy /\ cmap[m.src] # None /\ cmap[m.dst] # None
SameWorker(m) ==           \* the outcomes the test may have
    IF Compared(m) THEN {p = comp[cmap[m.dst]].priority : p \in SeenPriorities(cmap[m.src])}
    ELSE {FALSE}

\* The purge answers in the name of the component it follows, which is released
\* and still in the table.
ReadAs(t, i) ==
    CASE comp[cmap[i]].life = "live" -> {}
      [] comp[cmap[i]].life # "live" /\ th[t].then = "purge" /\ th[t].client = i ->
            {"read by its own purge"}
      [] OTHER -> {"read after its release"}

Reads(t, m) == ReadAs(t, m.dst) \cup (IF Compared(m) THEN ReadAs(t, m.src) ELSE {})

ToLocal(t, m, rest) ==
    /\ m.dst # Proxy /\ n_workers > 0 /\ TRUE \in SameWorker(m)
    /\ local' = [local EXCEPT ![comp[cmap[m.dst]].priority] = Append(@, m)]
    /\ th' = [th EXCEPT ![t].todo = rest]
    /\ wrong' = wrong \cup Reads(t, m)
    /\ UNCHANGED <<interim, comp, sched, app>>

ToWorker(t, m, rest) ==
    /\ m.dst # Proxy /\ n_workers > 0 /\ FALSE \in SameWorker(m) /\ cmap[m.dst] # None
    /\ Address(t, m, rest)
    /\ wrong' = wrong \cup Reads(t, m)

ToNobody(t, m, rest) ==
    /\ m.dst # Proxy /\ n_workers > 0 /\ cmap[m.dst] = None
    /\ Bounce(t, m, SourceAlive(m) /\ ~m.error, rest, th[t].then)
    /\ UNCHANGED <<interim, local, comp, sched, wrong>>

Submit(t) ==
    /\ th[t].pc \in {"submit", "changed"} /\ th[t].todo # <<>>
    /\ LET m == Head(th[t].todo)
           rest == Tail(th[t].todo)
       IN  \/ ToApplication(t, m, rest) \/ ToInterim(t, m, rest) \/ ToLocal(t, m, rest)
           \/ ToWorker(t, m, rest) \/ ToNobody(t, m, rest)
    /\ UNCHANGED <<n_workers, queue, cmap, free>>

Send(t) ==
    /\ th[t].pc = "send"
    /\ queue' = [queue EXCEPT ![th[t].to] = Append(@, th[t].item)]
    /\ th' = [th EXCEPT ![t].item = NoItem,
                        ![t].pc = IF th[t].then = "move" THEN "purge" ELSE "submit"]
    /\ UNCHANGED <<n_workers, interim, local, sched, cmap, free, comp, app, wrong>>

\* the end of a message, or of a component: its memory is released and the
\* command that ended it is answered
Release(t) ==
    LET o == th[t].comp
    IN  /\ comp' = [comp EXCEPT ![o] = Released(@)]
        /\ app' = IF comp[o].cause = NoMsg THEN app ELSE Answered(comp[o].cause)

\* mutant: the entry of the table is not cleared
FreeClient_Kept(i) ==
    /\ free' = <<i>> \o free
    /\ UNCHANGED cmap

FreeClient(i) ==
    /\ cmap' = [cmap EXCEPT ![i] = None]
    /\ free' = <<i>> \o free

\* after a message: what else is in the local queue, then the tasks, then the
\* worker's queue
\* mutant: the worker waits without looking into its tree
After_Waits(t) ==
    CASE t = Dsp -> "idle"
      [] t # Dsp /\ local[t] # <<>> -> "drain"
      [] OTHER -> "waiting"

After(t) ==
    CASE t = Dsp -> "idle"
      [] t # Dsp /\ local[t] # <<>> -> "drain"
      [] OTHER -> IF sched[t] = {} THEN "waiting" ELSE "idle"

Rest(t) == [Idle EXCEPT !.pc = After(t), !.raised = th[t].raised]

FinishMessage(t) ==
    /\ th[t].then = "drain"
    /\ th' = [th EXCEPT ![t] = Rest(t)]
    /\ UNCHANGED <<cmap, free, comp, app>>

FinishComponent(t) ==
    /\ th[t].then = "exit"
    /\ Release(t)
    /\ IF n_workers = 0 THEN /\ FreeClient(th[t].client) /\ th' = [th EXCEPT ![t] = Rest(t)]
       ELSE /\ th' = [th EXCEPT ![t].pc = "freed", ![t].then = "purge"]
            /\ UNCHANGED <<cmap, free>>

FinishAnswer(t) ==
    /\ th[t].then = "purge"
    /\ th' = [th EXCEPT ![t].pc = "purge"]
    /\ UNCHANGED <<cmap, free, comp, app>>

Finish(t) ==
    /\ th[t].pc \in {"submit", "changed"} /\ th[t].todo = <<>>
    /\ FinishMessage(t) \/ FinishComponent(t) \/ FinishAnswer(t)
    /\ UNCHANGED <<n_workers, interim, queue, local, sched, wrong>>

\* xf_client_cleanup: the thread is raised above all others
\* mutant: it is not raised
Raise_Not(t) ==
    /\ th[t].pc = "freed"
    /\ th' = [th EXCEPT ![t].pc = "mark"]
    /\ UNCHANGED <<n_workers, interim, queue, local, sched, cmap, free, comp, app, wrong>>

Raise(t) ==
    /\ th[t].pc = "freed"
    /\ th' = [th EXCEPT ![t].pc = "mark", ![t].raised = TRUE]
    /\ UNCHANGED <<n_workers, interim, queue, local, sched, cmap, free, comp, app, wrong>>

\* a marker shows where the pass through the queue ends
Mark(t) ==
    /\ th[t].pc = "mark"
    /\ queue' = [queue EXCEPT ![th[t].q] = Append(@, Marker)]
    /\ th' = [th EXCEPT ![t].pc = "purge"]
    /\ UNCHANGED <<n_workers, interim, local, sched, cmap, free, comp, app, wrong>>

\* The pass is over when the marker comes back, or nothing does
PassOver(q) == queue[q] # <<>> => Head(queue[q]) = Marker

Rotated(q, item) == [queue EXCEPT ![q] = Append(Tail(@), item)]
Dropped(q)       == [queue EXCEPT ![q] = IF @ = <<>> THEN @ ELSE Tail(@)]

\* xf_worker_queue_purge: what was for the component is answered, the rest put
\* back; then its id is free
\* mutant: only the application gets its messages back
PurgeOne_Discards(t, item) ==
    LET m == item.msg
    IN  IF m.dst = th[t].client
        THEN /\ queue' = Dropped(th[t].q)
             /\ Bounce(t, m, FALSE, <<>>, "purge")
        ELSE /\ queue' = Rotated(th[t].q, item)
             /\ UNCHANGED <<th, app>>

PurgeOne(t, item) ==
    LET m == item.msg
    IN  IF m.dst = th[t].client
        THEN /\ queue' = Dropped(th[t].q)
             /\ Bounce(t, m, SourceAlive(m), <<>>, "purge")
        ELSE /\ queue' = Rotated(th[t].q, item)
             /\ UNCHANGED <<th, app>>

Purge(t) ==
    /\ th[t].pc = "purge" /\ th[t].then = "purge" /\ ~PassOver(th[t].q)
    /\ PurgeOne(t, Head(queue[th[t].q]))
    /\ UNCHANGED <<n_workers, interim, local, sched, cmap, free, comp, wrong>>

PurgeOver(t) ==
    /\ th[t].pc = "purge" /\ th[t].then = "purge" /\ PassOver(th[t].q)
    /\ queue' = Dropped(th[t].q)
    /\ FreeClient(th[t].client)
    /\ th' = [th EXCEPT ![t] = [Rest(t) EXCEPT !.raised = FALSE]]
    /\ UNCHANGED <<n_workers, interim, local, sched, comp, app, wrong>>

\* xa_send_msg_to_new_priority_queue: what is for the component goes to the
\* worker of its new priority
\* mutant: nothing is moved
MoveOne_Stays(t, item) ==
    /\ queue' = Rotated(th[t].q, item)
    /\ UNCHANGED th

MoveOne(t, item) ==
    IF item.comp = th[t].comp
    THEN /\ queue' = Dropped(th[t].q)
         /\ th' = [th EXCEPT ![t].pc = "send", ![t].item = item, ![t].to = th[t].target]
    ELSE /\ queue' = Rotated(th[t].q, item)
         /\ UNCHANGED th

Move(t) ==
    /\ th[t].pc = "purge" /\ th[t].then = "move" /\ ~PassOver(th[t].q)
    /\ MoveOne(t, Head(queue[th[t].q]))
    /\ UNCHANGED <<n_workers, interim, local, sched, cmap, free, comp, app, wrong>>

\* then the component gets its new priority, and its task the new worker; a
\* failure to get scratch memory leaves the thread raised
Scratch(o) == IF "scratch" \in Faults /\ comp[o].ready THEN BOOLEAN ELSE {TRUE}

Changed(t, o) ==
    LET d == [comp[o] EXCEPT !.priority = th[t].target, !.ready = TRUE, !.scheduled = th[t].rescheds]
    IN  /\ comp' = [comp EXCEPT ![o] = d]
        /\ sched' = Rescheduled(o, d)
        /\ th' = [th EXCEPT ![t].pc = "changed", ![t].then = "drain", ![t].raised = FALSE]

NotChanged(t) ==
    /\ th' = [th EXCEPT ![t].pc = "submit", ![t].then = "drain"]
    /\ UNCHANGED <<comp, sched>>

MoveOver(t) ==
    /\ th[t].pc = "purge" /\ th[t].then = "move" /\ PassOver(th[t].q)
    /\ queue' = Dropped(th[t].q)
    /\ \E ok \in Scratch(th[t].comp) : IF ok THEN Changed(t, th[t].comp) ELSE NotChanged(t)
    /\ UNCHANGED <<n_workers, interim, local, cmap, free, app, wrong>>

-----------------------------------------------------------------------------
(* The worker's loop *)

\* xf_core_process, of the first task of a tree
Execute(t) ==
    /\ th[t].pc = "idle"
    /\ t = Dsp => n_workers = 0 /\ interim = <<>>
    /\ \E o \in sched[t] :
        LET r == Process(o, comp[o])
            d == [r.c EXCEPT !.scheduled = FALSE]
        IN  /\ comp' = [comp EXCEPT ![o] = r.c]
            /\ sched' = LET left == [sched EXCEPT ![t] = @ \ {o}]
                        IN  IF r.c.scheduled THEN [left EXCEPT ![TreeOf(d)] = @ \cup {o}] ELSE left
            /\ th' = [th EXCEPT ![t] = [Rest(t) EXCEPT !.pc = "submit", !.comp = o, !.todo = r.out]]
            /\ wrong' = wrong \cup (IF comp[o].life = "live" THEN {} ELSE {"executed after its release"})
    /\ UNCHANGED <<n_workers, interim, queue, local, cmap, free, app>>

\* A message is handled by the component it was sent with, if its id is still
\* in use; a worker that finds a marker ends
Receive(w) ==
    /\ th[w].pc = "waiting"
    /\ queue' = Dropped(w)
    /\ LET item == Head(queue[w])
           m == item.msg
       IN  CASE item = Marker ->
                  /\ th' = [th EXCEPT ![w].pc = "exited"]
                  /\ UNCHANGED <<sched, comp, app, wrong>>
             [] item # Marker /\ cmap[m.dst] # None -> Enter(w, item.comp, m)
             [] OTHER -> /\ Bounce(w, m, SourceAlive(m), <<>>, "drain")
                         /\ UNCHANGED <<sched, comp, wrong>>
    /\ UNCHANGED <<n_workers, interim, local, cmap, free>>

\* between messages, whatever the worker's components sent one another
Drain(w) ==
    /\ th[w].pc = "drain" /\ local[w] # <<>>
    /\ local' = [local EXCEPT ![w] = Tail(@)]
    /\ LET m == Head(local[w])
       IN  IF cmap[m.dst] # None THEN Enter(w, cmap[m.dst], m)
           ELSE /\ Bounce(w, m, SourceAlive(m), <<>>, "drain")
                /\ UNCHANGED <<sched, comp, wrong>>
    /\ UNCHANGED <<n_workers, interim, queue, cmap, free>>

-----------------------------------------------------------------------------
(* The DSP thread: xf_core_service *)

\* xf_proxy_register
NextObject == Cardinality({o \in Objects : comp[o].life # "none"}) + 1

DefaultPriority ==
    IF n_workers = 0 \/ Rank[NWorkers - 1] <= Rank[0] THEN 0 ELSE n_workers - 1

NotRegistered(m) == [Answered(m) EXCEPT !.registering = FALSE]
Registered(m)    == [NotRegistered(m) EXCEPT !.known[Head(free)] = NextObject]

Register(m) ==
    IF free = <<>> THEN app' = NotRegistered(m) /\ UNCHANGED <<cmap, free, comp>>
    ELSE /\ comp' = [comp EXCEPT ![NextObject] = NewComponent(Head(free), DefaultPriority)]
         /\ cmap' = [cmap EXCEPT ![Head(free)] = NextObject]
         /\ free' = Tail(free)
         /\ app' = Registered(m)

ProxyCommand(m) ==
    CASE m.op = "PRIORITIES" -> /\ n_workers' = NWorkers
                                /\ app' = Answered(m)
                                /\ UNCHANGED <<cmap, free, comp>>
      [] OTHER -> Register(m) /\ UNCHANGED n_workers

\* xf_core_dispatch
DspTake ==
    /\ th[Dsp].pc = "idle" /\ interim # <<>>
    /\ interim' = Tail(interim)
    /\ LET m == Head(interim)
       IN  \/ /\ m.dst = Proxy
              /\ ProxyCommand(m)
              /\ UNCHANGED <<sched, th, wrong>>
           \/ /\ m.dst # Proxy /\ cmap[m.dst] = None
              /\ Bounce(Dsp, m, SourceAlive(m) /\ ~m.error, <<>>, "drain")
              /\ UNCHANGED <<n_workers, sched, cmap, free, comp, wrong>>
           \/ /\ m.dst # Proxy /\ cmap[m.dst] # None /\ n_workers = 0
              /\ Enter(Dsp, cmap[m.dst], m)
              /\ UNCHANGED <<n_workers, cmap, free>>
           \/ /\ m.dst # Proxy /\ cmap[m.dst] # None /\ n_workers > 0
              /\ th' = [th EXCEPT ![Dsp] =
                          [Idle EXCEPT !.pc = "send", !.to = comp[cmap[m.dst]].priority,
                                       !.item = [comp |-> cmap[m.dst], msg |-> m]]]
              /\ wrong' = wrong \cup ReadAs(Dsp, m.dst)
              /\ UNCHANGED <<n_workers, sched, cmap, free, comp, app>>
    /\ UNCHANGED <<queue, local>>

-----------------------------------------------------------------------------
(* The application: what it may ask, one thing after the other where that  *)
(* needs the answer of the one before                                      *)
Alive(o) == o # None /\ comp[o].life = "live"

Ask(op, i, arg) ==
    /\ Cardinality(app.open) < MaxAsked
    /\ interim' = Append(interim, [Message(op, Proxy, i, None, app.asked + 1) EXCEPT
                                     !.arg = arg, !.meant = IF i = Proxy THEN None ELSE app.known[i]])
    /\ UNCHANGED <<n_workers, queue, local, sched, cmap, free, comp, th, wrong>>

Asked == [app EXCEPT !.asked = @ + 1, !.open = @ \cup {app.asked + 1}]

Connected(i) == \E o \in Objects : Alive(o) /\ comp[o].peer # None /\ i \in {comp[o].id, comp[o].peer}

AskPriorities ==
    /\ n_workers = 0 /\ app.open = {} /\ (app.asked = 0 \/ "late" \in Faults)
    /\ Ask("PRIORITIES", Proxy, Keep)
    /\ app' = Asked

AskRegister ==
    /\ ~app.registering /\ app.open = {} /\ NextObject <= MaxObjects
    /\ \/ "reuse" \in Faults
       \/ \A o \in Objects : Alive(o) /\ comp[o].peer # None => Alive(comp[o].mate)
    /\ Ask("REGISTER", Proxy, Keep)
    /\ app' = [Asked EXCEPT !.registering = TRUE]

Refusable(arg) == arg # Keep /\ arg + 1 >= n_workers

AskSetParam(i, arg) ==
    /\ app.open = {} /\ Alive(app.known[i]) /\ ~comp[app.known[i]].ready
    /\ Refusable(arg) => app.changes < MaxChanges
    /\ Ask("SET_PARAM", i, arg)
    /\ app' = [Asked EXCEPT !.changes = IF Refusable(arg) THEN @ + 1 ELSE @]

AskChange(i, arg) ==
    /\ ~app.registering /\ Alive(app.known[i]) /\ comp[app.known[i]].ready
    /\ app.changes < MaxChanges
    /\ (Connected(i) \/ app.open # {}) => "routed" \in Faults
    /\ Ask("SET_PARAM", i, arg)
    /\ app' = [Asked EXCEPT !.changes = @ + 1]

AskRoute(i, j) ==
    /\ app.open = {} /\ i # j
    /\ \A k \in {i, j} : Alive(app.known[k]) /\ comp[app.known[k]].ready
    /\ comp[app.known[i]].peer = None /\ comp[app.known[j]].peer = None
    /\ Ask("ROUTE", i, j)
    /\ app' = Asked

AskCommand(i) ==
    /\ ~app.registering /\ app.known[i] # None /\ app.plain < MaxCommands
    /\ Ask("COMMAND", i, Keep)
    /\ app' = [Asked EXCEPT !.plain = @ + 1]

AskUnregister(i) ==
    /\ ~app.registering /\ app.known[i] # None
    /\ Ask("UNREGISTER", i, Keep)
    /\ app' = [Asked EXCEPT !.known[i] = None]

Application ==
    \/ AskPriorities \/ AskRegister
    \/ \E i \in Clients :
        \/ \E arg \in {Keep} \cup (0 .. NWorkers - 1) : AskSetParam(i, arg)
        \/ \E arg \in 0 .. NWorkers - 2 : AskChange(i, arg)
        \/ \E j \in Clients : AskRoute(i, j)
        \/ AskCommand(i) \/ AskUnregister(i)

Thread(t) ==
    \/ Submit(t) \/ Send(t) \/ Finish(t) \/ Execute(t)
    \/ Raise(t) \/ Mark(t) \/ Purge(t) \/ PurgeOver(t) \/ Move(t) \/ MoveOver(t)

Worker(w) == Thread(w) \/ Receive(w) \/ Drain(w)

\* a step of the thread that has the processor
Running ==
    \/ Runs(Dsp) /\ (Thread(Dsp) \/ DspTake)
    \/ \E w \in Pool : Runs(w) /\ Worker(w)

Next == Application \/ Running

Spec == Init /\ [][Next]_vars

\* the processor goes on as long as a thread can
FairSpec == Spec /\ WF_vars(Running)

-----------------------------------------------------------------------------
Messages ==
    LET Of(t) == Append(th[t].todo, th[t].item.msg)
        Queued(w) == [k \in DOMAIN queue[w] |-> queue[w][k].msg] \o local[w]
        Held(o) == Append(comp[o].held, IF comp[o].life = "live" THEN comp[o].cause ELSE NoMsg)
    IN  interim \o FlattenSeq([t \in 1 .. NWorkers + 1 |-> Of(t - 1)])
        \o FlattenSeq([w \in 1 .. NWorkers |-> Queued(w - 1)])
        \o FlattenSeq([o \in 1 .. MaxObjects |-> Held(o)])

Places(Test(_)) == Len(SelectSeq(Messages, Test))

TypeOK ==
    /\ n_workers \in {0, NWorkers}
    /\ \A w \in Pool : Len(queue[w]) <= Room
    /\ sched \in [Threads -> SUBSET Objects]
    /\ cmap \in [Clients -> Objects \cup {None}]
    /\ free \in Seq(Clients)
    /\ \A o \in Objects : comp[o].priority \in Pool /\ comp[o].home \in 0 .. Buffers
    /\ \A t \in Threads : th[t].comp \in Objects \cup {None} /\ th[t].raised \in BOOLEAN

\* An id is free or it is in use, and every component that is there is found
\* by its id: a message to it cannot miss it.
TableSound ==
    /\ IsInjective(free)
    /\ \A i \in Clients : (\E k \in DOMAIN free : free[k] = i) <=> cmap[i] = None
    /\ \A o \in Objects : Alive(o) => cmap[comp[o].id] = o

\* Nobody executes a component that is released or sends it a message, and no
\* message is handled by another component than the one it was meant for,
\* although messages wait in several queues while components come and go
\* (xf-core.c:747). Of its released memory nothing is read but the priority, by
\* the purge that is part of its own end (xf-core.c:1078).
NoMisuse == wrong \subseteq {"read by its own purge"}

\* The priority of a component is not read once its memory is free, being kept
\* for what comes after (xf-core.c:828: "capture value before component memory is
\* freed").
NotReadWhenFree == "read by its own purge" \notin wrong

\* No two threads are in the handlers of one component, whose state has no lock,
\* although it moves from worker to worker.  The thread that has moved it is an
\* exception: it lowers itself before it has answered, and the new worker, if it
\* ranks higher and has messages, starts at once (xa-class-base.c:304).
Inside(t) == IF th[t].pc = "changed" THEN None ELSE th[t].comp
OneThread ==
    \A t, u \in Threads : t # u /\ Inside(t) # None => Inside(t) # Inside(u)

\* Commands and buffers reach a component in the order they were sent in, on
\* whichever of two queues they go and whatever is moved between them: none waits
\* that is older than one that was handled.
InOrder ==
    /\ \A w \in Pool : \A k \in DOMAIN queue[w] :
        LET m == queue[w][k].msg
            o == queue[w][k].comp
        IN  o # None /\ Alive(o) /\ m.src = Proxy => m.serial > comp[o].seen
    /\ \A o \in Objects : Alive(o) /\ Alive(comp[o].mate) =>
        Places(LAMBDA m : m.owner = o /\ m.op = "EMPTY" /\ m.serial <= comp[comp[o].mate].heard)
            = Len(SelectSeq(comp[comp[o].mate].held, LAMBDA m : m.owner = o))

\* Every unanswered command is in one place, and so is every buffer of a source:
\* what a component's end leaves in a queue is answered, or returned.
NothingLost ==
    /\ \A k \in app.open : Places(LAMBDA m : m.owner = None /\ m.serial = k) = 1
    /\ \A o \in Objects : Alive(o) /\ comp[o].peer # None =>
        comp[o].home + Places(LAMBDA m : m.owner = o /\ m.op \in {"EMPTY", "FILL"}) = Buffers

\* A component is released, with its buffers, only when none of them, and no
\* flush, is under way or held by its sink.
BuffersHome ==
    \A o \in Objects : comp[o].life = "dead" => Places(LAMBDA m : m.owner = o) = 0

\* A component that is scheduled is in the tree of its worker and in no other's
\* (xf-core.c:458), and no worker waits for messages with a task in its tree: the
\* wait has no limit and a task does not end it (xa-class-base.c:297).
TasksFound ==
    /\ \A o \in Objects : Alive(o) =>
        \A t \in Threads : o \in sched[t] <=> comp[o].scheduled /\ t = TreeOf(comp[o])
    /\ \A w \in Pool : th[w].pc = "waiting" /\ queue[w] = <<>> => sched[w] = {}

\* Every command is answered, however many components end before they get it,
\* and no thread waits for ever at a full queue: the application is again and
\* again without an open command.
EveryCommandAnswered == []<>(app.open = {})
=============================================================================
