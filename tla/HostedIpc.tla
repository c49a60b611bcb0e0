------------------------------ MODULE HostedIpc ------------------------------
(***************************************************************************)
(* The hosted path between an application and the DSP, end to end: the     *)
(* application's proxy (an opener, writers and one receiving thread), the  *)
(* xtensa-proxy kernel driver (file operations, the work item and the      *)
(* polling thread), the two shared-memory rings and the DSP's core loop    *)
(* with its message transport.  A DSP component is a message in execution  *)
(* that may be completed at any time, in any order.                        *)
(*                                                                         *)
(* A command and its response are one message <<session, seq>>.  The       *)
(* session number exists only in the model: it tells what one opening of   *)
(* the device wrote from what an earlier one left behind.  The two         *)
(* handshake bytes carry it too, 0 standing for the cleared byte.          *)
(***************************************************************************)
EXTENDS Integers, Sequences, SequencesExt, FiniteSets

CONSTANTS QueueLength, CounterMod,  \* of both rings
          HostPoolSize,             \* XF_CFG_MESSAGE_POOL_SIZE of the driver
          DspPoolSize,              \* XF_CFG_MESSAGE_POOL_SIZE of the DSP
          MaxSessions,              \* bound: openings of the device
          MaxCommands,              \* bound: commands written in a session
          MaxOutstanding,           \* bound: commands written and not yet answered
          MayCrash,                 \* may the application end before it has every answer?
          MayStall,                 \* may the work item stall from its check of the handshake
                                    \* until the device has been closed and opened again?
          MayTear,                  \* may a ring be cleared while its consumer is between its
                                    \* copies of the two indices?
          NoMessage, Garbage

Message == (1 .. MaxSessions) \X (1 .. MaxCommands)

ASSUME IpcAssumption ==
    /\ QueueLength \in Nat \ {0} /\ CounterMod \in Nat /\ QueueLength < CounterMod
    /\ Garbage \notin Message /\ NoMessage \notin Message \cup {Garbage}
    /\ {HostPoolSize, DspPoolSize, MaxSessions, MaxCommands, MaxOutstanding} \subseteq Nat \ {0}
    /\ {MayCrash, MayStall, MayTear} \subseteq BOOLEAN

VARIABLES
    cmdRing, cmdProd, cmdCons,  \* command ring, its producer (driver) and consumer (DSP)
    rspRing, rspProd, rspCons,  \* response ring, its producer (DSP) and consumer (driver)
    \* the driver
    client,         \* the one client slot: none, open, zeroCmdRead .. zeroRspWrite (the
                    \* index that xf_client_register zeroes next), registered, closing
                    \* or leaked
    clientQ,        \* client->queue
    free,           \* how many messages proxy->free holds
    command,        \* proxy->command
    workPending,    \* the work item is queued
    worker,         \* xf_proxy_process: [pc, changed, remote]
    kthread,        \* thread_function: none, hello, await or poll
    syncFrom,       \* proxy->sync_from_dsp
    \* bytes of shared memory outside the rings
    hostPattern,    \* IRQOUT_SYN: HOST_TO_DSP_SYNC_PATTERN, by the session that wrote it
    dspPattern,     \* IRQIN_SEL: DSP_TO_HOST_SYNC_PATTERN, by the session it answers
    notified,       \* IRQIN_POL holds DSP_TO_HOST_NOTIFY_PATTERN
    \* the application
    session, written, outstanding,
    receiver,       \* its receiving thread: none, poll, sleep (in select) or read
    \* the DSP
    dsp,            \* the core loop: [pc, changed, remote, served, fresh, seen]
    dspEvent,       \* CMD_MSGQ_READY
    dspFree,        \* how many messages the DSP's pool holds
    local,          \* the core's interim queue of messages to dispatch
    executing,      \* messages held by components
    remote          \* rw->remote, the responses to send

ringVars == <<cmdRing, cmdProd, cmdCons, rspRing, rspProd, rspCons>>
driverVars == <<client, clientQ, free, command, workPending, worker, kthread, syncFrom>>
byteVars == <<hostPattern, dspPattern, notified>>
appVars == <<session, written, outstanding, receiver>>
dspVars == <<dsp, dspEvent, dspFree, local, executing, remote>>
vars == <<ringVars, driverVars, byteVars, appVars, dspVars>>

Cmd == INSTANCE ShmemRing WITH Messages <- Message \cup {Garbage}, Nothing <- NoMessage,
                               ring <- cmdRing, prod <- cmdProd, cons <- cmdCons
Rsp == INSTANCE ShmemRing WITH Messages <- Message \cup {Garbage}, Nothing <- NoMessage,
                               ring <- rspRing, prod <- rspProd, cons <- rspCons

-----------------------------------------------------------------------------
\* xf_proxy_init on the driver's side; the DSP has not yet run
Init ==
    /\ cmdRing = [slots |-> [s \in Cmd!Slot |-> Garbage], read |-> Cmd!Start, write |-> Cmd!Start]
    /\ cmdProd = [pc |-> "idle", r |-> Cmd!Start, w |-> Cmd!Start]
    /\ cmdCons = [pc |-> "idle", r |-> Cmd!Start, w |-> Cmd!Start, msg |-> NoMessage]
    /\ rspRing = cmdRing /\ rspProd = cmdProd /\ rspCons = cmdCons
    /\ client = "none" /\ clientQ = <<>> /\ free = HostPoolSize /\ command = <<>>
    /\ workPending = FALSE
    /\ worker = [pc |-> "idle", changed |-> FALSE, remote |-> FALSE]
    /\ kthread = "none" /\ syncFrom = FALSE
    /\ hostPattern = 0 /\ dspPattern = 0 /\ notified = FALSE
    /\ session = 0 /\ written = 0 /\ outstanding = {} /\ receiver = "none"
    /\ dsp = [pc |-> "boot", changed |-> FALSE, remote |-> FALSE, served |-> FALSE,
              fresh |-> TRUE, seen |-> 0]
    /\ dspEvent = FALSE /\ dspFree = DspPoolSize
    /\ local = <<>> /\ executing = {} /\ remote = <<>>

\* proxy->lock is held by the work item from one end of xf_proxy_process to
\* the other; every other critical section is a single step
Unlocked == worker.pc \notin {"sync", "commands", "responses"}

\* a client attached to the proxy: xf_cmap gives it messages
Attached == {"zeroCmdRead", "zeroCmdWrite", "zeroRspRead", "zeroRspWrite", "registered", "closing"}

\* a consumer's copying of the two indices may run into the clearing of its
\* ring only when the model lets it
MayClear(cons) == MayTear \/ cons.pc # "reading"

\* mutant: the wake-up is lost
Woken_Lost == receiver

\* wake_up(&client->wait): select calls xf_poll again
Woken == IF receiver = "sleep" THEN "poll" ELSE receiver

-----------------------------------------------------------------------------
(* The application and the driver's file operations                        *)

Open ==
    /\ client = "none" /\ session < MaxSessions
    /\ MayStall \/ worker.pc # "locking"
    /\ client' = "open" /\ clientQ' = <<>> /\ kthread' = "hello"
    /\ session' = session + 1 /\ written' = 0 /\ outstanding' = {}
    /\ UNCHANGED <<ringVars, free, command, workPending, worker, syncFrom, byteVars,
                   receiver, dspVars>>

\* XF_PROXY_SETUP_IOCTL; xf_client_register takes no lock.  It attaches the
\* client and forgets the messages in the command queue, and then zeroes the
\* indices of both rings one after the other.
Setup ==
    /\ client = "open"
    /\ client' = "zeroCmdRead" /\ command' = <<>>
    /\ UNCHANGED <<ringVars, clientQ, free, workPending, worker, kthread, syncFrom, byteVars,
                   appVars, dspVars>>

ZeroCmdRead ==
    /\ client = "zeroCmdRead" /\ MayClear(cmdCons)
    /\ client' = "zeroCmdWrite"
    /\ cmdRing' = [cmdRing EXCEPT !.read = Cmd!Start]
    /\ UNCHANGED <<cmdProd, cmdCons, rspRing, rspProd, rspCons, clientQ, free, command,
                   workPending, worker, kthread, syncFrom, byteVars, appVars, dspVars>>

ZeroCmdWrite ==
    /\ client = "zeroCmdWrite"
    /\ client' = "zeroRspRead"
    /\ cmdRing' = [cmdRing EXCEPT !.write = Cmd!Start]
    /\ UNCHANGED <<cmdProd, cmdCons, rspRing, rspProd, rspCons, clientQ, free, command,
                   workPending, worker, kthread, syncFrom, byteVars, appVars, dspVars>>

ZeroRspRead ==
    /\ client = "zeroRspRead" /\ MayClear(rspCons)
    /\ client' = "zeroRspWrite"
    /\ rspRing' = [rspRing EXCEPT !.read = Rsp!Start]
    /\ UNCHANGED <<cmdRing, cmdProd, cmdCons, rspProd, rspCons, clientQ, free, command,
                   workPending, worker, kthread, syncFrom, byteVars, appVars, dspVars>>

\* mutant: the index that the DSP writes is left as it was
ZeroRspWrite_NotOwn ==
    /\ client = "zeroRspWrite"
    /\ client' = "registered" /\ receiver' = "poll"
    /\ UNCHANGED <<ringVars, clientQ, free, command, workPending, worker, kthread, syncFrom,
                   byteVars, session, written, outstanding, dspVars>>

\* the last index, and the application has its device
ZeroRspWrite ==
    /\ client = "zeroRspWrite"
    /\ client' = "registered" /\ receiver' = "poll"
    /\ rspRing' = [rspRing EXCEPT !.write = Rsp!Start]
    /\ UNCHANGED <<cmdRing, cmdProd, cmdCons, rspProd, rspCons, clientQ, free, command,
                   workPending, worker, kthread, syncFrom, byteVars, session, written,
                   outstanding, dspVars>>

Clear == ZeroCmdRead \/ ZeroCmdWrite \/ ZeroRspRead \/ ZeroRspWrite

\* a writer waits for a free message, and notifies only if the queue was empty
Write ==
    /\ client = "registered" /\ Unlocked /\ free > 0
    /\ written < MaxCommands /\ Cardinality(outstanding) < MaxOutstanding
    /\ command' = Append(command, <<session, written + 1>>)
    /\ free' = free - 1
    /\ workPending' = (workPending \/ command = <<>>)
    /\ written' = written + 1
    /\ outstanding' = outstanding \cup {<<session, written + 1>>}
    /\ UNCHANGED <<ringVars, client, clientQ, worker, kthread, syncFrom, byteVars, session,
                   receiver, dspVars>>

\* the mask is computed before the work item is notified
Poll ==
    /\ client = "registered" /\ receiver = "poll" /\ Unlocked
    /\ receiver' = IF clientQ # <<>> THEN "read" ELSE "sleep"
    /\ workPending' = TRUE
    /\ UNCHANGED <<ringVars, client, clientQ, free, command, worker, kthread, syncFrom,
                   byteVars, session, written, outstanding, dspVars>>

Read ==
    /\ client = "registered" /\ receiver = "read" /\ Unlocked
    /\ IF clientQ = <<>>
       THEN UNCHANGED <<clientQ, free, outstanding>>
       ELSE /\ clientQ' = Tail(clientQ) /\ free' = free + 1
            /\ outstanding' = outstanding \ {Head(clientQ)}
    /\ receiver' = "poll"
    /\ UNCHANGED <<ringVars, client, command, workPending, worker, kthread, syncFrom,
                   byteVars, session, written, dspVars>>

\* mutant: the DSP's answer to the handshake is not cleared
Close_KeepsAnswer ==
    /\ client = "registered" /\ written > 0 /\ outstanding = {}
    /\ receiver' = "none" /\ client' = "closing" /\ kthread' = "none"
    /\ syncFrom' = FALSE /\ hostPattern' = 0
    /\ UNCHANGED <<ringVars, clientQ, free, command, workPending, worker, dspPattern, notified,
                   session, written, outstanding, dspVars>>

\* xf_release up to the lock; nothing is released before SETUP
Close ==
    /\ \/ client = "registered" /\ (MayCrash \/ (written > 0 /\ outstanding = {}))
       \/ client = "open" /\ MayCrash
    /\ receiver' = "none"
    /\ IF client = "open"
       THEN client' = "leaked" /\ UNCHANGED <<kthread, syncFrom, hostPattern, dspPattern>>
       ELSE /\ client' = "closing" /\ kthread' = "none" /\ syncFrom' = FALSE
            /\ hostPattern' = 0 /\ dspPattern' = 0
    /\ UNCHANGED <<ringVars, clientQ, free, command, workPending, worker, notified, session,
                   written, outstanding, dspVars>>

Release ==
    /\ client = "closing" /\ Unlocked
    /\ client' = "none" /\ clientQ' = <<>> /\ free' = free + Len(clientQ)
    /\ UNCHANGED <<ringVars, command, workPending, worker, kthread, syncFrom, byteVars,
                   appVars, dspVars>>

App == Open \/ Setup \/ Clear \/ Write \/ Close \/ Release

-----------------------------------------------------------------------------
(* The driver's polling thread                                             *)

KthreadHello ==
    /\ kthread = "hello"
    /\ hostPattern' = session /\ dspEvent' = TRUE /\ kthread' = "await"
    /\ UNCHANGED <<ringVars, client, clientQ, free, command, workPending, worker, syncFrom,
                   dspPattern, notified, appVars, dsp, dspFree, local, executing, remote>>

KthreadSync ==
    /\ kthread = "await" /\ dspPattern # 0
    /\ syncFrom' = TRUE /\ workPending' = TRUE /\ kthread' = "poll"
    /\ UNCHANGED <<ringVars, client, clientQ, free, command, worker, byteVars, appVars, dspVars>>

KthreadPoll ==
    /\ kthread = "poll" /\ notified /\ receiver = "sleep"
    /\ receiver' = Woken
    /\ UNCHANGED <<ringVars, driverVars, byteVars, session, written, outstanding, dspVars>>

-----------------------------------------------------------------------------
(* The driver's work item, xf_proxy_process                                *)

\* mutant: the handshake is not waited for
WorkStart_NoCheck ==
    /\ workPending /\ worker.pc = "idle"
    /\ workPending' = FALSE
    /\ worker' = [worker EXCEPT !.pc = "locking"]
    /\ UNCHANGED <<ringVars, client, clientQ, free, command, kthread, syncFrom, byteVars,
                   appVars, dspVars>>

WorkStart ==
    /\ workPending /\ worker.pc = "idle"
    /\ workPending' = FALSE
    /\ worker' = IF syncFrom THEN [worker EXCEPT !.pc = "locking"] ELSE worker
    /\ UNCHANGED <<ringVars, client, clientQ, free, command, kthread, syncFrom, byteVars,
                   appVars, dspVars>>

WorkSyncCommands ==
    /\ worker.pc \in {"locking", "sync"}
    /\ Cmd!ProducerSync
    /\ worker' = [pc |-> "commands", changed |-> FALSE, remote |-> FALSE]
    /\ UNCHANGED <<rspRing, rspProd, rspCons, client, clientQ, free, command, workPending,
                   kthread, syncFrom, byteVars, appVars, dspVars>>

WorkReadCommandsPeer ==
    /\ worker.pc = "commands"
    /\ Cmd!ProducerReadPeer
    /\ UNCHANGED <<rspRing, rspProd, rspCons, driverVars, byteVars, appVars, dspVars>>

\* mutant: the descriptor is not returned to the pool
WorkPutCommand_Leaks ==
    /\ worker.pc = "commands" /\ command # <<>>
    /\ Cmd!ProducerFill(Head(command))
    /\ command' = Tail(command)
    /\ worker' = [worker EXCEPT !.changed = TRUE, !.remote = TRUE]
    /\ UNCHANGED <<rspRing, rspProd, rspCons, client, clientQ, free, workPending, kthread,
                   syncFrom, byteVars, appVars, dspVars>>

WorkPutCommand ==
    /\ worker.pc = "commands" /\ command # <<>>
    /\ Cmd!ProducerFill(Head(command))
    /\ command' = Tail(command) /\ free' = free + 1
    /\ worker' = [worker EXCEPT !.changed = TRUE, !.remote = TRUE]
    /\ UNCHANGED <<rspRing, rspProd, rspCons, client, clientQ, workPending, kthread, syncFrom,
                   byteVars, appVars, dspVars>>

WorkPublishCommand ==
    /\ worker.pc = "commands"
    /\ Cmd!ProducerPublish
    /\ UNCHANGED <<rspRing, rspProd, rspCons, driverVars, byteVars, appVars, dspVars>>

WorkSyncResponses ==
    /\ worker.pc = "commands"
    /\ command = <<>> \/ Cmd!Full(cmdProd.r, cmdProd.w)
    /\ MayTear \/ client # "zeroRspWrite"
    /\ Cmd!ProducerStop /\ Rsp!ConsumerSync
    /\ worker' = [worker EXCEPT !.pc = "responses"]
    /\ UNCHANGED <<client, clientQ, free, command, workPending, kthread, syncFrom, byteVars,
                   appVars, dspVars>>

WorkReadResponsesPeer ==
    /\ worker.pc = "responses"
    /\ Rsp!ConsumerReadPeer
    /\ UNCHANGED <<cmdRing, cmdProd, cmdCons, driverVars, byteVars, appVars, dspVars>>

\* the DSP is to be told only if the ring was full by the copied indices
WorkTakeResponse ==
    /\ worker.pc = "responses" /\ free > 0
    /\ Rsp!ConsumerTake
    /\ free' = free - 1
    /\ worker' = [worker EXCEPT !.changed = TRUE,
                                !.remote = @ \/ Rsp!Full(rspCons.r, rspCons.w)]
    /\ UNCHANGED <<cmdRing, cmdProd, cmdCons, client, clientQ, command, workPending, kthread,
                   syncFrom, byteVars, appVars, dspVars>>

\* the read index is published and xf_cmap gives the message to the client,
\* or drops it: there may be no attached client, and the client number in
\* a message nobody wrote is anything
WorkGiveResponse ==
    /\ worker.pc = "responses"
    /\ Rsp!ConsumerPublish
    /\ \/ /\ client \in Attached
          /\ clientQ' = Append(clientQ, rspCons.msg)
          /\ receiver' = IF clientQ = <<>> THEN Woken ELSE receiver
          /\ UNCHANGED free
       \/ /\ client \notin Attached \/ rspCons.msg = Garbage
          /\ free' = free + 1
          /\ UNCHANGED <<clientQ, receiver>>
    /\ UNCHANGED <<cmdRing, cmdProd, cmdCons, client, command, workPending, worker, kthread,
                   syncFrom, byteVars, session, written, outstanding, dspVars>>

WorkEnd ==
    /\ worker.pc = "responses"
    /\ free = 0 \/ Rsp!Empty(rspCons.r, rspCons.w)
    /\ Rsp!ConsumerStop
    /\ dspEvent' = (dspEvent \/ worker.remote)
    /\ worker' = [pc |-> IF worker.changed THEN "sync" ELSE "idle",
                  changed |-> FALSE, remote |-> FALSE]
    /\ UNCHANGED <<cmdRing, cmdProd, cmdCons, client, clientQ, free, command, workPending,
                   kthread, syncFrom, byteVars, appVars, dsp, dspFree, local, executing, remote>>

Work == WorkStart \/ WorkSyncCommands \/ WorkReadCommandsPeer \/ WorkPutCommand
          \/ WorkPublishCommand \/ WorkSyncResponses \/ WorkReadResponsesPeer
          \/ WorkTakeResponse \/ WorkGiveResponse \/ WorkEnd

-----------------------------------------------------------------------------
(* The DSP: xf_core_loop, xf_core_service and xf_shmem_process_queues      *)

\* everything the DSP held is initialised again; the event is created anew
\* but an interrupt held back meanwhile may set it
DspBoot ==
    /\ dsp.pc = "boot"
    /\ dspFree' = DspPoolSize /\ local' = <<>> /\ executing' = {} /\ remote' = <<>>
    /\ dspEvent' \in {FALSE, dspEvent}
    /\ dsp' = [dsp EXCEPT !.pc = IF hostPattern # 0 THEN "ack" ELSE "wait",
                          !.fresh = TRUE, !.seen = hostPattern]
    /\ UNCHANGED <<ringVars, driverVars, byteVars, appVars>>

\* the answer is written before the host's pattern is cleared
DspAck ==
    /\ dsp.pc = "ack"
    /\ dspPattern' = dsp.seen
    /\ dsp' = [dsp EXCEPT !.pc = "clear"]
    /\ UNCHANGED <<ringVars, driverVars, hostPattern, notified, appVars, dspEvent, dspFree,
                   local, executing, remote>>

DspClear ==
    /\ dsp.pc = "clear"
    /\ hostPattern' = 0
    /\ dsp' = [dsp EXCEPT !.pc = "wait", !.fresh = FALSE, !.seen = 0]
    /\ UNCHANGED <<ringVars, driverVars, dspPattern, notified, appVars, dspEvent, dspFree,
                   local, executing, remote>>

\* a pattern seen once the DSP has been in use makes it start over
DspWake ==
    /\ dsp.pc = "wait" /\ dspEvent
    /\ dspEvent' = FALSE
    /\ dsp' = IF hostPattern = 0 THEN [dsp EXCEPT !.pc = "sync"]
              ELSE IF dsp.fresh THEN [dsp EXCEPT !.pc = "ack", !.seen = hostPattern]
              ELSE [dsp EXCEPT !.pc = "boot"]
    /\ UNCHANGED <<ringVars, driverVars, byteVars, appVars, dspFree, local, executing, remote>>

DspSyncOutput ==
    /\ dsp.pc = "sync"
    /\ Rsp!ProducerSync
    /\ dsp' = [dsp EXCEPT !.pc = "output", !.changed = FALSE, !.remote = FALSE]
    /\ UNCHANGED <<cmdRing, cmdProd, cmdCons, driverVars, byteVars, appVars, dspEvent, dspFree,
                   local, executing, remote>>

DspReadOutputPeer ==
    /\ dsp.pc = "output"
    /\ Rsp!ProducerReadPeer
    /\ UNCHANGED <<cmdRing, cmdProd, cmdCons, driverVars, byteVars, appVars, dspVars>>

\* mutant: the descriptor is not returned to the pool
DspPutResponse_Leaks ==
    /\ dsp.pc = "output" /\ remote # <<>>
    /\ Rsp!ProducerFill(Head(remote))
    /\ remote' = Tail(remote)
    /\ dsp' = [dsp EXCEPT !.changed = TRUE, !.remote = TRUE]
    /\ UNCHANGED <<cmdRing, cmdProd, cmdCons, driverVars, byteVars, appVars, dspEvent, dspFree,
                   local, executing>>

DspPutResponse ==
    /\ dsp.pc = "output" /\ remote # <<>>
    /\ Rsp!ProducerFill(Head(remote))
    /\ remote' = Tail(remote) /\ dspFree' = dspFree + 1
    /\ dsp' = [dsp EXCEPT !.changed = TRUE, !.remote = TRUE]
    /\ UNCHANGED <<cmdRing, cmdProd, cmdCons, driverVars, byteVars, appVars, dspEvent, local,
                   executing>>

DspPublishResponse ==
    /\ dsp.pc = "output"
    /\ Rsp!ProducerPublish
    /\ UNCHANGED <<cmdRing, cmdProd, cmdCons, driverVars, byteVars, appVars, dspVars>>

DspSyncInput ==
    /\ dsp.pc = "output"
    /\ remote = <<>> \/ Rsp!Full(rspProd.r, rspProd.w)
    /\ MayTear \/ client # "zeroCmdWrite"
    /\ Rsp!ProducerStop /\ Cmd!ConsumerSync
    /\ dsp' = [dsp EXCEPT !.pc = "input"]
    /\ UNCHANGED <<driverVars, byteVars, appVars, dspEvent, dspFree, local, executing, remote>>

DspReadInputPeer ==
    /\ dsp.pc = "input"
    /\ Cmd!ConsumerReadPeer
    /\ UNCHANGED <<rspRing, rspProd, rspCons, driverVars, byteVars, appVars, dspVars>>

\* the host is to be told only if the ring was full by the copied indices
DspTakeCommand ==
    /\ dsp.pc = "input" /\ dspFree > 0
    /\ Cmd!ConsumerTake
    /\ dspFree' = dspFree - 1
    /\ dsp' = [dsp EXCEPT !.changed = TRUE,
                          !.remote = @ \/ Cmd!Full(cmdCons.r, cmdCons.w)]
    /\ UNCHANGED <<rspRing, rspProd, rspCons, driverVars, byteVars, appVars, dspEvent, local,
                   executing, remote>>

\* the read index is published and xf_msg_submit queues the message
DspSubmitCommand ==
    /\ dsp.pc = "input"
    /\ Cmd!ConsumerPublish
    /\ local' = Append(local, cmdCons.msg)
    /\ UNCHANGED <<rspRing, rspProd, rspCons, driverVars, byteVars, appVars, dsp, dspEvent,
                   dspFree, executing, remote>>

DspEndInput ==
    /\ dsp.pc = "input"
    /\ dspFree = 0 \/ Cmd!Empty(cmdCons.r, cmdCons.w)
    /\ Cmd!ConsumerStop
    /\ notified' = (notified \/ dsp.remote)
    /\ dsp' = [dsp EXCEPT !.pc = IF dsp.changed THEN "sync" ELSE "dispatch",
                          !.changed = FALSE, !.remote = FALSE]
    /\ UNCHANGED <<rspRing, rspProd, rspCons, driverVars, hostPattern, dspPattern, appVars,
                   dspEvent, dspFree, local, executing, remote>>

DspDispatch ==
    /\ dsp.pc = "dispatch" /\ local # <<>>
    /\ local' = Tail(local) /\ executing' = executing \cup {Head(local)}
    /\ dsp' = [dsp EXCEPT !.served = TRUE]
    /\ UNCHANGED <<ringVars, driverVars, byteVars, appVars, dspEvent, dspFree, remote>>

\* another round of xf_core_service if this one dispatched something
DspEndService ==
    /\ dsp.pc = "dispatch" /\ local = <<>>
    /\ dsp' = [dsp EXCEPT !.pc = IF dsp.served THEN "sync" ELSE "wait", !.served = FALSE]
    /\ UNCHANGED <<ringVars, driverVars, byteVars, appVars, dspEvent, dspFree, local,
                   executing, remote>>

\* a component completes a message, in the core's thread or in a worker's
DspComplete ==
    /\ \E m \in executing : executing' = executing \ {m} /\ remote' = Append(remote, m)
    /\ dspEvent' = TRUE
    /\ UNCHANGED <<ringVars, driverVars, byteVars, appVars, dsp, dspFree, local>>

Dsp == DspBoot \/ DspAck \/ DspClear \/ DspWake \/ DspSyncOutput \/ DspReadOutputPeer
         \/ DspPutResponse \/ DspPublishResponse \/ DspSyncInput \/ DspReadInputPeer
         \/ DspTakeCommand \/ DspSubmitCommand \/ DspEndInput \/ DspDispatch \/ DspEndService

-----------------------------------------------------------------------------
Next == App \/ Poll \/ Read \/ KthreadHello \/ KthreadSync \/ KthreadPoll
          \/ Work \/ Dsp \/ DspComplete

(* Every thread that can run is scheduled, the application's receiving     *)
(* thread reads what it is given, xf_client_register and xf_release run to *)
(* their ends, and components answer.  The application need not open,      *)
(* write or close.                                                         *)
Fairness ==
    /\ WF_vars(Clear) /\ WF_vars(Release) /\ WF_vars(Poll \/ Read)
    /\ WF_vars(KthreadHello \/ KthreadSync) /\ WF_vars(KthreadPoll)
    /\ WF_vars(Work) /\ WF_vars(Dsp) /\ WF_vars(DspComplete)

Spec == Init /\ [][Next]_vars
FairSpec == Spec /\ Fairness
-----------------------------------------------------------------------------
TypeOK ==
    /\ Cmd!TypeOK /\ Rsp!TypeOK
    /\ client \in {"none", "open", "leaked"} \cup Attached
    /\ clientQ \in Seq(Message \cup {Garbage}) /\ command \in Seq(Message)
    /\ free \in 0 .. HostPoolSize /\ dspFree \in 0 .. DspPoolSize
    /\ worker \in [pc : {"idle", "locking", "sync", "commands", "responses"},
                   changed : BOOLEAN, remote : BOOLEAN]
    /\ kthread \in {"none", "hello", "await", "poll"}
    /\ {workPending, syncFrom, notified, dspEvent} \subseteq BOOLEAN
    /\ {hostPattern, dspPattern, session} \subseteq 0 .. MaxSessions
    /\ written \in 0 .. MaxCommands /\ outstanding \subseteq Message
    /\ receiver \in {"none", "poll", "sleep", "read"}
    /\ dsp \in [pc : {"boot", "ack", "clear", "wait", "sync", "output", "input", "dispatch"},
                changed : BOOLEAN, remote : BOOLEAN, served : BOOLEAN, fresh : BOOLEAN,
                seen : 0 .. MaxSessions]
    /\ {local, remote} \subseteq Seq(Message \cup {Garbage})
    /\ executing \subseteq Message \cup {Garbage}

\* a ring counts as cleared from the first of the two writes that clear it
CmdMem == IF client = "zeroCmdWrite" THEN [cmdRing EXCEPT !.write = Cmd!Start] ELSE cmdRing
RspMem == IF client = "zeroRspWrite" THEN [rspRing EXCEPT !.write = Rsp!Start] ELSE rspRing

InCmd == INSTANCE ShmemRing WITH Messages <- Message \cup {Garbage}, Nothing <- NoMessage,
                                 ring <- CmdMem, prod <- cmdProd, cons <- cmdCons
InRsp == INSTANCE ShmemRing WITH Messages <- Message \cup {Garbage}, Nothing <- NoMessage,
                                 ring <- RspMem, prod <- rspProd, cons <- rspCons

\* the message a producer has put in a slot and not yet published
Filled(ring, prod) == IF prod.pc = "filled" THEN <<ring.slots[prod.w.slot]>> ELSE <<>>

\* the commands on their way to a component and the responses on their way
\* to the application, in the order in which they will arrive
CommandsOnTheWay  == local \o InCmd!Pending \o Filled(cmdRing, cmdProd) \o command
ResponsesOnTheWay == clientQ \o InRsp!Pending \o Filled(rspRing, rspProd) \o remote

\* No message is lost, duplicated or left over from an earlier session: each
\* command written and not yet answered is in exactly one place between the
\* writer and the reader, and there is nothing else in any of them.
EveryMessageOnce ==
    LET queued == CommandsOnTheWay \o ResponsesOnTheWay
    IN  /\ ToSet(queued) \cup executing = outstanding
        /\ Len(queued) + Cardinality(executing) = Cardinality(outstanding)

\* Across the driver, both rings and the DSP's queues, the path is the service
\* an application relies on: commands start in the order of writing, answers
\* arrive in the order of completion, each once and in its own session.
Service == INSTANCE CommandService WITH queue <- CommandsOnTheWay, answers <- ResponsesOnTheWay

ImplementsService == Service!Spec

\* A descriptor of the driver's pool is free or in one of the queues or in
\* the hand of the work item: none is ever lost.
HostPoolConserved ==
    free + Len(command) + Len(clientQ) + (IF rspCons.pc = "taken" THEN 1 ELSE 0) = HostPoolSize

\* The same of the DSP's pool.
DspPoolConserved ==
    dspFree + Len(local) + Cardinality(executing) + Len(remote)
        + (IF cmdCons.pc = "taken" THEN 1 ELSE 0) = DspPoolSize

\* When the driver takes the DSP as synchronised, the DSP has answered the
\* handshake of this opening of the device, not that of an earlier one.
SyncIsFresh == syncFrom => dspPattern = session

\* No command of a session gets to the DSP before the handshake of the session
\* is complete: a DSP still to be restarted would forget it.
CommandsAwaitSync ==
    client = "registered" /\ ~syncFrom => outstanding \subseteq ToSet(command)

\* A session receives no response to a command of an earlier one.
FreshStart == ToSet(clientQ) \subseteq {session} \X (1 .. MaxCommands)

\* The DSP is given no command of an earlier session to execute again.
NoReplay == ToSet(local) \cup executing \subseteq {session} \X (1 .. MaxCommands)

\* Every command written is answered, and the answer read.
EveryCommandAnswered ==
    \A m \in Message : m \in outstanding ~> m \notin outstanding
=============================================================================
