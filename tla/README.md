# Hosted XAF: verification project

TLA+ models of the Hosted Xtensa Audio Framework: a Linux application drives
audio components on a HiFi DSP through a kernel driver and a shared memory.
The modules are translated from the sources, checked with TLC on small
instances and, where a theorem is stated, proved with TLAPS for every value of
the constants. `PROJECT.json` lists components, runs, mutants, the line-by-line
map from definitions to code, findings, hazards and theorems.

Source paths below are relative to the repository; `A/` is
`algo/hifi-dpf/src/`, `H/` is `algo/host-apf/src/`, `D` is
`xf_kernel_driver/src/xf-proxy.c`.

## 1. The system

```
application threads          H/xaf-api.c, H/xf-proxy.c
      | write / poll / read  H/xf-fio.c
xtensa-proxy driver (D): client, queues, message pool, work item, polling thread
      | command ring   | response ring   | handshake and notify bytes
DSP transport (A/xf-msgq.c): shared-memory passes, message pool, event
DSP core loop (A/xf-main.c, A/xf-core.c): restart, dispatch, completion
      | scheduler (A/xf-sched.c)    | worker threads and their queues
components (A/xa-class-*.c), their ports (A/xf-io.c), memory (A/xf-mem.c)
```

| Part | State | Operations | What is hard | What makes it correct |
|---|---|---|---|---|
| Shared-memory ring (`xf_kernel_driver/include/xf-proxy.h`, D, `A/xf-msgq.c`) | slots, a write and a read index, each side's copies | copy indices, fill, publish, take, release | no lock between two processors; index wrap in two halves of a word | bounded FIFO; no unread slot overwritten |
| Kernel driver (D) | client slot, client queue, command queue, free pool, work item, polling thread, `sync_from_dsp` | open, setup, write, poll, read, release; work item; polling thread | work item, polling thread and file operations interleave; `xf_client_register` zeroes shared state without a lock; wake-ups | every message once; no descriptor lost; handshake fresh; everything answered |
| DSP transport and core loop (`A/xf-msgq.c`, `A/xf-main.c`, `A/xf-core.c`) | event, pool, interim queue, response queue | output pass, input pass, dispatch, complete, restart | pool and rings full, a pass stopping in the middle, a restart on a handshake | as above |
| Scheduler (`A/xf-sched.c`, `A/rbtree.c`) | a red-black tree with a cached head, a clock in its sentinel | put, get, cancel | wrapping timestamps; rebalancing; the cached head | earliest deadline first; sound tree |
| Allocator (`A/xf-mem.c`, `xf-mem.h`) | free blocks in two trees; a usage counter | alloc, free | merging with two neighbours, in trees whose keys change meanwhile | no overlap; no avoidable fragmentation; best fit |
| Application proxy (`H/xf-proxy.c`, `algo/host-apf/include/xf-proxy.h`) | two locks, auxiliary buffers, client map, handles, wait queues with a pipe and a counter each | open, close, route, unroute, configure, command, pools, statistics; receiving thread | a counter and a condition variable shared with the receiving thread; a time-out, and then the late answer; undoing a call that failed | one call at a time under a lock; an answer is that of the command waited for; no buffer or client lost |
| Application API (`H/xaf-api.c`) | chains of components and their states | create, connect, delete, get status | order of clean-up across components | nothing used after deletion |
| Ports (`A/xf-io.c`) | queues, flags, buffer positions, the pool of a route | put, fill, consume, purge; route, flush, unroute | flushing and unrouting with messages in flight | each message answered once; buffers come home |
| DSP client table and workers (`A/xf-core.c`) | ids, components, a queue, a local queue and a tree for each worker | register, dispatch, submit, complete, purge, clean up, set priorities | a component deleted, or moved to another worker, with messages queued; threads of several priorities | no message to a dead component, none lost, none overtaken; one thread in a component |
| Component base and classes (`A/xa-class-*.c`) | state flags, ports, tracks, the plug-in's view | set-up, configuration, execution, pausing, routing, probing, termination | commands in every state; interrupts of a device | state machine; one task per component; no lost wake-up |
| Interrupts, inter-core IPC, OS layer, tracing | | | | not part of the core logic |

Interaction: the application and the driver share file operations and wake-ups;
the driver and the DSP share the two rings, two handshake bytes, a notify byte
and an interrupt that sets the DSP's event; the DSP's core passes messages to
components by call or through worker queues, and components come back by
`xf_msg_complete` from any thread; components are put into and cancelled from
the scheduler; all memory of the DSP comes from the allocator.

## 2. Modules

| Module | Models | Role |
|---|---|---|
| `ShmemRing` | one direction of the ring | detailed |
| `BoundedFifo` | what a ring promises | abstract |
| `ShmemRing_proofs` | | proofs |
| `HostedIpc` | application threads, driver, two instances of `ShmemRing`, DSP transport and core loop | composition |
| `CommandService` | what the whole path promises | abstract |
| `HostedIpc_proofs`, `CommandService_proofs` | | proofs |
| `RbTree` | `A/rbtree.c` as operators on a record of links and colours | operators |
| `Sched` | `A/xf-sched.c` over `RbTree`, with a component's schedule flag | detailed |
| `EdfQueue` | what the scheduler promises | abstract |
| `Extents` | stretches of memory | shared definitions |
| `MemPool` | `A/xf-mem.c` over two instances of `RbTree` trees | detailed |
| `FreeList` | what the allocator promises | abstract |
| `Ports` | `A/xf-io.c` as operators on a component's record | operators |
| `AudioBase` | `A/xa-class-base.c`, and `xf_core_process_message` | operators |
| `AudioCodec`, `Mixer`, `Mimo`, `Renderer`, `Capturer` | the five classes | operators |
| `AudioClass` | factories, command tables, one round of processing | operators |
| `DataFlow` | a component among its application, feeder, sinks and device | composition |
| `Workers` | the client table, dispatch, worker threads, priorities | detailed |
| `HostProxy` | the application's proxy and its receiving thread | detailed |
| `HostProxy_proofs`, `DataFlow_proofs`, `Wakeup_proofs` | | proofs |
| `DspCore_proofs` | | proofs about `Workers`, `FreeList` and `EdfQueue` |
| `FoldLemmas` | induction over the natural numbers, functions by recursion, folds | lemmas |
| `MC*` | view or constants for TLC | model checking |

### ShmemRing

An index of the code is a 32-bit word: a slot number in the low byte and a
16-bit count in the high half. The model keeps both halves, `[cnt, slot]`, and
wraps each, so that EMPTY and FULL are tested as the code tests them, on the
whole word. Each side copies the indices (`Sync`), works on its copies
(`Fill`, `Take`), publishes its own index after every message (`Publish`), and
leaves the pass (`Stop`). Nothing else synchronises the sides. A side copies its
own index first (`Sync`) and the other's in a step of its own (`ReadPeer`):
`xf_client_register` zeroes the indices of both sides (`D:952`), and may do so
in between. Memory barriers and cache maintenance are taken to do what
they are there for: writes become visible in the order of the code.

### HostedIpc

| Variables | Code |
|---|---|
| `client`, `clientQ`, `free`, `command` | `xf_client_map`, `client->queue`, `proxy->free`, `proxy->command` |
| `worker`, `workPending` | the work item `xf_proxy_process` |
| `kthread`, `syncFrom` | `thread_function`, `sync_from_dsp` |
| `hostPattern`, `dspPattern`, `notified` | the bytes IRQOUT_SYN, IRQIN_SEL and IRQIN_POL |
| `receiver`, `outstanding` | the application's receiving thread; what its writers still wait for |
| `dsp`, `dspEvent`, `dspFree`, `local`, `executing`, `remote` | the core loop, its event, its pool, the interim queue, messages held by components, and the response queue |

`proxy->lock` is held over a whole pass of the work item, so the guard
`Unlocked` closes every other critical section of the driver meanwhile; such a
section is one step. A component is a message in execution which may be
completed at any time, in any order. The session number exists only in the
model and tells which opening of the device wrote a message or a handshake
byte. Memory is never cleared, so a slot nobody wrote holds `Garbage`, and a
response with a garbage client number is delivered or dropped.

`xf_client_register` is five steps without a lock: `Setup` attaches the client
and empties the command queue (`D:936`), and `ZeroCmdRead`, `ZeroCmdWrite`,
`ZeroRspRead` and `ZeroRspWrite` zero one index each (`D:952` to `955`), the
polling thread, the work item and the DSP going on in between. `client` says
which comes next. For the properties a ring counts as empty from the first of its
two writes (`CmdMem`, `RspMem`).

Assumptions are constants. `MayCrash`: may the application close before all
answers are in? `MayStall`: may a work item that has passed its check of
`sync_from_dsp` be held up until the device has been closed and opened again?
`MayTear`: may a ring be cleared while its consumer is between its copies of the
two indices? The run `restart` excludes all three, `full` the first two. The
run `torn_reset` shows what a torn copy costs, and section 5, items 5 to 8, what
early ends and stalls do. Without `MayTear` the writes and the
copies still come in every other order: a producer between its copies, a
consumer that has made both, a pass that begins between two writes. The
DSP keeps running through a session; the response queue of client 0, which no
code reads, and mapping and translation of buffers are left out.

### RbTree, Sched

A tree is a record of child, parent and colour functions; the sentinel holds
the root as its left child and the cached node as its right one, as in
`rbtree.h`. `NoNode` is the NULL of a node never inserted, which `rb_delete`
tests for; `Null` is the sentinel. The operators follow `rb_insert`,
`rb_delete` and `rb_replace` branch by branch, mirror branches being one
definition with a side as a parameter. `Sched` keeps timestamps modulo
`StampMod`, drops their last bit (it is the colour), compares them by the sign
of their difference, and keeps the clock of the sentinel. Tasks are put only by
a component whose `XA_BASE_FLAG_SCHEDULE` is clear, as in `xa_base_schedule`.
Delays are below half of the range, as the comparison by difference needs:
`xf-sched.h` says that the "distance between active items is never high". `CancelTaken` is false with `LOCAL_SCHED`
(the worker that takes a task executes it next) and true without.

### MemPool

A block is known by its address, in units of `sizeof(xf_mm_item)`, and its two
nodes lie in the block. What memory that is not the start of a free block holds
is never read, and is left blank, so that states differ only in what matters.
`Alloc`, `Refuse` and `Free` are the whole of `xf_mem_alloc` and `xf_mem_free`,
the usage counter included. A call holds the pool's lock from one end to the
other, so it is one step; the padding for alignment is part of the sizes asked
for.

### Ports, AudioBase, the classes, AudioClass

A component is one record, and a function of the code is an operator that takes
the record and returns it after the call. Its fields hold the ports with their
queues, flags and positions, the flags of `base->state` and of the tracks, what
the plug-in was told, the messages completed so far (`sent`), and the assertions
that failed (`bugs`): a release build goes on after a failed `BUG`, and so does
the model. Flags are sets and `^=` is a symmetric difference, so that a flag
toggled once too often is seen. What a plug-in computes is abstracted to how
much it consumes and produces, chosen at random within what it was offered.

### DataFlow

One component of a class, its `inbox`, and four correspondents. The application
sends what `xaf-api.c` lets it send, one command at a time, buffers, start
messages, pauses, routes and their removal, probes, deletion. A feeder, if an
input is fed by another component, owns the buffers of its pool and a control
message, as `Ports` says of an output. A sink returns what it got in order,
until it is gone and the core answers for it. The device of a renderer or a
capturer interrupts. Constant `Kinds` has the component and its surroundings:
class, number of ports, size of its internal buffer, which ports are fed and
routed, which may be paused. Field `faults` names what else may happen:

| Name | Meaning |
|---|---|
| `sink`, `feeder` | the other component fails and goes |
| `memory` | a route's pool cannot be allocated |
| `hasty` | a route is removed, or the component deleted, while the flush at the end of the stream is under way |
| `live unroute` | an output is disconnected while the component runs |
| `early flush` | the feeder flushes before the component was started |
| `restart` | an ended stream of a mixer or renderer begins again |
| `probe` | a probe port is paused, or the component deleted, while it is probed |
| `pause at end` | a port is paused whose stream has ended |
| `late interrupt` | a capturer's interrupt comes between its stop and its end |

The run `flow` has `sink` and `feeder`; the others break an assertion or lose a
message in the code as it is, see section 5.

### HostProxy

A call is a sequence of steps of its thread: `GetAux`, `Lock`, `Message`/`Send`,
`Wait` and `Resume` or `Timeout`, `Read`, `Decrement`, and what each function
does after it (`Opens`, `Closes`, `Undone`, `GivesBack`, `Released`). Two returns
keep the buffer they have taken: that of `xf_get_dsp_stats` that failed
(`Undone`), and that of `xf_open` without a pipe (`NoPipe`). The
receiving thread counts a response, announces it and puts it into the pipe of a
wait queue in separate steps. Constant `Setups` has the calls of each thread,
the number of buffers and of clients, and `faults`: `slow` (a response later
than the time-out), `send` (a message is not taken), `refuse` (the DSP answers
with an error), `preempt` (the receiving thread is not of higher priority on
the application's processor), `torn` (a counter is changed by a load and a
store), `pipe` (a wait queue's pipe cannot be made). The driver and the DSP are
what `CommandService` promises.

### Workers

| Variables | Code |
|---|---|
| `cmap`, `free` | `cd->cmap`, `cd->free` |
| `interim`, `queue`, `local` | `cd->queue`, `worker->queue`, `worker->local_msg_queue` |
| `sched` | `worker->sched`, and `cd->sched` at the last index, as sets |
| `comp` | components: state, id, priority, task flag, buffers held and away |
| `th` | the threads: where they are, what they still have to submit, whether their priority is raised |
| `app`, `wrong` | the application; uses of a component that is gone or not the one meant (model only) |

One processor runs the ready thread of the highest priority (`Runs`, `Running`), and a
thread is preempted between any two steps by one of a higher priority. A step
is one call of the operating system, one submission of a message, or one
handler without its submissions. The components are a reduction of `DataFlow`:
a source whose buffers go to a sink and come back, a sink that holds them until
it is executed, termination that waits for a flush. The order of tasks in a
tree is that of `Sched` and left open here.

A released component may still be in the table while its queue is purged.
Whoever looks it up reads its priority from memory that is free
(`SeenPriorities`): what it was, or a pointer of the allocator's, which has its
node there if the block was not merged with the one before, or with `exit` what
another thread has put there. Each such reading is recorded in `wrong`, those by
the purge itself (`A/xf-core.c:782`) under a name of their own.

`Faults` names what the passing run leaves out: `exit` (another thread runs
between the release of a component and the raising of the thread that
released it), `routed` (a priority changes while the component is connected, or
has commands unanswered), `scratch` (no scratch memory for the new priority),
`late` (workers are created after components), `reuse` (an id is given to a new
component while the old one is still addressed).

## 3. Runs

| Run | Instance | Shows | States |
|---|---|---|---|
| `ring` | 3 slots, counter range 4, 2 messages | the ring is a FIFO; unread slots are kept | 11,904 |
| `restart` | 2 sessions of 2 commands, rings of 2, pools of 2 | fresh handshake, queues consistent through a restart, every command answered, `CommandService` implemented | 171 thousand |
| `full` | 1 session of 5 commands, rings of 2, pools of 2 | no message or descriptor lost with everything full | 3.1 million |
| `sched` | 10 tasks, timestamps modulo 8 | sound tree, earliest deadline first | 34 thousand |
| `pool` | 10 units | trees in agreement, `FreeList` implemented: no overlap, merged free memory, best fit | 53 thousand |
| `flow` | 15 kinds of component, with 1 or 2 buffers on each port | no failed assertion, lost message, lost wake-up or use after free in any class | 906 thousand |
| `proxy` | 2 threads, sequences of 1 to 6 calls, 1 to 3 buffers, 1 or 2 components | locks, buffers, clients and answers, whatever fails | 514 thousand |
| `workers` | the DSP's thread and 2 workers of different priorities, 2 components, 2 buffers, a failure, a change of priority and a command at any time | no message lost, misdirected or overtaken; one thread in a component; every command answered | 865 thousand |
| `torn_reset`, `lost_notification`, `live_unroute`, `hang` | | violations, see section 5 | |

Why the bounds are enough:

- *Ring.* A counter range one above the length is the tightest one for which
  FULL and EMPTY differ; with 3 slots and range 4 the halves wrap at different
  points and every combination is met. The proofs cover the other values.
- *Full.* Five commands over rings and pools of two: command queue, command
  ring, DSP pool, response ring and client queue can be full at the same time
  and commands still be waiting; writers block on the pool.
- *Restart.* Two sessions make one restart; a third would meet nothing new, as
  a session that ended orderly leaves what it found. Two commands let one be
  executing while another is in a ring. The DSP's passes that trail behind the
  last answer meet the opening of the second session and each of its writes.
- *Torn reset.* One command for each of two sessions is the least that can be
  replayed.
- *Scheduler.* The recursive case of `__rb_delete_rebalance` (a black deficit
  that climbs two levels) needs ten nodes; smaller trees never reach it. Eight
  timestamps give ties, the loss of the last bit and wraps.
- *Allocator.* Ten units hold five separated free blocks, so that both trees are
  three levels deep and blocks are merged on the left, on the right and on both
  sides, with and without a rebalancing.

- *Flow.* Each kind is a component with the number of ports at which its class
  has something to decide: two tracks, so that one waits for the other; an
  output routed and one that is the application's; a relaxed port; a probe; an
  internal buffer as large as two messages, or none. Two buffers for a port, one
  under way and one waiting, are the fewest for which their order can go wrong;
  kinds with two inputs or outputs have one on each.
- *Proxy.* Two threads are what a lock tells apart. The setups give each fault
  on its own to an open, configuration and close beside a disconnection, and the
  pairs that interact together: few clients and refusals, few buffers and
  messages that are not sent, pipes that are not made, late answers to a
  component that was closed.
- *Workers.* Two workers and the DSP's thread are the fewest for a component to
  move between workers while a third thread sends. Two buffers can overtake one
  another. A queue (`Room`) holds every message there can be at once, so no
  thread waits for room; what happens when one does is in section 5.

`MemPool` removes the blocks that a release merges with a fold, in the order of
the code: TLC expands every use of an argument when it counts coverage, and a
removal within a removal within an insertion is too much for it.

Views: `MCSched` looks at the scheduler up to task names, which the code never
compares: two states with the same view differ by a permutation of tasks, and
permuted states have permuted steps and satisfy the same properties. `MCMemPool`
leaves the usage counter out of the view, since no guard within reach of the
bound `MaxUsage` and no other variable depends on it.

Deadlock is not checked where the instance may stop: `HostedIpc` after its last
session or command, `DataFlow` when the component is gone, `HostProxy` after the
last call, `Workers` after the last command.

Fairness (`FairSpec` of `HostedIpc`), only for `EveryCommandAnswered`: weak
fairness of the work item and of the polling thread (Linux runs what is
runnable), of the receiving thread, which loops over `select` and `read`, of
`xf_client_register` and `xf_release` once begun, of the DSP's core loop, and of
components answering.
Openings, writes and closings are not fair: the application need not do them.
Weak fairness is enough: once enabled, each of these threads stays enabled until
it has taken a step, and the lock is released by a thread that is itself fair.

`HostProxy`: weak fairness of each thread within a call, of the receiving thread
and of the answers. `EveryCallReturns` needs in addition that the receiving
thread comes first, as its priority on one processor makes it (all but
`preempt`); `hang` shows what happens otherwise. `Workers`: weak fairness of the
processor alone; which thread it runs is decided by priority, so a thread may
wait for ever behind one that never stops. None does, because a source has no
more than `MaxData` buffers of data.

## 4. Properties

- `IndicesAgree`, `TakenIsOldest`, `UnreadSlotsKept`, `ImplementsFifo`: the ring
  tolerates stale copies on both sides and wraps of both halves.
- `EveryMessageOnce`, `HostPoolConserved`, `DspPoolConserved`: with everything
  full, a command is in exactly one queue, slot or component.
- `SyncIsFresh`, `CommandsAwaitSync`, `FreshStart`: what an orderly restart has
  to keep, and keeps if no ring is cleared between the consumer's two copies.
- `EveryCommandAnswered` (`HostedIpc`): no wake-up or notification is lost. It
  holds while no more commands are outstanding than a ring holds; beyond that,
  see below.
- `ImplementsService`: the whole path refines `CommandService`.
- `TreeSound`, `ImplementsEdf`: the scheduler. That the queue is sorted and that
  nobody is overtaken in it are theorems of `EdfQueue`.
- `MapsAgree`, `ImplementsFreeList`: the allocator. That nothing overlaps and
  that free memory is in one piece are theorems of `FreeList`.
- `NoBug`, `NothingLost`, `NoUseAfterFree`, `FlagMatchesTree`, `NoLostWakeup`,
  `OneTrackState`, `PluginAgrees`, `AllAnswered`, `FeedHome`: a component of any
  class, through routing, flushing, pausing, the loss of its neighbours and
  deletion. `NothingLost` says also what a buffer comes back as
  (`OnlyDataIsEmptied`): one of a pool, whose length its sink may have set to an
  invalid one, comes back to be filled and never as a message with data.
- `OneCallAtATime`, `AuxConserved`, `ClientsSound`, `OwnAnswer`, `PutToOpen`,
  `EveryCallReturns`: the application's proxy. `AuxConserved` names the two
  returns that lose a buffer; with either taken it still says what is left:
  nothing after `xf_get_dsp_stats` has unlocked twice, and that no buffer is given
  out twice after an `xf_open` without a pipe. `OwnAnswer` and `PutToOpen` hold
  until a wait has timed out, since responses are matched by order alone, or
  statistics are refused, since the second unlocking lets another call in: it
  may take the answer to a deletion, and the component that is deleted leaves
  while a response to one of its commands is in the receiving thread's hand.
- `TableSound`, `NoMisuse`, `OneThread`, `InOrder`, `NothingLost`, `BuffersHome`,
  `TasksFound`, `EveryCommandAnswered`: components that come, move between
  workers and go, with messages in five kinds of queue. `TasksFound` says that a
  task put into a worker's tree by another thread is never left there with the
  worker asleep: nothing in the code wakes it (`A/xa-class-base.c:297`), and it
  holds because a worker takes its tasks before it takes a message, so that a
  component has no task when a change of priority reaches it. `NoMisuse` allows
  one use of released memory, the reading of the priority by the purge that ends the
  component, which is item 19 of section 5. The other properties hold whatever is
  read there.

Every property of a passing run has a mutant: a definition changed the way a
plausible bug would change the code, with which TLC finds the property violated.
`TypeOK` of `HostedIpc`, `Sched`, `MemPool`, `DataFlow`, `HostProxy` and
`Workers` is stated and true but part of no run; the runs spend their time on
what the properties above say.

## 5. Disagreements found between code and comments

Checked by a run:

1. `torn_reset`: `xf_client_register` zeroes the indices one by one (`D:952`)
   while the DSP, in the pass that trails behind the last answer, is between its
   copies of `cmd_read_idx` and `cmd_write_idx` (`A/xf-msgq.c:139`). After an
   orderly end it takes a zeroed read index beside the old write index, and
   executes the commands of the ended session again.
2. `lost_notification`: whether the DSP must be told of room in the response
   ring is decided on old copies of the indices (`D:515`). With a full ring and
   responses behind it, the DSP may sleep with a response it could not put.
3. `live_unroute`: an output that is being unrouted waits for its sink
   (`A/xf-io.c:648`) while the component goes on being executed and produces at
   that port.
4. `hang`: a response is counted before it is announced
   (`algo/host-apf/include/xf-proxy.h:248`). With a receiving thread that is held
   up in between, a call may sleep for a response it has already been given.

Reproducible by a constant, in the transport, the scheduler and the allocator:

5. `MayCrash = TRUE`: the indices are zeroed (`D:952`) while responses of a
   session that ended early are still to come, and one reaches the next session;
   `FreshStart` fails.
6. `MayCrash = TRUE`: the command queue is emptied without returning its
   messages to the pool (`D:942`); `HostPoolConserved` fails.
7. `MayCrash = TRUE`: the handshake bytes name no session, so a late answer
   (`A/xf-main.c:120`) passes for a fresh one; `SyncIsFresh` fails.
8. `MayStall = TRUE`: `sync_from_dsp` is tested before the lock (`D:623`) and not
   again; `CommandsAwaitSync` fails.
9. `CancelTaken = TRUE` in `Sched`: in the build without `LOCAL_SCHED`,
   `rb_delete` of a task that was taken before is not recognised
   (`A/rbtree.c:876`) and empties the tree; `OneLeavesAtOnce` fails.
10. A refused allocation is counted as used (`xf-mem.h:108`); `UsageExact` of
    `MemPool` fails at once.

In a component, with the name in `faults` (or the set of `MCDataFlow` given):

11. `hasty` (`Hasty`): `NoUseAfterFree` fails; the flush at the end of a stream
    leaves the port idle with its control message under way, and a removal of
    the route frees the pool it belongs to.
12. `early flush`: `FlagMatchesTree` fails; a component that was not started
    toggles EXECUTION and COMPLETED together (see `LostByRestart`, section 6).
13. `memory`: `NoBug` fails; a route whose pool cannot be allocated has already
    dropped the start message of the application (`A/xf-io.c:461`).
14. `restart` (`Restarts`): `FlagMatchesTree` fails; a mixer that begins again
    drops its schedule flag with the task in the tree (see `LostByRestart`,
    section 6).
15. `late interrupt`: `NoUseAfterFree` fails; a capturer's interrupt after its
    stop finds the component ending.
16. `pause at end` (`PauseAtEnd`): `OneTrackState` fails; a track is active,
    idle and paused (`A/xa-class-mixer.c:1091`).
17. `probe` (`DeletedProbe`): `AllAnswered` fails; a component is deleted with a
    probe's buffers outstanding (`A/xa-class-mimo-proc.c:2035`).
18. `sink` with a renderer: the loss of its sink idles the port and frees the
    pool when the first buffer comes back with an error, while the renderer,
    which the interrupts of its device go on executing, has sent another one.
    `NoUseAfterFree` fails; with a multi-port component the loss is not reported
    to the plug-in, a case that `PluginAgrees` excludes.

In the proxy: `torn` (`Torn`) makes the counter disagree with the pipe, and
`WaitsOnlyWhenEmpty` fails; a late answer shifts every later one by one; the
functions that set and get a configuration ignore the result of the call;
`xf_get_dsp_stats` unlocks twice and keeps its buffer when it fails
(`H/xf-proxy.c:1320`); `xf_open` keeps its buffer when the pipe of its wait queue
cannot be made (`H/xf-proxy.c:500`); `xf_pool_alloc` does not free the pool's
structure when it gets no buffer.

In the workers, the first without and the others with the name in `Faults`:

19. `NotReadWhenFree` fails in the instance of `workers`: a purge answers what it
    finds in a component's queue (`A/xf-core.c:782`) after the component was
    released (`A/xa-class-base.c:1235`) and before its id is taken out of the table
    (`A/xf-core.c:811`). `xf_msg_submit` compares the workers of source and
    destination (`A/xf-core.c:1079`) and reads the priority of the source, the
    released component, from free memory. No other thread needs to run. The
    comment at `A/xf-core.c:828` has "capture value before component memory is
    freed" for the one use of the priority it knows of.
20. `exit`: `NoMisuse` fails; another thread reads the priority of a component
    that is released and still in the table (`A/xf-core.c:846`).
21. `routed`: `BuffersHome` and `NoMisuse` fail. A source that is moved to the
    worker of its sink finds the answer to its flush in the local queue, ahead of
    buffers that wait in the worker's, and frees the pool they belong to.
22. `late`: `TasksFound`, `BuffersHome` and `NoMisuse` fail; tasks in the core's
    own scheduler are never taken once there are workers (`A/xf-core.c:1636`).
23. `reuse`, with three components: `NoMisuse` and `InOrder` fail; a message for
    a deleted component reaches the next with its id.
24. `scratch`: the thread keeps its raised priority, and the messages stay with
    a worker that is not the component's (`A/xa-class-base.c:285`). `OneThread`,
    `InOrder` and `BuffersHome` fail; so does `EveryCommandAnswered`, since a
    raised worker may take the marker of another thread's pass over its queue,
    which ends the worker (`A/xf-core.c:318`).
25. With `Room = 1` `EveryCommandAnswered` fails: the marker of a purge is sent,
    blocking, to the queue of the very thread that sends it (`A/xf-core.c:757`).
    In the code a queue holds 100 messages and there may be 256. `InOrder` fails
    too: a sender that waits for room has read the priority before it changed.
26. Not by a constant: the thread that moves a component to a worker of higher
    rank lowers itself before it has answered, and the new worker handles the
    next message meanwhile (`A/xa-class-base.c:304`); on the first SET_PARAM the
    memory of the component is allocated only afterwards. `OneThread` excepts it.

## 6. Proofs

`ShmemRing_proofs`, for every ring length, counter range above it and set of
messages (`RingAssumption`):

- `Invariance`: `IInv` is inductive. `IndicesAgree` is not by itself, since a
  producer with a wrong copy could publish anything; `IInv` adds where each
  side's copies lie: the producer's copy of the read index is at or behind the
  true one and at most a ring length behind the write index (`ProducerInv`), the
  consumer's copy of the write index is between the two, and the message in its
  hand is the one in the slot of the read index (`ConsumerInv`).
- `TypeCorrect`, `RingBounded`, `TakenOldest`, `NoOverwrite` follow from it.
- `Refinement`: `Spec => ImplementsFifo`. Publishing appends to `Pending`
  (`PublishIsPut`), releasing takes its head (`ReleaseIsRemove`), and every
  other step leaves it as it is (`FillKeepsPending`).
- `HostedIpc` resets a ring while the other side may hold copies of its indices
  (`D:952`). So each side's part is also shown to be kept by the steps of the
  other side, by its own, and by a reset while it is not in a pass; a side whose
  copies are stale (`StaleProducer`, `StaleConsumer`) is sound again once it has
  copied. `HostedIpc_proofs` cites these lemmas for both rings.

`HostedIpc_proofs`, for any number of sessions, writers and commands, rings and
pools of any size (`IpcAssumption`), and an orderly use (`OrderlyUse`, which is
`~MayCrash /\ ~MayStall /\ ~MayTear`; without any of the three a property is
false, as section 5 shows, items 1 and 5 to 8). The code does not ensure the
third: the theorems say that a torn copy of two indices by a ring's consumer is
the one way in which the unlocked reset of the rings can do harm:

- `Invariance`: `IInv` is inductive. Its parts, and what each is there for:
  - `RingsInv`: both rings are sound, but only as long as a message can reach
    them: between sessions a side may be left with copies of indices that have
    been zeroed since, which it replaces before it uses them. While the indices
    are being zeroed the ring is the one that will come of it (`CmdMem`,
    `RspMem`); each write is then a reset of that ring or changes nothing.
  - `PhasesInv`: a side is in a pass of its ring in one phase of its loop only.
  - `HandshakeInv`: the two bytes, the polling thread and the DSP go through
    `Cold`, `Asked`, `Acked` and `Synced` together. `SyncIsFresh` is a part of
    one of these; that the next opening begins `Cold` again needs all of them.
  - `AwaitInv`: nothing leaves the command queue before the handshake
    (`NothingSent`), and a DSP that is starting over has nothing. This is what
    makes the reset of the rings and the restart harmless: both happen to empty
    queues. It needs to know that an orderly close finds nothing outstanding.
  - `MessagesInv`: the queues and ring slots, one behind the other, are the
    queues of `CommandService`, whose own invariant `SInv` holds of them. This
    gives the refinement, and the count below.
  - `PoolsInv`: both pools account for their descriptors. No counter is
    negative because no message is in two places, which the counting of
    `CommandService` says (`Counted`): as many messages are under way as
    commands are outstanding.
- `FreshHandshake`, `CommandsWait`, `NoLeftovers`, `MessagesOnce`,
  `HostDescriptors`, `DspDescriptors`, `TypeCorrect` state the properties of the
  runs `restart` and `full`.
- `Refinement`: `Spec => ImplementsService`. Opening is `Begin`, writing is
  `Submit`, dispatching `Start`, completing `Complete`, `read` `Deliver`; the
  work item, the polling thread, and every other step of the DSP move a message
  from the end of one queue to the next and are invisible to the service
  (lemmas on `Chain`).

`CommandService_proofs`, for any number of sessions and commands:

- `ServiceInOrder`: the commands of a session are started in the order they
  were written, each once, and answered at most once. `SInv` adds that the
  queues together hold each outstanding command once.

`DspCore_proofs`, of the client table, for any number of workers, ids, components,
messages and commands, and with all faults (`WorkersAssumption`):

- `TableStaysSound` states `TableSound`, as long as `NoMisuse` and `OneThread`
  hold. Both are hypotheses, as `[]NoMisuse` and `[]OneThread`, and both are
  invariants of the run `workers`, which has no faults; the fault `exit`, or
  `reuse` with three components, refutes `NoMisuse`. What the purge reads of a
  released component is not assumed away: `NoMisuse` allows it, and the theorem
  holds for either outcome of the comparison. The theorem says that
  there is no other way to lose the table: an id is given back twice only by two
  threads that end one component, and a handler gets at a wrong id only through
  a component that is not the one meant.
- `IInv` adds to `TableSound`, by which component each id is held:
  - `Named`: what the table names for an id is, or was, a component with that
    id, and a live component has an id. The id outlives its component by the
    purge of the queue (`A/xf-core.c:846`).
  - `Addressed`: so does an entry of a worker's queue, which names a component by
    itself and by the id in its message. A worker looks up the id to see whether
    there is anybody, and then uses the component (`Receiving`): that this is
    one component needs `NoMisuse`.
  - `Sound`: a thread that ends a component has its id in hand, which the table
    still holds for that component; in the purge the component is dead.
  - `Numbered` and `Registering`: the next component is one that is not there
    yet, and at most one is asked for.
- There is a lemma for each step. Most leave the table as it is and revive no
  component (`NoNewLives`), and then everything that was named stays named
  (`SameTable`, `TableStep`, `ThreadStep`). The end of a component
  (`FreeingClient`) and a new one (`Creating`) change it. That a handler gives back
  the same component, with its id, is shown once for all commands
  (`GivenMessage`).

`DspCore_proofs`, of the memory, for a pool of any size (`PoolSizeAssumption`;
`FreeList` is instantiated there):

- `MemoryMerged`: `NoOverlap` together with *free extents are apart and never
  touch* (`FreeApart`) and *every unit is free or given out* (`Tiled`). Without
  `FreeApart` a release could find two neighbours on one side; without `Tiled`
  nothing says that memory not given out is free.
- `NoMemoryOverlaps` and `NoMemoryFragmented` are the two properties of
  `MemPool` stated on its abstraction. `pool` checks that `MemPool` implements it, so the theorems
  carry over to the trees where TLC has been.

`DspCore_proofs`, of the scheduler's queue, for any tasks and any natural
delays (`EdfQueue` is instantiated there):

- `HeadIsEarliest`: the queue is in the order of the delays and no task is in it
  twice (`EarliestFirst`). This is inductive with the types (`Queued`). A task is put
  behind as many entries as are due no later; that these are the first ones
  (`PlaceToPut`) is so because the queue is sorted, and that what is left after an
  execution has no negative delay because the head was the earliest.
- `NobodyOvertakes`: of two tasks that wait, the second never gets before the
  first (`NoOvertaking`), an action property that needs `EarliestFirst` to tell
  which entry is which. `sched` checks that `Sched` implements `EdfQueue`.

`HostProxy_proofs`, for any number of threads, any sequences of calls, any
number of buffers and clients, and every combination of faults
(`ProxyAssumption`):

- `Invariance`: `IInv`. A lock that admits one call is not inductive: that a
  thread may unlock follows from where it is, and that from which calls lock at
  all. So `Staged` says which steps a call of each kind can be at, `Typed` as
  much of the types as is needed, `BuffersHeld` which steps hold a buffer and
  `Apart` that the buffer of a call is not that of the component it is for, as
  long as no statistics were refused.
- `OneCall` and `BuffersConserved` state `OneCallAtATime` and `AuxConserved`, the
  latter with its two exceptions: `past` remembers that one of the two returns
  which keep a buffer was taken, and until then no other path of any call loses one.
- `CallsInvariance`: `IInv` with `ClientsInv`. `ClientsSound` says what is
  reached from the head of the client table, by a recursive function; the
  invariant says instead that there is a list of distinct clients, linked as the
  table says from the head to the end (`Linked`), and that it has exactly those
  no component uses. `xf_client_alloc` takes its head (`TailLinked`),
  `xf_client_free` puts one before it (`ConsLinked`). That a component is
  registered only where its call is, is again a matter of stages (`StepOf`).
  `ClientsKept` states `ClientsSound`: by induction the function that defines
  `Reached` has one element more of the list with every step (`WithinList`), and
  it has enough steps because a list of distinct clients is no longer than the
  table (`ListBounded`).
- `AnswersInvariance`: `Answers`, as long as no wait has timed out and no
  statistics were refused (`past` has at most `pipe`). Nothing in a
  response says which call it is for, so `OwnAnswer` needs to know where every
  message is: `OneResponse` says that a shared wait queue has at most one
  response, in one of four places (with the DSP, on the wire, in the receiving
  thread's hand, in the pipe), and that it belongs to the call that waits, of
  which there is one by `OneCallAtATime`; `OwnCommands` that what is under way
  to a component is for the one that sent the command and is open, so that the
  client table leads back to it; `Closing` that behind the response to a
  deletion nothing comes for that component, which uses the order of the DSP's
  answers. Sending, answering, receiving, writing and reading each move one
  message (`CallSent`, `AnswerAnswers`, `ReceiveAnswers`, `WriteAnswers`,
  `ReadAnswers`); every other step leaves the way as it is (`Still`) and keeps
  what the waiting calls rely on (`Keeps`).
- `OwnAnswers` and `PutsToOpen` state `OwnAnswer` and `PutToOpen`.

`DataFlow_proofs`, for a component of any class with any number of ports, tracks
and buffers, and whatever its surroundings do (`KindsAssumption`, all faults):

- `OneWayToLoseTheFlag` states `LostByRestart` of `DataFlow`, for which there is
  no run. That the flag tells whether the task is in the tree is not an invariant
  of the code (section 5, items 12 and 14), so the theorem is about steps: where the flag was right and is wrong
  after a step, the component was scheduled although its stream had ended
  (`Overtaken`), and got the message that starts it again (`StartsAgain`). A
  restart resets all flags of the component (`A/xa-class-mixer.c:302`); no other
  handler, in no class, and no round of processing can do it.
- `DevicesKeepTheFlag`: renderers and capturers are never started again, and for
  them `FlagMatchesTree` is an invariant.
- Both follow from what each operator does to a component. `Same` says that it
  leaves the flags, the task and the kind of component alone, which the
  operations of the ports do (`Responses`, `InputPorts`, `OutputPorts`,
  `Probing`); `Sound` that it keeps a right flag right, which the handlers do,
  since they change the task by `Schedule` and `Cancel` only (`SoundSteps`, and
  `...Commands` and `...Round` for each class); `Leaves` that a component ends
  with its task out of the tree (`CleaningUp`, `Destroying`). A flag that is
  wrong already proves nothing, but the component still has its fields
  (`ShapeKept`): `Sound` says both, so that one lemma for each handler serves
  both.
- What a handler does to each port in turn is a fold. `FoldLemmas` proves that a
  fold keeps what its step keeps (`Folded`); it has the step and what is kept as
  constants, since the provers cannot instantiate an operator in a lemma, and is
  instantiated once for each step.

`FoldLemmas` has also what these need of the natural numbers, with sets in place
of predicates: a set with 0 and the successor of each of its elements has them
all (`Induction`), and a function on a set can be iterated (`Recursion`).
`ClientsKept` and `Folded` rest on it. `FoldedOnce` is for folds whose step
changes one port: what a step establishes at its port and no other step touches
holds of every port at the end.

`Wakeup_proofs`, for a mixer with any number of tracks, buffers of any length and
messages in any order, with all faults (`KindsAssumption`, and kinds that are
mixers):

- `OneWayToLoseTheTrackState` states `OneTrackState`. It is not an invariant of
  the code (section 5, item 16), so the theorem names the one way to lose it: a
  track with its end in sight that is paused (`EndsPaused`) is made idle as well
  by `xa_mixer_postprocess`. Where no track gets there, it is an invariant.
- `OneWayToLoseAWakeup` states `NoLostWakeup`, again as a fact about steps: where
  the flag tells what is in the tree before and after, a mixer that could
  process and is not scheduled was so before, or has just got the buffer that
  ends the flush of its routed output (`FlushReturns`), which
  `xa_mixer_fill_this_buffer` returns from without scheduling it
  (`A/xa-class-mixer.c:381`). TLC meets this only with the fault `restart`
  (section 5, item 14), where the mixer executes while the flush is under way.
  Without it the wake-ups are an invariant.
- The second theorem has `[]OnlyDataIsEmptied` as a hypothesis: what comes to a
  mixer as data has a length of its own. That is about every place a message can
  be, which TLC checks as a part of `NothingLost`.
- Neither is inductive. `Orderly` adds that the component is a mixer with its
  ports in place and that nothing it was asked for failed until it is
  terminated; `Mixing` adds, of each track, that its queue holds messages with
  data or the end of it, that no more is filled than there is room, and that a
  port without an internal buffer has direct access to its first message unless
  it has none (`Port`), and that no track is being purged; and of the flags of
  the component that `RUNTIME_INIT` and `EXECUTION` come after `POSTINIT` and
  never together (`Staged`). Without `Port` a track could have a
  message in its queue and nothing to process, and without the second part of it
  a mixer could start with neither.
- The steps follow from lemmas on the operators of `A/xf-io.c`: each changes one
  port and leaves the kind, the flags, the task and the other ports (`OneInput`,
  `OneOutput`, `Beside`). From them follows for each handler, and for a round
  of preparing, processing and what comes after it, that a mixer comes of it
  whose tracks are in one state, and which is awake if it was or has just been
  scheduled (`Comes`; `MixerCommands`, `MixerPrepares`, `MixerProcesses`,
  `MixerGoesOn`, `MixerRounds`, `MixerFinishes`).

Only model-checked, and why:

- Liveness, which no prover here can do.
- `TreeSound` and `MapsAgree`: the red-black trees are recursive operators. Of
  the allocator and of the scheduler, the theorems are about `FreeList` and
  `EdfQueue`, which `pool` and `sched` show them to implement.
- `HostedIpc` when the application may close early, a work item may stall or a
  consumer's copies may be torn, where most of the properties fail.
- `NoLostWakeup` of a codec, which rests on `NoBug`: a codec that asserts
  differently goes on differently.
- `NoBug`, `NothingLost`, `NoUseAfterFree`, `PluginAgrees`, `AllAnswered`: they
  relate the flags of the ports to the messages in the inbox, at the feeder and at
  the sinks, and to what the application has sent and the plug-in has been told.
  Each needs an invariant over all of these.
- The other properties of `Workers`. `NoMisuse` and `OneThread` rest on which
  thread runs when, and so on every priority, on where each message of a
  component can be while it moves, and on queues that are never full, which is
  a count of all messages; `NothingLost`, `InOrder` and `BuffersHome`
  count messages over all queues, hands and components; `TasksFound` needs that
  a component is ready before it is scheduled.

## 7. Not modelled, and what is left

Left out, because they are wrappers, are absent from the hosted build, or have
no state the rest depends on: the allocator's copy for several DSP cores
(`A/xf-mem-ipc.c`), inter-core IPC, interrupts and timers but for the devices of
a renderer and a capturer, tracing, the OS layers, test programs and codecs.

Left out of what is modelled:

- *Components*: extended parameters and event channels (`xa_base_get_param_ext`
  and the events of `xa-class-base.c`), and the numbers a plug-in computes.
- *Application*: `xf_dsp_stop` (`H/xf-proxy.c:1232`), which waits for its answer in
  the queue the other calls share but without their lock, so that beside another
  call it may take that call's answer (`xaf-api.c` stops the DSP when the
  application ends); the creation and connection of whole pipelines and the event
  relay of `xaf-api.c`; the contents of configurations (`prepare_ext_config`);
  events in `xf_proxy_thread`, `xf_proxy_close`, wake-ups without a signal, and
  the memory of a pool's structure.
- *Workers*: the failure to create a worker, the end of the framework, shared
  buffers, statistics, several cores, and the build without `LOCAL_SCHED` and
  `LOCAL_MSGQ`. Tasks before messages mean that a component which always has
  something to do starves its worker's queue; the instance's data ends.

What could follow: that the hypotheses of `TableStaysSound` hold without faults
and with enough room; the wake-ups of a codec; that a codec or a mixer is never
`Overtaken` without the faults `early flush` and `restart`; `Workers` over the scheduler of `Sched`; two components of `DataFlow` joined by
a route in place of feeder and sink.
