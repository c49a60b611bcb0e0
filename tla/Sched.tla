--------------------------------- MODULE Sched ---------------------------------
(***************************************************************************)
(* The scheduler of data processing on the DSP, xf-sched.c: a red-black    *)
(* tree of component tasks ordered by timestamp, with its first task       *)
(* cached, and a clock that advances to the task taken.                    *)
(*                                                                         *)
(* A component is scheduled while its XA_BASE_FLAG_SCHEDULE is set: until  *)
(* its task is cancelled, or taken and then executed.  With LOCAL_SCHED    *)
(* the worker that takes a task executes it next.  Without, the core takes *)
(* it and queues it for a worker, and the component may be cancelled in    *)
(* between.                                                                *)
(***************************************************************************)
EXTENDS Naturals, Sequences, FiniteSets

CONSTANTS Tasks, Null, NoNode,
          StampMod,     \* timestamps are counted modulo this, 2^64 in the code
          CancelTaken   \* may a component be cancelled whose task has been taken?

ASSUME SchedAssumption ==
    /\ StampMod \in Nat \ {0} /\ StampMod % 4 = 0
    /\ CancelTaken \in BOOLEAN
    /\ Null # NoNode /\ {Null, NoNode} \cap Tasks = {}

VARIABLES tree, stamp,  \* the tree, and the timestamps kept in the colour word
          now,          \* the timestamp in the sentinel's colour word
          taken         \* tasks taken from the tree and not yet executed

vars == <<tree, stamp, now, taken>>

RB == INSTANCE RbTree WITH Nodes <- Tasks

Stamp  == 0 .. StampMod - 1
Delays == 0 .. StampMod \div 2 - 1
Even(ts) == ts - (ts % 2)

Init ==
    /\ tree = RB!EmptyTree /\ now = 0 /\ taken = {}
    /\ stamp = [x \in Tasks |-> 0]

Scheduled == RB!Members(tree) \cup taken

-----------------------------------------------------------------------------
\* mutant: the timestamps are compared without regard to their wrap-around
Before_NoWrap(t0, t1) == t0 < t1

\* xf_timestamp_before: the difference is negative
Before(t0, t1) == (t0 + StampMod - t1) % StampMod >= StampMod \div 2

SideOf(ts, p) == IF Before(ts, stamp[p]) THEN "left" ELSE "right"

RECURSIVE Below(_, _)
Below(p, ts) == LET k == RB!Kid(tree, SideOf(ts, p), p)
                IN  IF k = Null THEN p ELSE Below(k, ts)

\* the node under which a task of this timestamp is inserted
Place(ts) == IF RB!Root(tree) = Null THEN Null ELSE Below(RB!Root(tree), ts)

\* xf_sched_put, for a component whose flag is not set
Put(x, dts) ==
    LET ts == (now + dts) % StampMod
        p == Place(ts)
        t1 == IF p = Null THEN tree ELSE RB!SetKid(tree, SideOf(ts, p), p, x)
        t2 == IF p = Null \/ (p = RB!Cache(tree) /\ SideOf(ts, p) = "left")
              THEN RB!SetCache(t1, x) ELSE t1
    IN  /\ x \notin Scheduled
        /\ tree' = RB!Insert(t2, x, p)
        /\ stamp' = [stamp EXCEPT ![x] = Even(ts)]
        /\ UNCHANGED <<now, taken>>

\* xf_sched_get; the timestamp of a task off the tree is never read, and is 0
Get ==
    LET head == RB!Cache(tree)
        deleted == RB!Delete(tree, head)
    IN  /\ head # Null
        /\ tree' = RB!SetCache(deleted.tree, deleted.next)
        /\ now' = stamp[head]
        /\ stamp' = [stamp EXCEPT ![head] = 0]
        /\ taken' = taken \cup {head}

\* the component's flag is cleared and its data processed
Execute(x) ==
    /\ x \in taken
    /\ taken' = taken \ {x}
    /\ UNCHANGED <<tree, stamp, now>>

\* xa_base_cancel with xf_sched_cancel, for a component whose flag is set;
\* only a task found not to be on the tree is withdrawn from the worker
Cancel(x) ==
    LET deleted == RB!Delete(tree, x)
        found == deleted.next # NoNode
    IN  /\ x \in Scheduled
        /\ x \in taken => CancelTaken
        /\ tree' = IF found /\ x = RB!Cache(tree)
                   THEN RB!SetCache(deleted.tree, deleted.next) ELSE deleted.tree
        /\ stamp' = IF found THEN [stamp EXCEPT ![x] = 0] ELSE stamp
        /\ taken' = IF found THEN taken ELSE taken \ {x}
        /\ UNCHANGED now

Next ==
    \/ \E x \in Tasks, dts \in Delays : Put(x, dts)
    \/ Get
    \/ \E x \in Tasks : Execute(x) \/ Cancel(x)

Spec == Init /\ [][Next]_vars

-----------------------------------------------------------------------------
TypeOK ==
    /\ tree \in RB!Tree /\ {RB!Root(tree), RB!Cache(tree)} \subseteq Tasks \cup {Null}
    /\ stamp \in [Tasks -> Stamp] /\ now \in Stamp
    /\ taken \subseteq Tasks

\* Through any sequence of insertions and removals the tree stays a
\* red-black tree with consistent links in both directions, so that no task
\* is lost from it and a search takes logarithmic time.
TreeSound == RB!Linked(tree) /\ RB!RedBlack(tree)

\* The scheduler executes the earliest deadline first, first come first
\* served among equal ones, although timestamps wrap around, lose their last
\* bit and are compared only along one path of the tree.
Edf == INSTANCE EdfQueue WITH
    Delays <- {Even(dts) : dts \in Delays},
    queue <- LET order == RB!InOrder(tree)
             IN  [i \in DOMAIN order |->
                     [task |-> order[i], delay |-> (stamp[order[i]] + StampMod - now) % StampMod]]

ImplementsEdf == Edf!Spec

\* Cancelling a task that is not on the tree is reported as such and leaves
\* the tree alone, as comments in rb_delete and xf_sched_cancel say: no step
\* makes two tasks leave the tree.
OneLeavesAtOnce ==
    [][Cardinality(RB!Members(tree) \ RB!Members(tree')) <= 1]_vars
=============================================================================
