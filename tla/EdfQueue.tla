------------------------------- MODULE EdfQueue -------------------------------
(***************************************************************************)
(* What the scheduler promises the components: the task that is due first  *)
(* is executed first, tasks due at the same time in the order in which     *)
(* they were scheduled, and the clock advances to the task executed.       *)
(***************************************************************************)
EXTENDS Naturals, Sequences, FiniteSets, SequencesExt

CONSTANTS Tasks, Delays

VARIABLE queue      \* [task, delay], the delay counted from now, earliest first

Init == queue = <<>>

TaskOf(q) == [i \in DOMAIN q |-> q[i].task]

\* behind every entry that is due no later
Inserted(q, e) ==
    InsertAt(q, Cardinality({i \in DOMAIN q : q[i].delay <= e.delay}) + 1, e)

\* without its head, once the clock has advanced to it
Advanced(q) ==
    [i \in 1 .. Len(q) - 1 |-> [q[i + 1] EXCEPT !.delay = @ - q[1].delay]]

\* the steps, as relations of a queue q and the next one, r
Put(q, r) ==
    \E i \in DOMAIN r :
        /\ r[i] \in [task : Tasks \ ToSet(TaskOf(q)), delay : Delays]
        /\ r = Inserted(q, r[i])

Get(q, r) == q # <<>> /\ r = Advanced(q)

Cancel(q, r) == \E i \in DOMAIN q : r = RemoveAt(q, i)

\* q and r are evaluated once, which a refinement mapping makes costly
Next == \E q \in {queue}, r \in {queue'} : Get(q, r) \/ Cancel(q, r) \/ Put(q, r)

Spec == Init /\ [][Next]_queue

-----------------------------------------------------------------------------
\* What is taken next is due no later than anything else, and no task waits
\* twice.
EarliestFirst ==
    /\ \A i, j \in DOMAIN queue : i <= j => queue[i].delay <= queue[j].delay
    /\ \A i, j \in DOMAIN queue : queue[i].task = queue[j].task => i = j

\* Of two tasks that wait, the first is never overtaken by the second,
\* whatever is scheduled, executed or cancelled meanwhile.
NoOvertaking ==
    [][\A i, j \in DOMAIN queue, k, l \in DOMAIN queue' :
          i < j /\ queue'[k].task = queue[i].task /\ queue'[l].task = queue[j].task => k < l]_queue
=============================================================================
