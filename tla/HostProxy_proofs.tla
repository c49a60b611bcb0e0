----------------------------- MODULE HostProxy_proofs -----------------------------
(***************************************************************************)
(* For any number of threads, calls, buffers and clients, and whatever     *)
(* goes wrong: each lock of the proxy admits one call at a time, no        *)
(* auxiliary buffer is lost or given out twice, and the table of clients   *)
(* stays sound.  Until a wait has timed out, or statistics were refused,   *)
(* every call gets the response to its own message and none is given to a  *)
(* component that is not open.                                             *)
(***************************************************************************)
EXTENDS HostProxy, SequenceTheorems, FiniteSetTheorems, TLAPS

\* of FoldLemmas, only what does not depend on its parameters
NatFacts == INSTANCE FoldLemmas WITH Op <- LAMBDA arg, b, x : b, Good <- LAMBDA a, b : TRUE

Busy == {"send", "wait", "sleep", "woken", "read", "count", "done"}

\* as much of the types as the results rest on
Typed ==
    /\ setup \in Setups
    /\ lock \in [Locks -> Threads \cup {Nobody}]
    /\ aux \in Seq(Buffers)
    /\ DOMAIN handle = Threads /\ DOMAIN call = Threads
    /\ \A t \in Threads :
        /\ DOMAIN handle[t] = {"open", "client", "aux"}
        /\ handle[t].open \in BOOLEAN /\ handle[t].aux \in 0 .. setup.buffers
        /\ DOMAIN call[t] = {"pc", "left", "b", "got", "count"}
        /\ call[t].left \in Seq(Calls) /\ call[t].b \in 0 .. setup.buffers
        /\ call[t].pc # "idle" => call[t].left # <<>>

\* where a call may be: one that does not wait is never among those that do,
\* and only statistics that were refused unlock twice
Staged ==
    \A t \in Threads :
        /\ call[t].pc # "idle" /\ Op(t) = "command" => call[t].pc = "send"
        /\ call[t].pc = "again" => "stats" \in past

\* the buffer of a call: from xf_buffer_get to xf_buffer_put, or to the handle
\* of the component it opens, and from there back
Buffered(t) ==
    /\ call[t].pc = "aux" => UsesAux(Op(t))
    /\ call[t].pc \in {"idle", "aux"} => call[t].b = 0
    /\ call[t].pc \notin {"idle", "aux"} =>
        (call[t].b # 0 <=> UsesAux(Op(t)) \/ call[t].pc = "put")
    /\ handle[t].open <=> handle[t].aux # 0
    /\ call[t].pc # "idle" /\ Op(t) = "open" => ~handle[t].open
    /\ call[t].pc \notin {"idle", "put"} /\ Op(t) = "close" => handle[t].open

BuffersHeld == \A t \in Threads : Buffered(t)

\* the buffer of a call is not that of the component it is for
Apart == "stats" \notin past => \A t \in Threads : call[t].b # 0 => call[t].b # handle[t].aux

IInv == Typed /\ Staged /\ OneCallAtATime /\ BuffersHeld /\ Apart /\ AuxConserved

-----------------------------------------------------------------------------
(* The constants, and lists of buffers                                     *)

\* What a setup has.
LEMMA SetupTypes ==
    \A s \in Setups : s.calls \in [Threads -> Seq(Calls)] /\ s.buffers \in Nat \ {0}
  BY ProxyAssumption

\* A call that is not idle is one of the calls.
LEMMA OpType == \A t \in Threads : Typed /\ call[t].left # <<>> => Op(t) \in Calls
  BY DEF Typed, Op

-----------------------------------------------------------------------------
(* What the steps do to a thread                                           *)

\* only t moves: to pc, with what is left of its calls, and buffer b
Moved(t, pc, left, b) ==
    /\ DOMAIN call' = Threads
    /\ \A u \in Threads \ {t} : call'[u] = call[u]
    /\ DOMAIN call'[t] = {"pc", "left", "b", "got", "count"}
    /\ call'[t].pc = pc /\ call'[t].left = left /\ call'[t].b = b

\* A step within a call.
LEMMA GotoMoves ==
    ASSUME Typed, NEW t \in Threads, NEW pc, Goto(t, pc)
    PROVE  Moved(t, pc, call[t].left, call[t].b)
  BY DEF Typed, Goto, Moved

\* A call that fails goes to its end.
LEMMA FailMoves ==
    ASSUME Typed, NEW t \in Threads, NEW e, Fail(t, e)
    PROVE  Moved(t, "done", call[t].left, call[t].b)
  BY DEF Typed, Fail, Moved

\* A thread that leaves a call has no buffer.
LEMMA LeaveMoves ==
    ASSUME Typed, NEW t \in Threads, Leave(t)
    PROVE  Moved(t, "idle", Tail(call[t].left), 0)
  BY DEF Typed, Leave, Moved

\* the types of a thread in a call
ThreadTyped(t) ==
    /\ DOMAIN call[t] = {"pc", "left", "b", "got", "count"}
    /\ call[t].left \in Seq(Calls) /\ call[t].b \in 0 .. setup.buffers
    /\ call[t].pc # "idle" => call[t].left # <<>>

\* The types of the threads when one of them moves.
LEMMA MovedTyped ==
    ASSUME Typed, NEW t \in Threads, NEW pc, NEW left \in Seq(Calls), NEW b \in 0 .. setup.buffers,
           Moved(t, pc, left, b), pc # "idle" => left # <<>>, setup' = setup
    PROVE  DOMAIN call' = Threads /\ \A u \in Threads : ThreadTyped(u)'
  BY DEF Typed, Moved, ThreadTyped
-----------------------------------------------------------------------------
(* Types                                                                   *)

Fields ==
    /\ lock \in [Locks -> Threads \cup {Nobody}]
    /\ aux \in Seq(Buffers)
    /\ DOMAIN handle = Threads
    /\ \A t \in Threads :
        /\ DOMAIN handle[t] = {"open", "client", "aux"}
        /\ handle[t].open \in BOOLEAN /\ handle[t].aux \in 0 .. setup.buffers

\* The types are those of the setup, of the threads and of the rest.
LEMMA TypedParts ==
    Typed <=> /\ setup \in Setups /\ Fields
              /\ DOMAIN call = Threads /\ \A t \in Threads : ThreadTyped(t)
  BY DEF Typed, Fields, ThreadTyped

\* xf_proxy_init gives everything its type.
LEMMA InitTyped == Init => Typed
<1> SUFFICES ASSUME Init PROVE Typed
  OBVIOUS
<1>1. setup.buffers \in Nat \ {0} /\ setup.calls \in [Threads -> Seq(Calls)]
  BY SetupTypes DEF Init
<1>2. aux \in Seq(Buffers)
  <2>1. aux = [i \in 1 .. setup.buffers |-> i]
    BY DEF Init, Buffers
  <2> QED
    BY <1>1, <2>1, IsASeq DEF Buffers
<1>3. \A t \in Threads : ThreadTyped(t)
  <2> TAKE t \in Threads
  <2>1. call[t].left = setup.calls[t] /\ call[t].pc = "idle" /\ call[t].b = 0
        /\ DOMAIN call[t] = {"pc", "left", "b", "got", "count"}
    BY DEF Init
  <2> QED
    BY <1>1, <2>1 DEF ThreadTyped
<1>4. Fields
  <2>1. \A t \in Threads : /\ DOMAIN handle[t] = {"open", "client", "aux"}
                           /\ handle[t].open = FALSE /\ handle[t].aux = 0
    BY DEF Init
  <2>2. DOMAIN handle = Threads /\ lock \in [Locks -> Threads \cup {Nobody}]
    BY DEF Init
  <2>3. 0 \in 0 .. setup.buffers
    BY <1>1
  <2> QED
    BY <1>2, <2>1, <2>2, <2>3, Zenon DEF Fields
<1>5. setup \in Setups /\ DOMAIN call = Threads
  BY DEF Init
<1> QED
  BY <1>3, <1>4, <1>5, TypedParts

\* A thread that moves, while the rest keeps its types.
LEMMA MoveTyped ==
    ASSUME Typed, NEW t \in Threads, NEW pc, NEW left \in Seq(Calls), NEW b \in 0 .. setup.buffers,
           Moved(t, pc, left, b), pc # "idle" => left # <<>>, setup' = setup, Fields'
    PROVE  Typed'
<1>1. DOMAIN call' = Threads /\ \A u \in Threads : ThreadTyped(u)'
  BY MovedTyped
<1> QED
  BY <1>1 DEF Typed, Fields, ThreadTyped

\* Every action of a thread keeps the types.
LEMMA ThreadTypes ==
    ASSUME Typed, NEW t \in Threads, Buffered(t), Thread(t)
    PROVE  Typed'
<1> DEFINE q == call[t].left  b == call[t].b
<1>0. setup \in Setups /\ setup.buffers \in Nat \ {0} /\ q \in Seq(Calls) /\ b \in 0 .. setup.buffers
  BY SetupTypes DEF Typed
<1>1. 0 \in 0 .. setup.buffers /\ (q # <<>> => Tail(q) \in Seq(Calls))
  BY <1>0
<1>2. Fields
  BY DEF Typed, Fields
<1>3. call[t].pc # "idle" => q # <<>>
  BY DEF Typed
<1>a. ASSUME UNCHANGED <<setup, lock, aux, handle>> PROVE Fields'
  BY <1>a, <1>2 DEF Fields, Buffers
<1>b. ASSUME NEW pc, Goto(t, pc), q # <<>>, UNCHANGED setup, Fields' PROVE Typed'
  BY <1>b, <1>0, GotoMoves, MoveTyped
<1>c. ASSUME NEW e, Fail(t, e), q # <<>>, UNCHANGED setup, Fields' PROVE Typed'
  BY <1>c, <1>0, FailMoves, MoveTyped
<1>d. ASSUME Leave(t), q # <<>>, UNCHANGED setup, Fields' PROVE Typed'
  BY <1>d, <1>0, <1>1, LeaveMoves, MoveTyped
<1>4. CASE Begin(t)
  BY <1>4, <1>a, <1>b DEF Begin, At
<1>5. CASE GetAux(t)
  <2>1. CASE aux = <<>>
    BY <1>5, <2>1, <1>3, <1>a, <1>d DEF GetAux, At
  <2>2. CASE aux # <<>>
    <3>1. Head(aux) \in 0 .. setup.buffers /\ Tail(aux) \in Seq(Buffers)
      BY <2>2, <1>0 DEF Typed, Buffers
    <3>2. Moved(t, "lock", q, Head(aux))
      BY <1>5, <2>2 DEF GetAux, Typed, Moved
    <3>3. Fields'
      BY <1>5, <2>2, <3>1, <1>2 DEF GetAux, Fields, Buffers
    <3> QED
      BY <1>5, <1>0, <1>3, <3>1, <3>2, <3>3, MoveTyped DEF GetAux, At
  <2> QED
    BY <2>1, <2>2
<1>6. CASE Lock(t)
  <2>1. lock' \in [Locks -> Threads \cup {Nobody}]
    BY <1>6 DEF Lock, Typed
  <2>2. handle' = handle \/ ClientAlloc(t)
    BY <1>6 DEF Lock
  <2>3. Fields'
    BY <1>6, <2>1, <2>2, <1>2 DEF Lock, ClientAlloc, Fields, Buffers
  <2> QED
    BY <1>6, <1>3, <2>3, <1>b, <1>c DEF Lock, At
<1>7. CASE Send(t)
  BY <1>7, <1>3, <1>a, <1>b, <1>c, <1>d DEF Send, At
<1>8. CASE Wait(t)
  BY <1>8, <1>3, <1>a, <1>b DEF Wait, At
<1>9. CASE Resume(t)
  BY <1>9, <1>3, <1>a, <1>b DEF Resume, At
<1>10. CASE Timeout(t)
  BY <1>10, <1>3, <1>a, <1>c DEF Timeout, At
<1>11. CASE Read(t)
  <2>1. Moved(t, "count", q, b)
    BY <1>11 DEF Read, Typed, Moved
  <2> QED
    BY <1>11, <1>0, <1>3, <2>1, <1>a, MoveTyped DEF Read, At
<1>12. CASE Decrement(t)
  BY <1>12, <1>3, <1>a, <1>b, <1>d DEF Decrement, At
<1>13. CASE Unlock(t)
  <2>1. lock' \in [Locks -> Threads \cup {Nobody}]
    BY <1>13 DEF Unlock, Released, Typed
  <2>2. /\ \A u \in Threads \ {t} : handle'[u] = handle[u]
        /\ DOMAIN handle' = Threads /\ DOMAIN handle'[t] = {"open", "client", "aux"}
        /\ handle'[t].open = (Opens(t) \/ (handle[t].open /\ ~Closes(t)))
        /\ handle'[t].aux \in {b, 0, handle[t].aux}
    BY <1>13 DEF Unlock, Typed
  <2>3. Fields'
    BY <1>13, <1>0, <1>1, <1>2, <2>1, <2>2 DEF Unlock, Fields, Buffers
  <2>4. CASE Closes(t) /\ call' = [call EXCEPT ![t].pc = "put", ![t].b = handle[t].aux]
    <3>1. Moved(t, "put", q, handle[t].aux)
      BY <2>4 DEF Typed, Moved
    <3> QED
      BY <1>13, <1>0, <1>3, <2>3, <3>1, MoveTyped DEF Unlock, At, Typed
  <2> QED
    BY <1>13, <1>3, <2>3, <2>4, <1>b, <1>d DEF Unlock, At
<1>14. CASE UnlockAgain(t)
  <2>1. Fields'
    BY <1>14, <1>2 DEF UnlockAgain, Fields, Buffers, Locks
  <2> QED
    BY <1>14, <1>3, <2>1, <1>d DEF UnlockAgain, At
<1>15. CASE GiveUp(t)
  BY <1>15, <1>3, <1>a, <1>d DEF GiveUp, At
<1>16. CASE PutAux(t)
  <2>1. b \in Buffers
    BY <1>16, <1>0 DEF PutAux, At, Buffered, Buffers
  <2>2. aux' \in Seq(Buffers)
    BY <1>16, <2>1 DEF PutAux, Typed
  <2>3. Fields'
    BY <1>16, <2>2, <1>2 DEF PutAux, Fields, Buffers
  <2> QED
    BY <1>16, <1>3, <2>3, <1>d DEF PutAux, At
<1>17. CASE NoPipe(t)
  <2>1. Tail(aux) \in Seq(Buffers)
    BY <1>17 DEF NoPipe, Typed
  <2>2. Fields'
    BY <1>17, <2>1, <1>2 DEF NoPipe, Fields, Buffers
  <2> QED
    BY <1>17, <1>3, <2>2, <1>d DEF NoPipe, At
<1> QED
  BY <1>4, <1>5, <1>6, <1>7, <1>8, <1>9, <1>10, <1>11, <1>12, <1>13, <1>14, <1>15, <1>16, <1>17
     DEF Thread

\* A sleeper that is woken keeps its types (__xf_wakeup).
LEMMA SignalTypes == ASSUME Typed, Signal PROVE Typed'
<1>1. Fields'
  BY DEF Signal, Typed, Fields, Buffers
<1>2. CASE UNCHANGED call
  BY <1>1, <1>2 DEF Signal, Typed, Fields, Buffers
<1>3. ASSUME NEW t \in Sleepers(recv.to), Goto(t, "woken") PROVE Typed'
  <2>1. t \in Threads /\ call[t].left \in Seq(Calls) /\ call[t].b \in 0 .. setup.buffers
        /\ call[t].left # <<>>
    BY DEF Sleepers, Typed
  <2>2. Moved(t, "woken", call[t].left, call[t].b)
    BY <1>3, <2>1, GotoMoves
  <2> QED
    BY <1>1, <2>1, <2>2, MoveTyped DEF Signal
<1> QED
  BY <1>2, <1>3 DEF Signal

-----------------------------------------------------------------------------
(* Buffers and where a call is                                             *)

\* Buffered and Staged are about one thread at a time: the others keep them.
StageOf(t) ==
    /\ Buffered(t)
    /\ call[t].pc # "idle" /\ Op(t) = "command" => call[t].pc = "send"
    /\ call[t].pc = "again" => "stats" \in past

\* A thread that does not move stays where it is.
LEMMA OthersStay ==
    ASSUME NEW t \in Threads, NEW u \in Threads \ {t}, NEW pc, NEW left, NEW b,
           Moved(t, pc, left, b), handle'[u] = handle[u], past \subseteq past', StageOf(u)
    PROVE  StageOf(u)'
<1>1. call'[u] = call[u] /\ handle'[u] = handle[u]
  BY DEF Moved
<1>2. Op(u)' = Op(u)
  BY <1>1 DEF Op
<1>3. Buffered(u)'
  BY <1>1, <1>2 DEF StageOf, Buffered
<1> QED
  BY <1>1, <1>2, <1>3 DEF StageOf

\* A thread that leaves a call has its component as it was, or as it has made it.
LEMMA LeavesStage ==
    ASSUME Typed, NEW t \in Threads, Leave(t), handle'[t].open <=> handle'[t].aux # 0
    PROVE  StageOf(t)'
<1>1. Moved(t, "idle", Tail(call[t].left), 0)
  BY LeaveMoves
<1> QED
  BY <1>1 DEF Moved, StageOf, Buffered

\* A call that moves on with its buffer.
LEMMA GoesOn ==
    ASSUME Typed, NEW t \in Threads, NEW pc, pc \in Busy \cup {"lock"},
           call[t].pc \notin {"idle", "aux", "put"}, Op(t) # "command" \/ pc = "send",
           Moved(t, pc, call[t].left, call[t].b), StageOf(t),
           handle'[t].open = handle[t].open, handle'[t].aux = handle[t].aux
    PROVE  StageOf(t)'
<1>1. Op(t)' = Op(t)
  BY DEF Moved, Op
<1> QED
  BY <1>1 DEF Moved, StageOf, Buffered, Busy

\* Every action of a thread leaves it where its buffer is as it should be.
LEMMA ThreadStage ==
    ASSUME Typed, NEW t \in Threads, StageOf(t), Thread(t)
    PROVE  StageOf(t)'
<1> DEFINE q == call[t].left  b == call[t].b
<1>0. setup.buffers \in Nat \ {0} /\ (call[t].pc # "idle" => q # <<>>)
  BY SetupTypes DEF Typed
<1>a. handle[t].open <=> handle[t].aux # 0
  BY DEF StageOf, Buffered
<1>1. CASE Begin(t)
  <2>1. Moved(t, FirstStep(Op(t)), q, b) /\ call[t].pc = "idle" /\ handle' = handle
    BY <1>1, GotoMoves DEF Begin, At
  <2>2. Op(t)' = Op(t) /\ b = 0
    BY <2>1 DEF Moved, Op, StageOf, Buffered
  <2>3. FirstStep(Op(t)) \in {"aux", "send", "wait", "lock"}
        /\ (UsesAux(Op(t)) <=> FirstStep(Op(t)) = "aux")
        /\ (Op(t) = "command" => FirstStep(Op(t)) = "send")
    BY DEF FirstStep, UsesAux
  <2>4. (Op(t) = "open" => ~handle[t].open) /\ (Op(t) = "close" => handle[t].open)
    BY <1>1 DEF Begin
  <2> QED
    BY <2>1, <2>2, <2>3, <2>4 DEF Moved, StageOf, Buffered
<1>2. CASE GetAux(t)
  <2>1. CASE aux = <<>>
    BY <1>2, <1>a, <2>1, LeavesStage DEF GetAux
  <2>2. CASE aux # <<>>
    <3>1. Moved(t, "lock", q, Head(aux)) /\ handle' = handle /\ call[t].pc = "aux"
      BY <1>2, <2>2 DEF GetAux, At, Typed, Moved
    <3>2. Head(aux) # 0
      BY <1>0, <2>2 DEF Typed, Buffers
    <3>3. Op(t)' = Op(t)
      BY <3>1 DEF Moved, Op
    <3> QED
      BY <3>1, <3>2, <3>3 DEF Moved, StageOf, Buffered, UsesAux
  <2> QED
    BY <2>1, <2>2
<1>3. CASE Lock(t)
  <2>1. handle'[t].open = handle[t].open /\ handle'[t].aux = handle[t].aux
    BY <1>3 DEF Lock, ClientAlloc, Typed
  <2>2. call[t].pc = "lock" /\ (Goto(t, "send") \/ Fail(t, "memory"))
    BY <1>3 DEF Lock, At
  <2>3. Op(t) # "command"
    BY <2>2 DEF StageOf
  <2> QED
    BY <2>1, <2>2, <2>3, GotoMoves, FailMoves, GoesOn DEF Busy
<1>4. CASE Send(t)
  <2>1. handle' = handle /\ call[t].pc = "send"
    BY <1>4 DEF Send, At
  <2>2. \/ Leave(t)
        \/ Op(t) # "command" /\ Goto(t, "wait")
        \/ Op(t) # "command" /\ Fail(t, "send")
    BY <1>4 DEF Send
  <2> QED
    BY <2>1, <2>2, <1>a, LeavesStage, GotoMoves, FailMoves, GoesOn DEF Busy
<1>b. ASSUME call[t].pc \in {"wait", "sleep", "woken", "read", "count"}, handle' = handle,
             NEW pc, pc \in Busy, Moved(t, pc, q, b)
      PROVE  StageOf(t)'
  <2>1. Op(t) # "command"
    BY <1>b DEF StageOf
  <2> QED
    BY <1>b, <2>1, GoesOn DEF Busy
<1>5. CASE Wait(t)
  BY <1>5, <1>b, GotoMoves DEF Wait, At, Busy
<1>6. CASE Resume(t)
  BY <1>6, <1>b, GotoMoves DEF Resume, At, Busy
<1>7. CASE Timeout(t)
  BY <1>7, <1>b, FailMoves DEF Timeout, At, Busy
<1>8. CASE Read(t)
  <2>1. Moved(t, "count", q, b)
    BY <1>8 DEF Read, Typed, Moved
  <2> QED
    BY <1>8, <2>1, <1>b DEF Read, At, Busy
<1>9. CASE Decrement(t)
  BY <1>9, <1>a, <1>b, LeavesStage, GotoMoves DEF Decrement, At, Busy
<1>10. CASE Unlock(t)
  <2>1. /\ handle'[t].open = (Opens(t) \/ (handle[t].open /\ ~Closes(t)))
        /\ handle'[t].aux = IF Opens(t) THEN b ELSE IF Closes(t) THEN 0 ELSE handle[t].aux
    BY <1>10 DEF Unlock, Typed
  <2>2. call[t].pc = "done" /\ Op(t) # "command" /\ (b # 0 <=> UsesAux(Op(t)))
    BY <1>10 DEF Unlock, At, StageOf, Buffered
  <2>3. (Opens(t) => b # 0 /\ ~Closes(t)) /\ (Closes(t) => Op(t) = "close" /\ handle[t].open)
    BY <2>2 DEF Opens, Closes, UsesAux, StageOf, Buffered
  <2>4. handle'[t].open <=> handle'[t].aux # 0
    BY <2>1, <2>3, <1>a
  <2>5. CASE Leave(t)
    BY <2>4, <2>5, LeavesStage
  <2>6. CASE Op(t) = "stats" /\ Goto(t, "again") /\ "stats" \in past'
    <3>1. Moved(t, "again", q, b) /\ Op(t)' = Op(t)
      BY <2>6, GotoMoves DEF Moved, Op, Goto
    <3> QED
      BY <2>2, <2>4, <2>6, <3>1 DEF Moved, StageOf, Buffered
  <2>7. CASE Closes(t) /\ call' = [call EXCEPT ![t].pc = "put", ![t].b = handle[t].aux]
    <3>1. Moved(t, "put", q, handle[t].aux)
      BY <2>7 DEF Typed, Moved
    <3>2. Op(t)' = "close"
      BY <2>3, <2>7, <3>1 DEF Moved, Op
    <3> QED
      BY <2>3, <2>4, <2>7, <1>a, <3>1, <3>2 DEF Moved, StageOf, Buffered
  <2>8. CASE GivesBack(t) /\ ~Closes(t) /\ Goto(t, "put")
    <3>1. Moved(t, "put", q, b) /\ Op(t)' = Op(t)
      BY <2>8, GotoMoves DEF Moved, Op, Goto
    <3>2. b # 0 /\ ~Opens(t)
      BY <2>2, <2>8 DEF GivesBack
    <3>3. Op(t) = "open" => ~handle'[t].open
      BY <2>1, <3>2 DEF StageOf, Buffered
    <3> QED
      BY <2>2, <2>4, <3>1, <3>2, <3>3 DEF Moved, StageOf, Buffered
  <2>9. (Refused(t) => ~Closes(t) /\ ~GivesBack(t) /\ Op(t) = "stats") /\ (GivesBack(t) => ~Closes(t))
    BY DEF GivesBack, Closes, UsesAux, Refused
  <2>10. CASE Refused(t)
    BY <1>10, <2>6, <2>9, <2>10 DEF Unlock
  <2>11. CASE ~Refused(t)
    BY <1>10, <2>5, <2>7, <2>8, <2>9, <2>11 DEF Unlock
  <2> QED
    BY <2>10, <2>11
<1>11. CASE UnlockAgain(t)
  BY <1>11, <1>a, LeavesStage DEF UnlockAgain
<1>12. CASE GiveUp(t)
  BY <1>12, <1>a, LeavesStage DEF GiveUp
<1>13. CASE PutAux(t)
  BY <1>13, <1>a, LeavesStage DEF PutAux
<1>14. CASE NoPipe(t)
  BY <1>14, <1>a, LeavesStage DEF NoPipe
<1> QED
  BY <1>1, <1>2, <1>3, <1>4, <1>5, <1>6, <1>7, <1>8, <1>9, <1>10, <1>11, <1>12, <1>13, <1>14
     DEF Thread

-----------------------------------------------------------------------------
(* The two locks                                                           *)

\* Who is in the section of a lock, when only one thread moves.
LEMMA OthersSection ==
    ASSUME NEW t \in Threads, NEW u \in Threads \ {t}, NEW l \in Locks, NEW pc, NEW left, NEW b,
           Moved(t, pc, left, b)
    PROVE  InSection(u, l)' <=> InSection(u, l)
<1>1. call'[u] = call[u]
  BY DEF Moved
<1>2. Op(u)' = Op(u)
  BY <1>1 DEF Op
<1> QED
  BY <1>1, <1>2 DEF InSection

\* A thread that moves without a lock does not come into its section.
LEMMA LocksKept ==
    ASSUME OneCallAtATime, NEW t \in Threads, NEW pc, NEW left, NEW b, Moved(t, pc, left, b),
           lock' = lock, past \subseteq past',
           pc \in Busy => /\ left = call[t].left
                          /\ call[t].pc \in Busy \/ Op(t) \in {"command", "answer"}
    PROVE  OneCallAtATime'
<1>1. ASSUME NEW l \in Locks, InSection(t, l)' PROVE InSection(t, l)
  <2>1. pc \in Busy
    BY <1>1 DEF InSection, Moved, Busy
  <2>2. Op(t)' = Op(t)
    BY <2>1 DEF Moved, Op
  <2> QED
    BY <1>1, <2>1, <2>2 DEF InSection, Busy
<1>2. ASSUME NEW l \in Locks, NEW u \in Threads, InSection(u, l)' PROVE InSection(u, l)
  BY <1>1, <1>2, OthersSection
<1> QED
  BY <1>2 DEF OneCallAtATime

\* Every action of a thread leaves at most one call under a lock.
LEMMA ThreadLocks ==
    ASSUME Typed, NEW t \in Threads, StageOf(t), OneCallAtATime, Thread(t)
    PROVE  OneCallAtATime'
<1> DEFINE q == call[t].left  b == call[t].b
<1>a. ASSUME Leave(t), lock' = lock, past \subseteq past' PROVE OneCallAtATime'
  BY <1>a, LeaveMoves, LocksKept DEF Busy
<1>b. ASSUME NEW pc, Moved(t, pc, q, b), call[t].pc \in Busy \/ pc \notin Busy,
             lock' = lock, past \subseteq past'
      PROVE  OneCallAtATime'
  BY <1>b, LocksKept
<1>1. CASE Begin(t)
  <2>1. Moved(t, FirstStep(Op(t)), q, b)
    BY <1>1, GotoMoves DEF Begin
  <2>2. FirstStep(Op(t)) \in Busy => Op(t) \in {"command", "answer"}
    BY DEF FirstStep, UsesAux, Busy
  <2> QED
    BY <1>1, <2>1, <2>2, LocksKept DEF Begin
<1>2. CASE GetAux(t)
  <2>1. CASE aux = <<>>
    BY <1>2, <2>1, <1>a DEF GetAux
  <2>2. CASE aux # <<>>
    <3>1. Moved(t, "lock", q, Head(aux))
      BY <1>2, <2>2 DEF GetAux, Typed, Moved
    <3> QED
      BY <1>2, <3>1, LocksKept DEF GetAux, Busy
  <2> QED
    BY <2>1, <2>2
<1>3. CASE Lock(t)
  <2> DEFINE l == LockOf(Op(t))
  <2>1. PICK pc : Moved(t, pc, q, b)
    BY <1>3, GotoMoves, FailMoves DEF Lock
  <2>2. l \in Locks /\ lock[l] = Nobody /\ lock'[l] = t /\ \A k \in Locks \ {l} : lock'[k] = lock[k]
    BY <1>3 DEF Lock, Typed, LockOf, Locks
  <2>3. Nobody \notin Threads /\ past' = past
    BY <1>3, ProxyAssumption DEF Lock
  <2>4. \A k \in Locks : InSection(t, k)' => k = l
    BY <2>1 DEF InSection, Moved, Op
  <2>5. \A k \in Locks, u \in Threads \ {t} : InSection(u, k)' <=> InSection(u, k)
    BY <2>1, OthersSection
  <2> QED
    BY <2>2, <2>3, <2>4, <2>5 DEF OneCallAtATime
<1>4. CASE Send(t)
  BY <1>4, <1>a, <1>b, GotoMoves, FailMoves DEF Send, At, Busy
<1>5. CASE Wait(t)
  BY <1>5, <1>b, GotoMoves DEF Wait, At, Busy
<1>6. CASE Resume(t)
  BY <1>6, <1>b, GotoMoves DEF Resume, At, Busy
<1>7. CASE Timeout(t)
  BY <1>7, <1>b, FailMoves DEF Timeout, At, Busy
<1>8. CASE Read(t)
  <2>1. Moved(t, "count", q, b)
    BY <1>8 DEF Read, Typed, Moved
  <2> QED
    BY <1>8, <2>1, <1>b DEF Read, At, Busy
<1>9. CASE Decrement(t)
  BY <1>9, <1>a, <1>b, GotoMoves DEF Decrement, At, Busy
<1>10. CASE Unlock(t)
  <2> DEFINE l == LockOf(Op(t))
  <2>1. PICK pc, left, c : Moved(t, pc, left, c) /\ pc \notin Busy
    <3>1. CASE Closes(t) /\ call' = [call EXCEPT ![t].pc = "put", ![t].b = handle[t].aux]
      <4>1. Moved(t, "put", q, handle[t].aux)
        BY <3>1 DEF Typed, Moved
      <4> QED
        BY <4>1 DEF Busy
    <3>2. CASE Goto(t, "put")
      BY <3>2, GotoMoves DEF Busy
    <3>3. CASE Goto(t, "again")
      BY <3>3, GotoMoves DEF Busy
    <3>4. CASE Leave(t)
      BY <3>4, LeaveMoves DEF Busy
    <3> QED
      BY <1>10, <3>1, <3>2, <3>3, <3>4 DEF Unlock
  <2>2. l \in Locks /\ \A k \in Locks \ {l} : lock'[k] = lock[k]
    BY <1>10 DEF Unlock, Released, Typed, LockOf, Locks
  <2>3. past \subseteq past' /\ InSection(t, l)
    BY <1>10 DEF Unlock, At, InSection, StageOf
  <2>4. \A k \in Locks : ~InSection(t, k)'
    BY <2>1 DEF InSection, Moved, Busy
  <2>5. \A k \in Locks, u \in Threads \ {t} : InSection(u, k)' <=> InSection(u, k)
    BY <2>1, OthersSection
  <2> QED
    BY <2>2, <2>3, <2>4, <2>5 DEF OneCallAtATime
<1>11. CASE UnlockAgain(t)
  <2>1. "stats" \in past'
    BY <1>11 DEF UnlockAgain, At, StageOf
  <2> QED
    BY <2>1 DEF OneCallAtATime
<1>12. CASE GiveUp(t)
  BY <1>12, <1>a DEF GiveUp
<1>13. CASE PutAux(t)
  BY <1>13, <1>a DEF PutAux
<1>14. CASE NoPipe(t)
  BY <1>14, <1>a DEF NoPipe
<1> QED
  BY <1>1, <1>2, <1>3, <1>4, <1>5, <1>6, <1>7, <1>8, <1>9, <1>10, <1>11, <1>12, <1>13, <1>14
     DEF Thread

-----------------------------------------------------------------------------
(* The auxiliary buffers                                                   *)

\* a list without duplicates, and what is on it
Distinct(list) == \A i, j \in DOMAIN list : list[i] = list[j] => i = j
On(list, b)    == \E i \in DOMAIN list : list[i] = b

\* xf_buffer_get takes the head off the list, and nothing else.
LEMMA TakeHead ==
    ASSUME NEW S, NEW list \in Seq(S), list # <<>>, Distinct(list)
    PROVE  /\ Distinct(Tail(list)) /\ On(list, Head(list))
           /\ \A b : On(Tail(list), b) <=> On(list, b) /\ b # Head(list)
<1> DEFINE n == Len(list)  rest == Tail(list)
<1>1. n \in Nat \ {0} /\ DOMAIN list = 1 .. n /\ Head(list) = list[1]
  OBVIOUS
<1>2. DOMAIN rest = 1 .. n - 1 /\ \A i \in 1 .. n - 1 : rest[i] = list[i + 1]
  OBVIOUS
<1>3. Distinct(rest)
  BY <1>1, <1>2 DEF Distinct
<1>4. On(list, Head(list))
  BY <1>1 DEF On
<1>5. ASSUME NEW b, On(rest, b) PROVE On(list, b) /\ b # Head(list)
  BY <1>1, <1>2, <1>5 DEF On, Distinct
<1>6. ASSUME NEW b, On(list, b), b # Head(list) PROVE On(rest, b)
  <2>1. PICK i \in 1 .. n : list[i] = b
    BY <1>1, <1>6 DEF On
  <2>2. i # 1 /\ i - 1 \in 1 .. n - 1 /\ rest[i - 1] = b
    BY <1>1, <1>2, <1>6, <2>1
  <2> QED
    BY <1>2, <2>2 DEF On
<1> QED
  BY <1>3, <1>4, <1>5, <1>6

\* xf_buffer_put puts a buffer before the head of the list.
LEMMA PutHead ==
    ASSUME NEW S, NEW list \in Seq(S), NEW b \in S, Distinct(list), ~On(list, b)
    PROVE  /\ Distinct(<<b>> \o list)
           /\ \A c : On(<<b>> \o list, c) <=> On(list, c) \/ c = b
<1> DEFINE n == Len(list)  more == <<b>> \o list
<1>1. n \in Nat /\ DOMAIN list = 1 .. n
  OBVIOUS
<1>2. DOMAIN more = 1 .. n + 1 /\ more[1] = b /\ \A i \in 2 .. n + 1 : more[i] = list[i - 1]
  BY <1>1
<1>3. Distinct(more)
  BY <1>1, <1>2 DEF Distinct, On
<1>4. ASSUME NEW c, On(more, c) PROVE On(list, c) \/ c = b
  <2>1. PICK i \in 1 .. n + 1 : more[i] = c
    BY <1>2, <1>4 DEF On
  <2>2. CASE i = 1
    BY <1>2, <2>1, <2>2
  <2>3. CASE i # 1
    BY <1>1, <1>2, <2>1, <2>3 DEF On
  <2> QED
    BY <2>2, <2>3
<1>5. ASSUME NEW c, On(list, c) PROVE On(more, c)
  <2>1. PICK i \in 1 .. n : list[i] = c
    BY <1>1, <1>5 DEF On
  <2>2. i + 1 \in 1 .. n + 1 /\ more[i + 1] = c
    BY <1>1, <1>2, <2>1
  <2> QED
    BY <1>2, <2>2 DEF On
<1>6. On(more, b)
  BY <1>1, <1>2 DEF On
<1> QED
  BY <1>3, <1>4, <1>5, <1>6

\* AuxConserved in these terms.
LEMMA ConservedMeans ==
    AuxConserved <=>
        ("stats" \notin past =>
            /\ Distinct(aux)
            /\ "pipe" \notin past => \A b \in Buffers : On(aux, b) \/ \E t \in Threads : Holds(t, b)
            /\ \A b \in Buffers, t \in Threads :
                Holds(t, b) => ~On(aux, b) /\ \A u \in Threads : Holds(u, b) => u = t)
  BY DEF AuxConserved, Distinct, On, Free

\* What the next state needs for it.
LEMMA ConservedNext ==
    ASSUME Distinct(aux'), Buffers' = Buffers,
           "pipe" \notin past' => \A b \in Buffers : On(aux', b) \/ \E t \in Threads : Holds(t, b)',
           \A b \in Buffers, t \in Threads :
                Holds(t, b)' => ~On(aux', b) /\ \A u \in Threads : Holds(u, b)' => u = t
    PROVE  AuxConserved'
  BY DEF AuxConserved, Distinct, On, Free

\* Buffers may change hands within a thread.
LEMMA SameHolders ==
    ASSUME AuxConserved, aux' = aux, setup' = setup, past \subseteq past',
           \A u \in Threads, b \in Buffers : Holds(u, b)' <=> Holds(u, b)
    PROVE  AuxConserved'
  BY DEF AuxConserved, Free, Buffers

Kept == AuxConserved /\ Apart

\* A step that leaves every buffer where it is.
LEMMA BuffersStay ==
    ASSUME Kept, aux' = aux, setup' = setup, past \subseteq past',
           \A u \in Threads : call'[u].b = call[u].b /\ handle'[u].aux = handle[u].aux
    PROVE  Kept'
<1>1. \A u \in Threads, b \in Buffers : Holds(u, b)' <=> Holds(u, b)
  BY DEF Holds
<1>2. Apart'
  BY DEF Kept, Apart
<1> QED
  BY <1>1, <1>2, SameHolders DEF Kept

\* The same for a thread that moves and does not touch its buffer.
LEMMA BufferStays ==
    ASSUME Kept, NEW t \in Threads, NEW pc, NEW left, Moved(t, pc, left, call[t].b),
           \A u \in Threads : handle'[u].aux = handle[u].aux,
           aux' = aux, setup' = setup, past \subseteq past'
    PROVE  Kept'
<1>1. \A u \in Threads : call'[u].b = call[u].b
  BY DEF Moved
<1> QED
  BY <1>1, BuffersStay

\* Every action of a thread keeps the buffers, or is a refusal of statistics.
LEMMA ThreadBuffers ==
    ASSUME Typed, NEW t \in Threads, StageOf(t), Kept, Thread(t)
    PROVE  Kept'
<1> DEFINE q == call[t].left  b == call[t].b
<1>0. setup \in Setups /\ setup.buffers \in Nat \ {0} /\ 0 \notin Buffers
  BY SetupTypes DEF Typed, Buffers
<1>a. ASSUME NEW pc, Moved(t, pc, q, b), UNCHANGED <<handle, aux, setup>>, past \subseteq past'
      PROVE  Kept'
  BY <1>a, BufferStays
<1>b. ASSUME Leave(t), b = 0, UNCHANGED <<handle, aux, setup>>, past \subseteq past' PROVE Kept'
  BY <1>b, LeaveMoves, BufferStays
<1>1. CASE Begin(t)
  BY <1>1, <1>a, GotoMoves DEF Begin
<1>2. CASE GetAux(t)
  <2>1. b = 0
    BY <1>2 DEF GetAux, At, StageOf, Buffered
  <2>2. CASE aux = <<>>
    BY <1>2, <2>1, <2>2, <1>b DEF GetAux
  <2>3. CASE aux # <<>> /\ "stats" \notin past
    <3> DEFINE h == Head(aux)
    <3>1. Moved(t, "lock", q, h) /\ aux' = Tail(aux) /\ UNCHANGED <<handle, setup, past>>
      BY <1>2, <2>3 DEF GetAux, Typed, Moved
    <3>2. aux \in Seq(Buffers) /\ h \in Buffers /\ Distinct(aux)
      BY <2>3, ConservedMeans DEF Typed, Kept
    <3>3. /\ Distinct(aux') /\ On(aux, h)
          /\ \A c : On(aux', c) <=> On(aux, c) /\ c # h
      BY <2>3, <3>1, <3>2, TakeHead
    <3>4. \A u \in Threads : ~Holds(u, h)
      BY <2>3, <3>2, <3>3, ConservedMeans DEF Kept
    <3>5. \A u \in Threads, c \in Buffers : Holds(u, c)' <=> Holds(u, c) \/ (u = t /\ c = h)
      BY <1>0, <2>1, <3>1 DEF Holds, Moved
    <3>6. Buffers' = Buffers
      BY <3>1 DEF Buffers
    <3>7. "pipe" \notin past' => \A c \in Buffers : On(aux', c) \/ \E u \in Threads : Holds(u, c)'
      BY <2>3, <3>1, <3>3, <3>5, ConservedMeans DEF Kept
    <3>8. \A c \in Buffers, u \in Threads :
            Holds(u, c)' => ~On(aux', c) /\ \A v \in Threads : Holds(v, c)' => v = u
      BY <2>3, <3>3, <3>4, <3>5, ConservedMeans DEF Kept
    <3>9. AuxConserved'
      BY <3>3, <3>6, <3>7, <3>8, ConservedNext
    <3>10. Apart'
      BY <2>3, <3>1, <3>4 DEF Kept, Apart, Moved, Holds
    <3> QED
      BY <3>9, <3>10 DEF Kept
  <2>4. CASE "stats" \in past
    BY <1>2, <2>4 DEF GetAux, Kept, AuxConserved, Apart
  <2> QED
    BY <2>2, <2>3, <2>4
<1>3. CASE Lock(t)
  <2>1. PICK pc : Moved(t, pc, q, b)
    BY <1>3, GotoMoves, FailMoves DEF Lock
  <2>2. \A u \in Threads : handle'[u].aux = handle[u].aux
    <3>1. handle' = handle \/ handle' = [handle EXCEPT ![t].client = cmap[0]]
      BY <1>3 DEF Lock, ClientAlloc
    <3>2. \A u \in Threads \ {t} : handle'[u] = handle[u]
      BY <3>1 DEF Typed
    <3>3. handle'[t].aux = handle[t].aux
      BY <3>1 DEF Typed
    <3> QED
      BY <3>2, <3>3
  <2> QED
    BY <1>3, <2>1, <2>2, BufferStays DEF Lock
<1>4. CASE Send(t)
  <2>1. Op(t) = "command" => b = 0
    BY <1>4 DEF Send, At, StageOf, Buffered, UsesAux
  <2> QED
    BY <1>4, <2>1, <1>a, <1>b, GotoMoves, FailMoves DEF Send
<1>5. CASE Wait(t)
  BY <1>5, <1>a, GotoMoves DEF Wait
<1>6. CASE Resume(t)
  BY <1>6, <1>a, GotoMoves DEF Resume
<1>7. CASE Timeout(t)
  BY <1>7, <1>a, FailMoves DEF Timeout
<1>8. CASE Read(t)
  <2>1. Moved(t, "count", q, b)
    BY <1>8 DEF Read, Typed, Moved
  <2> QED
    BY <1>8, <2>1, <1>a DEF Read
<1>9. CASE Decrement(t)
  <2>1. Op(t) = "answer" => b = 0
    BY <1>9 DEF Decrement, At, StageOf, Buffered, UsesAux
  <2> QED
    BY <1>9, <2>1, <1>a, <1>b, GotoMoves DEF Decrement
<1>10. CASE Unlock(t)
  <2>0. /\ \A u \in Threads \ {t} : handle'[u] = handle[u]
        /\ handle'[t].aux = IF Opens(t) THEN b ELSE IF Closes(t) THEN 0 ELSE handle[t].aux
        /\ UNCHANGED <<aux, setup>> /\ past \subseteq past'
    BY <1>10 DEF Unlock, Typed
  <2>1. call[t].pc = "done" /\ (b # 0 <=> UsesAux(Op(t)))
    BY <1>10 DEF Unlock, At, StageOf, Buffered
  <2>2. CASE Refused(t)
    <3>1. "stats" \in past'
      BY <1>10, <2>2 DEF Unlock
    <3> QED
      BY <3>1 DEF Kept, AuxConserved, Apart
  <2>3. CASE Opens(t)
    <3>1. Op(t) = "open" /\ b # 0 /\ handle[t].aux = 0 /\ ~Closes(t) /\ ~GivesBack(t) /\ ~Refused(t)
      BY <2>1, <2>3 DEF Opens, Closes, GivesBack, Refused, UsesAux, StageOf, Buffered
    <3>2. Moved(t, "idle", Tail(q), 0)
      BY <1>10, <3>1, LeaveMoves DEF Unlock
    <3>3. \A u \in Threads, c \in Buffers : Holds(u, c)' <=> Holds(u, c)
      BY <1>0, <2>0, <2>3, <3>1, <3>2 DEF Holds, Moved
    <3>4. Apart'
      BY <2>0, <3>2 DEF Kept, Apart, Moved
    <3> QED
      BY <2>0, <3>3, <3>4, SameHolders DEF Kept
  <2>4. CASE Closes(t)
    <3>1. Op(t) = "close" /\ b = 0 /\ handle[t].aux # 0 /\ ~Opens(t) /\ ~GivesBack(t) /\ ~Refused(t)
      BY <2>1, <2>4 DEF Opens, Closes, GivesBack, Refused, UsesAux, StageOf, Buffered
    <3>2. Moved(t, "put", q, handle[t].aux)
      <4>1. call' = [call EXCEPT ![t].pc = "put", ![t].b = handle[t].aux]
        BY <1>10, <2>4, <3>1 DEF Unlock
      <4> QED
        BY <4>1 DEF Typed, Moved
    <3>3. \A u \in Threads, c \in Buffers : Holds(u, c)' <=> Holds(u, c)
      BY <1>0, <2>0, <2>4, <3>1, <3>2 DEF Holds, Moved
    <3>4. Apart'
      BY <2>0, <2>4, <3>1, <3>2 DEF Kept, Apart, Moved
    <3> QED
      BY <2>0, <3>3, <3>4, SameHolders DEF Kept
  <2>5. CASE ~Refused(t) /\ ~Opens(t) /\ ~Closes(t)
    <3>1. \A u \in Threads : handle'[u].aux = handle[u].aux
      BY <2>0, <2>5
    <3>2. CASE GivesBack(t)
      BY <1>10, <2>0, <2>5, <3>1, <3>2, GotoMoves, BufferStays DEF Unlock
    <3>3. CASE ~GivesBack(t)
      <4>1. b = 0 /\ Leave(t)
        BY <1>10, <2>1, <2>5, <3>3 DEF Unlock, GivesBack
      <4> QED
        BY <2>0, <3>1, <4>1, LeaveMoves, BufferStays
    <3> QED
      BY <3>2, <3>3
  <2> QED
    BY <2>2, <2>3, <2>4, <2>5
<1>11. CASE UnlockAgain(t)
  <2>1. "stats" \in past'
    BY <1>11 DEF UnlockAgain, At, StageOf
  <2> QED
    BY <2>1 DEF Kept, AuxConserved, Apart
<1>12. CASE GiveUp(t)
  <2>1. b = 0
    BY <1>12 DEF GiveUp, At, StageOf, Buffered, UsesAux
  <2> QED
    BY <1>12, <2>1, <1>b DEF GiveUp
<1>13. CASE PutAux(t)
  <2>1. Moved(t, "idle", Tail(q), 0) /\ aux' = <<b>> \o aux /\ UNCHANGED <<handle, setup, past>>
    BY <1>13, LeaveMoves DEF PutAux
  <2>2. aux \in Seq(Buffers) /\ b \in Buffers
    BY <1>0, <1>13 DEF PutAux, At, StageOf, Buffered, Typed, Buffers
  <2>3. CASE "stats" \notin past
    <3>1. Distinct(aux) /\ ~On(aux, b) /\ Holds(t, b) /\ b # handle[t].aux
          /\ \A u \in Threads : Holds(u, b) => u = t
      BY <1>0, <2>2, <2>3, ConservedMeans DEF Kept, Apart, Holds
    <3>2. Distinct(aux') /\ \A c : On(aux', c) <=> On(aux, c) \/ c = b
      BY <2>1, <2>2, <3>1, PutHead
    <3>3. \A u \in Threads, c \in Buffers : Holds(u, c)' <=> Holds(u, c) /\ c # b
      BY <1>0, <2>1, <3>1 DEF Holds, Moved
    <3>4. Buffers' = Buffers
      BY <2>1 DEF Buffers
    <3>5. "pipe" \notin past' => \A c \in Buffers : On(aux', c) \/ \E u \in Threads : Holds(u, c)'
      BY <2>1, <2>3, <3>2, <3>3, ConservedMeans DEF Kept
    <3>6. \A c \in Buffers, u \in Threads :
            Holds(u, c)' => ~On(aux', c) /\ \A v \in Threads : Holds(v, c)' => v = u
      BY <2>3, <3>2, <3>3, ConservedMeans DEF Kept
    <3>7. AuxConserved'
      BY <3>2, <3>4, <3>5, <3>6, ConservedNext
    <3>8. Apart'
      BY <2>1, <2>3 DEF Kept, Apart, Moved
    <3> QED
      BY <3>7, <3>8 DEF Kept
  <2>4. CASE "stats" \in past
    BY <2>1, <2>4 DEF Kept, AuxConserved, Apart
  <2> QED
    BY <2>3, <2>4
<1>14. CASE NoPipe(t)
  <2>1. b = 0
    BY <1>14 DEF NoPipe, At, StageOf, Buffered
  <2>2. Moved(t, "idle", Tail(q), 0) /\ aux' = Tail(aux) /\ UNCHANGED <<handle, setup>>
        /\ past' = past \cup {"pipe"}
    BY <1>14, LeaveMoves DEF NoPipe
  <2>3. CASE "stats" \notin past
    <3>1. aux # <<>> /\ aux \in Seq(Buffers) /\ Distinct(aux)
      BY <1>14, <2>3, ConservedMeans DEF NoPipe, Typed, Kept
    <3>2. Distinct(aux') /\ \A c : On(aux', c) => On(aux, c)
      BY <2>2, <3>1, TakeHead
    <3>3. \A u \in Threads, c \in Buffers : Holds(u, c)' <=> Holds(u, c)
      BY <1>0, <2>1, <2>2 DEF Holds, Moved
    <3>4. Buffers' = Buffers
      BY <2>2 DEF Buffers
    <3>5. \A c \in Buffers, u \in Threads :
            Holds(u, c)' => ~On(aux', c) /\ \A v \in Threads : Holds(v, c)' => v = u
      BY <2>3, <3>2, <3>3, ConservedMeans DEF Kept
    <3>6. AuxConserved'
      BY <2>2, <3>2, <3>4, <3>5, ConservedNext
    <3>7. Apart'
      BY <2>2, <2>3 DEF Kept, Apart, Moved
    <3> QED
      BY <3>6, <3>7 DEF Kept
  <2>4. CASE "stats" \in past
    BY <2>2, <2>4 DEF Kept, AuxConserved, Apart
  <2> QED
    BY <2>3, <2>4
<1> QED
  BY <1>1, <1>2, <1>3, <1>4, <1>5, <1>6, <1>7, <1>8, <1>9, <1>10, <1>11, <1>12, <1>13, <1>14
     DEF Thread

-----------------------------------------------------------------------------
(* The theorems                                                            *)

\* The invariant, thread by thread.
LEMMA InvStages == IInv <=> Typed /\ OneCallAtATime /\ Kept /\ \A t \in Threads : StageOf(t)
  BY DEF IInv, Kept, StageOf, Staged, BuffersHeld

\* The steps of the receiving thread and of the DSP leave the threads alone.
LEMMA StayInv ==
    ASSUME IInv, UNCHANGED <<setup, lock, aux, handle, call, past>>
    PROVE  IInv'
<1>1. Typed'
  BY DEF IInv, Typed, Buffers
<1>2. \A t \in Threads : Op(t)' = Op(t)
  BY DEF Op
<1>3. Staged' /\ BuffersHeld'
  BY <1>2 DEF IInv, Staged, BuffersHeld, Buffered
<1>4. OneCallAtATime'
  BY <1>2 DEF IInv, OneCallAtATime, InSection
<1>5. Kept'
  BY InvStages, BuffersStay
<1> QED
  BY <1>1, <1>3, <1>4, <1>5 DEF IInv, Kept

\* A sleeper that is woken keeps its buffer and its lock (__xf_wakeup).
LEMMA SignalInv == ASSUME IInv, Signal PROVE IInv'
<1>0. Typed /\ OneCallAtATime /\ Kept /\ \A t \in Threads : StageOf(t)
  BY InvStages
<1>1. UNCHANGED <<setup, lock, aux, handle, past>>
  BY DEF Signal
<1>2. ASSUME NEW t \in Sleepers(recv.to), Goto(t, "woken") PROVE IInv'
  <2>1. t \in Threads /\ call[t].pc = "sleep"
    BY DEF Sleepers
  <2>2. Moved(t, "woken", call[t].left, call[t].b)
    BY <1>0, <1>2, <2>1, GotoMoves
  <2>3. Typed'
    BY <1>0, SignalTypes
  <2>4. OneCallAtATime'
    BY <1>0, <1>1, <2>1, <2>2, LocksKept DEF Busy
  <2>5. Kept'
    BY <1>0, <1>1, <2>1, <2>2, BufferStays
  <2>6. StageOf(t)'
    BY <1>0, <1>1, <2>1, <2>2, GoesOn DEF Busy, StageOf
  <2>7. \A u \in Threads \ {t} : StageOf(u)'
    BY <1>0, <1>1, <2>1, <2>2, OthersStay
  <2> QED
    BY <2>1, <2>3, <2>4, <2>5, <2>6, <2>7 DEF IInv, Kept, StageOf, Staged, BuffersHeld
<1> QED
  BY <1>1, <1>2, StayInv DEF Signal

\* Every action of a thread keeps the invariant.
LEMMA ThreadInv == ASSUME IInv, NEW t \in Threads, Thread(t) PROVE IInv'
<1>0. Typed /\ OneCallAtATime /\ Kept /\ \A u \in Threads : StageOf(u)
  BY InvStages
<1>1. Typed'
  BY <1>0, ThreadTypes DEF StageOf
<1>2. OneCallAtATime'
  BY <1>0, ThreadLocks
<1>3. Kept'
  BY <1>0, ThreadBuffers
<1>4. StageOf(t)'
  BY <1>0, ThreadStage
<1>5. ASSUME NEW u \in Threads \ {t} PROVE StageOf(u)'
  <2>1. call'[u] = call[u] /\ handle'[u] = handle[u] /\ past \subseteq past'
    BY <1>0 DEF Typed, Thread, Begin, GetAux, NoPipe, Lock, ClientAlloc, Send, Wait, Resume, Timeout, Read,
         Decrement, Unlock, UnlockAgain, GiveUp, PutAux, Goto, Fail, Leave
  <2>2. Op(u)' = Op(u)
    BY <2>1 DEF Op
  <2> QED
    BY <1>0, <2>1, <2>2 DEF StageOf, Buffered
<1> QED
  BY <1>1, <1>2, <1>3, <1>4, <1>5 DEF IInv, Kept, StageOf, Staged, BuffersHeld

\* The proxy starts with every lock free and every buffer on the list.
LEMMA InitInv == Init => IInv
<1> SUFFICES ASSUME Init PROVE IInv
  OBVIOUS
<1>1. Typed
  BY InitTyped
<1>2. \A t \in Threads : /\ call[t].pc = "idle" /\ call[t].b = 0
                         /\ handle[t].open = FALSE /\ handle[t].aux = 0
  BY DEF Init
<1>3. Staged /\ OneCallAtATime /\ BuffersHeld /\ Apart
  BY <1>2 DEF Staged, OneCallAtATime, InSection, BuffersHeld, Buffered, Apart
<1>4. setup.buffers \in Nat /\ aux = [i \in Buffers |-> i]
  BY SetupTypes DEF Init
<1>5. \A b \in Buffers, t \in Threads : ~Holds(t, b)
  <2>1. \A b \in Buffers : b # 0
    BY <1>4 DEF Buffers
  <2> QED
    BY <1>2, <2>1 DEF Holds
<1>6. AuxConserved
  BY <1>4, <1>5 DEF AuxConserved, Free
<1> QED
  BY <1>1, <1>3, <1>6 DEF IInv

\* Types, the stages of a call, the locks and the buffers hold together: a lock
\* or a buffer is lost only by a call that is where no call can be
\* (xf_proxy_lock, xf_buffer_get, xf_buffer_put and every caller).
THEOREM Invariance == Spec => []IInv
<1>1. Init => IInv
  BY InitInv
<1>2. IInv /\ [Next]_vars => IInv'
  <2> SUFFICES ASSUME IInv, [Next]_vars PROVE IInv'
    OBVIOUS
  <2>1. CASE \E t \in Threads : Thread(t)
    BY <2>1, ThreadInv
  <2>2. CASE Signal
    BY <2>2, SignalInv
  <2>3. CASE Receive \/ Write \/ Load \/ Increment \/ Answer \/ UNCHANGED vars
    <3>1. UNCHANGED <<setup, lock, aux, handle, call, past>>
      BY <2>3 DEF Receive, Write, Load, Increment, Answer, vars
    <3> QED
      BY <3>1, StayInv
  <2> QED
    BY <2>1, <2>2, <2>3 DEF Next, ProxyThread
<1> QED
  BY <1>1, <1>2, PTL DEF Spec

\* For any number of threads and calls, two calls never wait under one lock,
\* until statistics are refused (xf_proxy_lock, xf_get_dsp_stats).
THEOREM OneCall == Spec => []OneCallAtATime
<1>1. IInv => OneCallAtATime
  BY DEF IInv
<1> QED
  BY <1>1, Invariance, PTL

\* For any number of buffers, and whatever call fails wherever it does, none is
\* lost or given out twice (xf_buffer_get, xf_buffer_put).
THEOREM BuffersConserved == Spec => []AuxConserved
<1>1. IInv => AuxConserved
  BY DEF IInv
<1> QED
  BY <1>1, Invariance, PTL

-----------------------------------------------------------------------------
(* Stages, clients and answers                                             *)

\* before an answer, or an error, a call has none
Early == {"idle", "aux", "lock", "send", "wait", "sleep", "woken", "read"}
Fresh(t) == call[t].pc \in Early => call[t].got = NoAnswer

\* calls for a component are made while it is open
Engaged(t) ==
    call[t].pc \notin {"idle", "put", "again"} /\ Op(t) \notin {"open", "alloc", "free", "stats"}
        => handle[t].open

-----------------------------------------------------------------------------
(* The list of free clients                                                *)

Nth(list, i) == IF i <= Len(list) THEN list[i] ELSE 0

Linked(list) ==
    /\ list \in Seq(Client \ {0}) /\ Distinct(list)
    /\ cmap[0] = Nth(list, 1)
    /\ \A i \in 1 .. Len(list) : cmap[list[i]] = Nth(list, i + 1)

InUse(c) == \E t \in Registered : handle[t].client = c

ClientsInv ==
    /\ DOMAIN cmap = Client
    /\ \A t \in Threads : handle[t].client \in Client
    /\ \A t \in Registered : handle[t].client # 0 /\ cmap[handle[t].client] = t
    /\ \E list : Linked(list) /\ \A c \in Client \ {0} : On(list, c) <=> ~InUse(c)

\* what Reached goes through
Within ==
    CHOOSE w : w = [n \in Nat |-> IF n = 0 THEN {cmap[0]}
                                  ELSE w[n - 1] \cup {cmap[c] : c \in w[n - 1] \ {0}}]

\* Reached is what Within has after as many steps as there are clients.
LEMMA ReachedWithin == Reached = Within[setup.clients]
  BY DEF Reached, Within

\* Along a list, Within has one element more with every step.
LEMMA WithinList ==
    ASSUME NEW list, Linked(list)
    PROVE  \A n \in Nat : Within[n] = {Nth(list, i) : i \in 1 .. n + 1}
<1> DEFINE F == {0} \cup {list[i] : i \in 1 .. Len(list)}
           D == SUBSET F
           Step(X) == X \cup {cmap[c] : c \in X \ {0}}
           a == {cmap[0]}
           g == [X \in D |-> Step(X)]
<1>0. /\ Len(list) \in Nat /\ list \in [1 .. Len(list) -> Client \ {0}]
      /\ \A i \in 1 .. Len(list) : list[i] # 0
  BY DEF Linked
<1>1. \A i \in Nat \ {0} : Nth(list, i) \in F
  BY <1>0 DEF Nth
<1>2. cmap[0] \in F /\ \A c \in F \ {0} : cmap[c] \in F
  <2>1. cmap[0] \in F
    BY <1>1 DEF Linked
  <2>2. ASSUME NEW c \in F \ {0} PROVE cmap[c] \in F
    <3>1. PICK i \in 1 .. Len(list) : c = list[i]
      BY <2>2
    <3> QED
      BY <1>0, <1>1, <3>1 DEF Linked
  <2> QED
    BY <2>1, <2>2
<1>3. a \in D /\ g \in [D -> D]
  BY <1>2
<1> HIDE DEF D, a, g
<1>4. PICK f \in [Nat -> D] : f[0] = a /\ \A n \in Nat : f[n + 1] = g[f[n]]
  BY ONLY <1>3, NatFacts!Recursion
<1>5. \A n \in Nat : f[n + 1] = Step(f[n])
  <2>1. \A X \in D : g[X] = Step(X)
    BY DEF g
  <2> QED
    BY <1>4, <2>1
<1>6. f = [n \in Nat |-> IF n = 0 THEN {cmap[0]} ELSE Step(f[n - 1])]
  <2>1. \A n \in Nat \ {0} : n - 1 \in Nat /\ f[n] = Step(f[n - 1])
    BY <1>5
  <2> HIDE DEF Step
  <2> QED
    BY <1>4, <2>1 DEF a
<1>7. Within = [n \in Nat |-> IF n = 0 THEN {cmap[0]} ELSE Step(Within[n - 1])]
  BY <1>6 DEF Within
<1> DEFINE S == {n \in Nat : Within[n] = {Nth(list, i) : i \in 1 .. n + 1}}
<1>8. 0 \in S
  BY <1>7 DEF Linked
<1>9. ASSUME NEW n \in Nat, n \in S PROVE n + 1 \in S
  <2>0. n + 1 \in Nat /\ n + 1 # 0 /\ (n + 1) - 1 = n
    OBVIOUS
  <2>1. Within[n + 1] = Step(Within[n]) /\ Within[n] = {Nth(list, i) : i \in 1 .. n + 1}
    BY <1>7, <1>9, <2>0
  <2>2. ASSUME NEW i \in 1 .. n + 1, Nth(list, i) # 0 PROVE cmap[Nth(list, i)] = Nth(list, i + 1)
    BY <2>2, <1>0 DEF Nth, Linked
  <2>3. Nth(list, n + 1) = 0 => Nth(list, n + 2) = 0
    BY <1>0 DEF Nth
  <2>4. ASSUME NEW x \in Within[n + 1] PROVE x \in {Nth(list, i) : i \in 1 .. n + 2}
    <3>1. CASE x \in Within[n]
      BY <2>1, <3>1
    <3>2. CASE x \notin Within[n]
      <4>1. PICK i \in 1 .. n + 1 : Nth(list, i) # 0 /\ x = cmap[Nth(list, i)]
        BY <2>1, <2>4, <3>2
      <4> QED
        BY <2>2, <4>1
    <3> QED
      BY <3>1, <3>2
  <2>5. ASSUME NEW i \in 1 .. n + 2 PROVE Nth(list, i) \in Within[n + 1]
    <3>1. CASE i <= n + 1
      BY <2>1, <3>1
    <3>2. CASE i = n + 2
      <4>1. n + 1 \in 1 .. n + 1 /\ (n + 1) + 1 = n + 2
        OBVIOUS
      <4>2. Nth(list, n + 1) \in Within[n]
        BY <2>1, <4>1
      <4>3. CASE Nth(list, n + 1) = 0
        BY <2>1, <2>3, <3>2, <4>2, <4>3
      <4>4. CASE Nth(list, n + 1) # 0
        <5>1. cmap[Nth(list, n + 1)] = Nth(list, n + 2)
          BY <2>2, <4>1, <4>4
        <5> QED
          BY <2>1, <3>2, <4>2, <4>4, <5>1
      <4> QED
        BY <4>3, <4>4
    <3> QED
      BY <3>1, <3>2
  <2>6. Within[n + 1] = {Nth(list, i) : i \in 1 .. (n + 1) + 1}
    <3>1. n + 2 = (n + 1) + 1
      OBVIOUS
    <3> QED
      BY <2>4, <2>5, <3>1
  <2> QED
    BY <2>6
<1> HIDE DEF S
<1>10. Nat \subseteq S
  BY <1>8, <1>9, NatFacts!Induction
<1> QED
  BY <1>10 DEF S

\* A list of clients is no longer than there are clients.
LEMMA ListBounded ==
    ASSUME setup.clients \in Nat \ {0, 1}, NEW list, Linked(list)
    PROVE  Len(list) < setup.clients
<1> DEFINE n == setup.clients - 1  N == Len(list)
<1>1. Client \ {0} = 1 .. n /\ n \in Nat
  BY DEF Client
<1>2. N \in Nat /\ list \in Injection(1 .. N, 1 .. n)
  <2>1. N \in Nat /\ list \in [1 .. N -> 1 .. n]
    BY <1>1 DEF Linked
  <2>2. \A i, j \in 1 .. N : list[i] = list[j] => i = j
    BY <2>1 DEF Linked, Distinct
  <2> QED
    BY <2>1, <2>2 DEF Injection, IsInjective
<1>3. IsFiniteSet(1 .. n) /\ Cardinality(1 .. n) = n /\ Cardinality(1 .. N) = N
  <2>1. \A k \in Nat : IsFiniteSet(1 .. k) /\ Cardinality(1 .. k) = k
    BY FS_Interval
  <2> HIDE DEF n, N
  <2> QED
    BY <1>1, <1>2, <2>1
<1>4. N <= n
  BY <1>2, <1>3, FS_Injection
<1> QED
  BY <1>1, <1>2, <1>4

\* Reached is the list and the end of it.
LEMMA ReachedIsList ==
    ASSUME setup.clients \in Nat \ {0, 1}, NEW list, Linked(list)
    PROVE  \A c : c \in Reached <=> c = 0 \/ On(list, c)
<1> DEFINE n == setup.clients  N == Len(list)
<1>1. N \in Nat /\ n \in Nat /\ N < n /\ DOMAIN list = 1 .. N
  BY ListBounded DEF Linked
<1>2. Reached = {Nth(list, i) : i \in 1 .. n + 1}
  BY ReachedWithin, WithinList
<1>3. ASSUME NEW c, On(list, c) PROVE c \in Reached
  BY <1>1, <1>2, <1>3 DEF On, Nth
<1>4. 0 \in Reached
  <2>1. N + 1 \in 1 .. n + 1 /\ Nth(list, N + 1) = 0
    BY <1>1 DEF Nth
  <2> QED
    BY <1>2, <2>1
<1>5. ASSUME NEW c \in Reached PROVE c = 0 \/ On(list, c)
  BY <1>1, <1>2 DEF On, Nth
<1> QED
  BY <1>3, <1>4, <1>5

\* The invariant says what ClientsSound does.
LEMMA ClientsAreSound ==
    ASSUME setup.clients \in Nat \ {0, 1}, ClientsInv
    PROVE  ClientsSound
<1>1. PICK list : Linked(list) /\ \A c \in Client \ {0} : On(list, c) <=> ~InUse(c)
  BY DEF ClientsInv
<1>2. \A c : c \in Reached <=> c = 0 \/ On(list, c)
  BY <1>1, ReachedIsList
<1>3. 0 \in Client /\ \A c : On(list, c) => c \in Client \ {0}
  BY <1>1 DEF Client, Linked, On
<1>4. ~InUse(0)
  BY DEF ClientsInv, InUse
<1>5. Reached = {c \in Client : ~InUse(c)}
  BY <1>1, <1>2, <1>3, <1>4
<1>6. {c \in Client : ~InUse(c)} = Client \ {handle[t].client : t \in Registered}
  BY DEF InUse
<1> QED
  BY <1>5, <1>6 DEF ClientsSound, ClientsInv

-----------------------------------------------------------------------------
(* Where a call is, and what it has got                                    *)

\* only t moves: to pc, with what is left of its calls, and what it has got
Went(t, pc, left, got) ==
    /\ \A u \in Threads \ {t} : call'[u] = call[u]
    /\ call'[t].pc = pc /\ call'[t].left = left /\ call'[t].got = got

\* A step within a call.
LEMMA GotoWent ==
    ASSUME Typed, NEW t \in Threads, NEW pc, Goto(t, pc)
    PROVE  Went(t, pc, call[t].left, call[t].got)
  BY DEF Typed, Goto, Went

\* A call that fails has an error.
LEMMA FailWent ==
    ASSUME Typed, NEW t \in Threads, NEW e, Fail(t, e)
    PROVE  Went(t, "done", call[t].left, Error(e))
  BY DEF Typed, Fail, Went

\* A thread that leaves a call forgets what it got.
LEMMA LeaveWent ==
    ASSUME Typed, NEW t \in Threads, Leave(t)
    PROVE  Went(t, "idle", Tail(call[t].left), NoAnswer)
  BY DEF Typed, Leave, Went

\* What Read leaves in a call.
LEMMA ReadWent ==
    ASSUME Typed, NEW t \in Threads, Read(t)
    PROVE  LET m == Head(queue[QueueOf(t)].pipe)
           IN  Went(t, "count", call[t].left, [error |-> "none", id |-> m.id, opcode |-> m.opcode])
  BY DEF Typed, Read, Went

\* what unlocks twice, and what waits without a message of its own
Placed(t) ==
    /\ call[t].pc = "again" => Op(t) = "stats"
    /\ call[t].pc \in {"lock", "send"} => Op(t) # "answer"

StepOf(t) == Fresh(t) /\ Engaged(t) /\ Placed(t)

\* Every action of a thread leaves it where a call may be.

LEMMA ThreadStep ==
    ASSUME Typed, NEW t \in Threads, StageOf(t), StepOf(t), Thread(t)
    PROVE  StepOf(t)'
<1> DEFINE q == call[t].left  got == call[t].got
<1>0. call[t].pc # "idle" => q # <<>>
  BY DEF Typed
<1>a. ASSUME Leave(t) PROVE StepOf(t)'
  BY <1>a, LeaveWent DEF Went, StepOf, Fresh, Engaged, Placed
<1>b. ASSUME NEW pc, Went(t, pc, q, got), UNCHANGED handle,
             call[t].pc \notin {"idle", "put", "again"}, pc \in Early => call[t].pc \in Early,
             pc # "again", pc \in {"lock", "send"} => Op(t) # "answer"
      PROVE  StepOf(t)'
  <2>1. Op(t)' = Op(t)
    BY <1>b DEF Went, Op
  <2> QED
    BY <1>b, <2>1 DEF Went, StepOf, Fresh, Engaged, Placed
<1>c. ASSUME NEW pc, NEW a, Went(t, pc, q, a), pc \notin Early \cup {"again"}, call[t].pc \notin {"idle", "put", "again"}, handle'[t].open = handle[t].open
      PROVE  StepOf(t)'
  <2>1. Op(t)' = Op(t)
    BY <1>c DEF Went, Op
  <2> QED
    BY <1>c, <2>1 DEF Went, StepOf, Fresh, Engaged, Placed, Early
<1>1. CASE Begin(t)
  <2>1. Went(t, FirstStep(Op(t)), q, got) /\ call[t].pc = "idle" /\ UNCHANGED handle
    BY <1>1, GotoWent DEF Begin, At
  <2>2. Op(t)' = Op(t) /\ got = NoAnswer
    BY <2>1 DEF Went, Op, StepOf, Fresh, Early
  <2>3. Op(t) \notin {"open", "alloc", "free", "stats"} => handle[t].open
    BY <1>1 DEF Begin
  <2>4. FirstStep(Op(t)) # "again"
        /\ (FirstStep(Op(t)) \in {"lock", "send"} => Op(t) # "answer")
    BY DEF FirstStep
  <2> QED
    BY <2>1, <2>2, <2>3, <2>4 DEF Went, StepOf, Fresh, Engaged, Placed
<1>2. CASE GetAux(t)
  <2>1. CASE aux = <<>>
    BY <1>2, <1>a, <2>1 DEF GetAux
  <2>2. CASE aux # <<>>
    <3>1. Went(t, "lock", q, got) /\ UNCHANGED handle /\ call[t].pc = "aux"
      BY <1>2, <2>2 DEF GetAux, At, Typed, Went
    <3>2. Op(t) # "answer"
      BY <3>1 DEF StageOf, Buffered, UsesAux
    <3> QED
      BY <3>1, <3>2, <1>b DEF Early
  <2> QED
    BY <2>1, <2>2
<1>3. CASE Lock(t)
  <2>1. handle'[t].open = handle[t].open
    BY <1>3 DEF Lock, ClientAlloc, Typed
  <2>2. call[t].pc = "lock"
    BY <1>3 DEF Lock, At
  <2>3. CASE Fail(t, "memory")
    BY <2>1, <2>2, <2>3, <1>c, FailWent DEF Early
  <2>4. CASE Goto(t, "send")
    <3>1. Went(t, "send", q, got) /\ got = NoAnswer
      BY <2>2, <2>4, GotoWent DEF StepOf, Fresh, Early
    <3>2. Op(t)' = Op(t)
      BY <3>1 DEF Went, Op
    <3> QED
      BY <2>1, <2>2, <3>1, <3>2 DEF Went, StepOf, Fresh, Engaged, Placed
  <2> QED
    BY <1>3, <2>3, <2>4 DEF Lock
<1>4. CASE Send(t)
  <2>1. UNCHANGED handle /\ call[t].pc = "send"
    BY <1>4 DEF Send, At
  <2>2. Leave(t) \/ Goto(t, "wait") \/ Fail(t, "send")
    BY <1>4 DEF Send
  <2> QED
    BY <2>1, <2>2, <1>a, <1>b, <1>c, GotoWent, FailWent DEF Early
<1>5. CASE Wait(t)
  <2>1. UNCHANGED handle /\ call[t].pc = "wait" /\ (Goto(t, "sleep") \/ Goto(t, "read"))
    BY <1>5 DEF Wait, At
  <2> QED
    BY <2>1, <1>b, GotoWent DEF Early
<1>6. CASE Resume(t)
  BY <1>6, <1>b, GotoWent DEF Resume, At, Early
<1>7. CASE Timeout(t)
  BY <1>7, <1>c, FailWent DEF Timeout, At, Early
<1>8. CASE Read(t)
  <2>1. UNCHANGED handle /\ call[t].pc = "read"
    BY <1>8 DEF Read, At
  <2>2. PICK a : Went(t, "count", q, a)
    BY <1>8, ReadWent
  <2> QED
    BY <2>1, <2>2, <1>c DEF Early
<1>9. CASE Decrement(t)
  <2>1. UNCHANGED handle /\ call[t].pc = "count" /\ (Leave(t) \/ Goto(t, "done"))
    BY <1>9 DEF Decrement, At
  <2> QED
    BY <2>1, <1>a, <1>b, GotoWent DEF Early
<1>10. CASE Unlock(t)
  <2>1. \/ Leave(t)
        \/ /\ call'[t].pc \in {"again", "put"} /\ call'[t].left = q
           /\ call'[t].pc = "again" => Op(t) = "stats"
    BY <1>10 DEF Unlock, Goto, Typed, Refused
  <2>2. ASSUME call'[t].left = q PROVE Op(t)' = Op(t)
    BY <2>2 DEF Op
  <2> QED
    BY <2>1, <2>2, <1>a DEF StepOf, Fresh, Engaged, Placed, Early
<1>11. CASE UnlockAgain(t)
  BY <1>11, <1>a DEF UnlockAgain
<1>12. CASE GiveUp(t)
  BY <1>12, <1>a DEF GiveUp
<1>13. CASE PutAux(t)
  BY <1>13, <1>a DEF PutAux
<1>14. CASE NoPipe(t)
  BY <1>14, <1>a DEF NoPipe
<1> QED
  BY <1>1, <1>2, <1>3, <1>4, <1>5, <1>6, <1>7, <1>8, <1>9, <1>10, <1>11, <1>12, <1>13, <1>14
     DEF Thread

-----------------------------------------------------------------------------
(* Clients taken and given back                                            *)

IsRegistered(t) == handle[t].open \/ Opening(t)

\* Nothing happens to the clients.
LEMMA ClientsStay ==
    ASSUME ClientsInv, UNCHANGED <<setup, cmap>>,
           \A u \in Threads : /\ handle'[u].client = handle[u].client
                              /\ IsRegistered(u)' <=> IsRegistered(u)
    PROVE  ClientsInv'
<1>1. Registered' = Registered
  BY DEF Registered, IsRegistered
<1>2. Client' = Client
  BY DEF Client
<1>3. \A c : InUse(c)' <=> InUse(c)
  BY <1>1 DEF InUse, Registered
<1>4. \A list : Linked(list) => Linked(list)'
  BY <1>2 DEF Linked
<1>5. \A t \in Registered : t \in Threads
  BY DEF Registered
<1> QED
  BY <1>1, <1>2, <1>3, <1>4, <1>5 DEF ClientsInv

\* The list without its head.
LEMMA TailLinked ==
    ASSUME NEW list, Linked(list), cmap[0] # 0, DOMAIN cmap = Client, 0 \in Client, NEW t,
           cmap' = [cmap EXCEPT ![0] = cmap[cmap[0]], ![cmap[0]] = t], UNCHANGED setup
    PROVE  /\ list # <<>> /\ Head(list) = cmap[0]
           /\ Linked(Tail(list))'
<1> DEFINE n == Len(list)  rest == Tail(list)  h == cmap[0]
<1>1. n \in Nat /\ list \in [1 .. n -> Client \ {0}]
  BY DEF Linked
<1>2. n # 0 /\ list # <<>> /\ h = list[1] /\ Head(list) = h /\ h \in Client \ {0}
  BY <1>1 DEF Linked, Nth
<1>3. /\ rest \in Seq(Client \ {0}) /\ Len(rest) = n - 1
      /\ \A i \in 1 .. n - 1 : rest[i] = list[i + 1]
  BY <1>1, <1>2 DEF Linked
<1>4. Distinct(rest)
  BY <1>2, TakeHead DEF Linked
<1>5. \A i \in Nat \ {0} : Nth(rest, i) = Nth(list, i + 1)
  BY <1>1, <1>3 DEF Nth
<1>6. cmap'[0] = Nth(rest, 1)
  <2>1. cmap'[0] = cmap[h]
    BY <1>2
  <2>2. cmap[h] = Nth(list, 2)
    BY <1>1, <1>2 DEF Linked
  <2> QED
    BY <2>1, <2>2, <1>5
<1>7. ASSUME NEW i \in 1 .. n - 1 PROVE cmap'[rest[i]] = Nth(rest, i + 1)
  <2>1. i + 1 \in 1 .. n /\ rest[i] = list[i + 1]
    BY <1>3
  <2>2. rest[i] # h /\ rest[i] # 0 /\ rest[i] \in Client
    BY <1>1, <1>2, <2>1 DEF Linked, Distinct
  <2>3. cmap'[rest[i]] = cmap[list[i + 1]]
    BY <2>1, <2>2
  <2>4. cmap[list[i + 1]] = Nth(list, (i + 1) + 1)
    BY <2>1 DEF Linked
  <2> QED
    BY <2>3, <2>4, <1>5
<1>8. Client' = Client
  BY DEF Client
<1> HIDE DEF rest
<1>9. Linked(rest)'
  BY <1>3, <1>4, <1>6, <1>7, <1>8 DEF Linked, Nth
<1> QED
  BY <1>2, <1>9 DEF rest

\* The list with another client before it.
LEMMA ConsLinked ==
    ASSUME NEW list, Linked(list), DOMAIN cmap = Client, NEW c \in Client \ {0}, ~On(list, c),
           cmap' = ClientFree(cmap, c), UNCHANGED setup, 0 \in Client
    PROVE  Linked(<<c>> \o list)'
<1> DEFINE n == Len(list)  more == <<c>> \o list
<1>1. n \in Nat /\ list \in [1 .. n -> Client \ {0}]
  BY DEF Linked
<1>2. /\ more \in Seq(Client \ {0}) /\ Len(more) = n + 1 /\ more[1] = c
      /\ \A i \in 2 .. n + 1 : more[i] = list[i - 1]
  BY <1>1 DEF Linked
<1>3. Distinct(more)
  BY PutHead DEF Linked
<1>4. \A i \in Nat \ {0} : Nth(more, i + 1) = Nth(list, i)
  BY <1>1, <1>2 DEF Nth
<1>5. /\ cmap'[0] = c /\ cmap'[c] = cmap[0]
      /\ \A d \in Client \ {0, c} : cmap'[d] = cmap[d]
  BY DEF ClientFree
<1>6. cmap'[0] = Nth(more, 1)
  BY <1>1, <1>2, <1>5 DEF Nth
<1>7. ASSUME NEW i \in 1 .. n + 1 PROVE cmap'[more[i]] = Nth(more, i + 1)
  <2>1. CASE i = 1
    <3>1. Nth(more, 1 + 1) = Nth(list, 1)
      BY <1>4
    <3> QED
      BY <2>1, <3>1, <1>2, <1>5 DEF Linked
  <2>2. CASE i # 1
    <3>1. i - 1 \in 1 .. n /\ (i - 1) + 1 = i /\ more[i] = list[i - 1]
      BY <2>2, <1>1, <1>2
    <3>2. list[i - 1] \in Client \ {0, c}
      BY <1>1, <3>1 DEF On
    <3>3. cmap[list[i - 1]] = Nth(list, (i - 1) + 1)
      BY <3>1 DEF Linked
    <3>4. cmap'[more[i]] = Nth(list, i)
      BY <1>5, <3>1, <3>2, <3>3
    <3>5. Nth(more, i + 1) = Nth(list, i)
      <4>1. i \in Nat \ {0}
        BY <1>1
      <4> HIDE DEF more
      <4> QED
        BY <1>4, <4>1
    <3> QED
      BY <3>4, <3>5
  <2> QED
    BY <2>1, <2>2
<1>8. Client' = Client
  BY DEF Client
<1> HIDE DEF more
<1>9. Linked(more)'
  BY <1>2, <1>3, <1>6, <1>7, <1>8 DEF Linked, Nth
<1> QED
  BY <1>9 DEF more

\* xf_client_alloc, for the thread that opens a component.
LEMMA ClientTaken ==
    ASSUME ClientsInv, 0 \in Client, NEW t \in Threads, ~IsRegistered(t), cmap[0] # 0,
           DOMAIN handle = Threads, "client" \in DOMAIN handle[t],
           ClientAlloc(t), UNCHANGED setup, IsRegistered(t)',
           \A u \in Threads \ {t} : IsRegistered(u)' <=> IsRegistered(u)
    PROVE  ClientsInv'
<1> DEFINE h == cmap[0]
<1>1. /\ cmap' = [cmap EXCEPT ![0] = cmap[h], ![h] = t]
      /\ handle'[t].client = h /\ \A u \in Threads \ {t} : handle'[u] = handle[u]
  BY DEF ClientAlloc
<1>2. PICK list : Linked(list) /\ \A c \in Client \ {0} : On(list, c) <=> ~InUse(c)
  BY DEF ClientsInv
<1>3. list # <<>> /\ Head(list) = h /\ Linked(Tail(list))'
  BY <1>1, <1>2, TailLinked DEF ClientsInv
<1>4. \A c : On(Tail(list), c) <=> On(list, c) /\ c # h
  BY <1>2, <1>3, TakeHead DEF Linked
<1>5. Registered' = Registered \cup {t} /\ t \notin Registered /\ Registered \subseteq Threads
  BY DEF Registered, IsRegistered
<1>6. h \in Client \ {0} /\ ~InUse(h)
  <2>1. h \in Client \ {0}
    BY <1>2, <1>3 DEF Linked
  <2>2. On(list, h)
    BY <1>2, <1>3, TakeHead DEF Linked
  <2> QED
    BY <1>2, <2>1, <2>2
<1>7. Client' = Client
  BY DEF Client
<1>8. \A c : InUse(c)' <=> InUse(c) \/ c = h
  BY <1>1, <1>5 DEF InUse
<1>9. DOMAIN cmap' = Client /\ \A u \in Threads : handle'[u].client \in Client
  BY <1>1, <1>6 DEF ClientsInv
<1>10. ASSUME NEW u \in Registered' PROVE handle'[u].client # 0 /\ cmap'[handle'[u].client] = u
  <2>1. CASE u = t
    BY <1>1, <1>6, <2>1 DEF ClientsInv
  <2>2. CASE u # t
    <3>1. u \in Registered /\ u \in Threads /\ handle'[u] = handle[u]
      BY <1>1, <1>5, <2>2
    <3>2. handle[u].client # h /\ handle[u].client # 0 /\ handle[u].client \in Client
      BY <1>6, <3>1 DEF InUse, ClientsInv
    <3> QED
      BY <1>1, <3>1, <3>2 DEF ClientsInv
  <2> QED
    BY <2>1, <2>2
<1>11. \A c \in Client \ {0} : On(Tail(list), c) <=> ~InUse(c)'
  BY <1>2, <1>4, <1>8
<1> QED
  BY <1>3, <1>7, <1>9, <1>10, <1>11 DEF ClientsInv

\* xf_client_free, for the thread that closes a component or has not opened it.
LEMMA ClientGiven ==
    ASSUME ClientsInv, 0 \in Client, NEW t \in Threads, IsRegistered(t), ~IsRegistered(t)',
           cmap' = ClientFree(cmap, handle[t].client), UNCHANGED setup,
           \A u \in Threads : handle'[u].client = handle[u].client,
           \A u \in Threads \ {t} : IsRegistered(u)' <=> IsRegistered(u)
    PROVE  ClientsInv'
<1> DEFINE c == handle[t].client
<1>1. t \in Registered /\ Registered' = Registered \ {t} /\ Registered \subseteq Threads
  BY DEF Registered, IsRegistered
<1>2. c \in Client \ {0} /\ cmap[c] = t /\ InUse(c)
  BY <1>1 DEF ClientsInv, InUse
<1>3. PICK list : Linked(list) /\ \A d \in Client \ {0} : On(list, d) <=> ~InUse(d)
  BY DEF ClientsInv
<1>4. ~On(list, c)
  BY <1>2, <1>3
<1>5. Linked(<<c>> \o list)'
  BY <1>2, <1>3, <1>4, ConsLinked DEF ClientsInv
<1>6. \A d : On(<<c>> \o list, d) <=> On(list, d) \/ d = c
  BY <1>2, <1>3, <1>4, PutHead DEF Linked
<1>7. \A u \in Registered \ {t} : handle[u].client # c
  BY <1>1, <1>2 DEF ClientsInv
<1>8. \A d : InUse(d)' <=> InUse(d) /\ d # c
  BY <1>1, <1>7 DEF InUse
<1>9. Client' = Client
  BY DEF Client
<1>10. DOMAIN cmap' = Client /\ \A d \in Client \ {0, c} : cmap'[d] = cmap[d]
  BY DEF ClientFree, ClientsInv
<1>11. ASSUME NEW u \in Registered' PROVE handle'[u].client # 0 /\ cmap'[handle'[u].client] = u
  BY <1>1, <1>7, <1>10 DEF ClientsInv
<1>12. \A d \in Client \ {0} : On(<<c>> \o list, d) <=> ~InUse(d)'
  BY <1>3, <1>6, <1>8
<1> QED
  BY <1>5, <1>9, <1>10, <1>11, <1>12 DEF ClientsInv

\* What a thread does to its own registration, and to no other's.
LEMMA OthersRegistered ==
    ASSUME NEW u \in Threads, call'[u] = call[u], handle'[u] = handle[u]
    PROVE  IsRegistered(u)' <=> IsRegistered(u)
  BY DEF IsRegistered, Opening, Op

\* A call keeps its component's registration, or that of the one it opens.
LEMMA SameRegistered ==
    ASSUME NEW t \in Threads, NEW pc, NEW got, Went(t, pc, call[t].left, got), handle'[t] = handle[t],
           pc \notin {"idle", "aux", "lock", "put"} <=> call[t].pc \notin {"idle", "aux", "lock", "put"},
           got.error = "memory" <=> call[t].got.error = "memory"
    PROVE  IsRegistered(t)' <=> IsRegistered(t)
  BY DEF Went, IsRegistered, Opening, Op

\* Where no call is opening a component, only an open one has a client.
LEMMA NotOpening ==
    ASSUME NEW t \in Threads, handle'[t].open = handle[t].open, ~Opening(t), ~Opening(t)'
    PROVE  IsRegistered(t)' <=> IsRegistered(t)
  BY DEF IsRegistered

\* Every action of a thread keeps the clients.
LEMMA ThreadClients ==
    ASSUME Typed, ClientsInv, 0 \in Client, NEW t \in Threads, StageOf(t), StepOf(t), Thread(t)
    PROVE  ClientsInv'
<1> DEFINE q == call[t].left  got == call[t].got
           Same == UNCHANGED <<setup, cmap, handle>>
<1>0. \A u \in Threads \ {t} : call'[u] = call[u]
  BY DEF Typed, Thread, Begin, GetAux, NoPipe, Lock, Send, Wait, Resume, Timeout, Read,
     Decrement, Unlock, UnlockAgain, GiveUp, PutAux, Goto, Fail, Leave
<1>a. ASSUME Same, IsRegistered(t)' <=> IsRegistered(t) PROVE ClientsInv'
  BY <1>0, <1>a, OthersRegistered, ClientsStay
<1>b. ASSUME Same, Leave(t), ~Opening(t) PROVE ClientsInv'
  <2>1. ~Opening(t)'
    BY <1>b, LeaveWent DEF Went, Opening
  <2> QED
    BY <1>a, <1>b, <2>1, NotOpening
<1>c. ASSUME Same, NEW pc, NEW a, Went(t, pc, q, a), pc \notin {"idle", "aux", "lock", "put"},
             call[t].pc \notin {"idle", "aux", "lock", "put"},
             a.error = "memory" <=> got.error = "memory"
      PROVE  ClientsInv'
  BY <1>a, <1>c, SameRegistered
<1>1. CASE Begin(t)
  <2>1. Went(t, FirstStep(Op(t)), q, got) /\ call[t].pc = "idle" /\ Same
    BY <1>1, GotoWent DEF Begin, At
  <2>2. ~Opening(t) /\ ~Opening(t)'
    BY <2>1 DEF Went, Opening, Op, FirstStep, UsesAux
  <2> QED
    BY <1>a, <2>1, <2>2, NotOpening
<1>2. CASE GetAux(t)
  <2>1. Same /\ call[t].pc = "aux" /\ call'[t].pc \in {"idle", "lock"}
    BY <1>2, LeaveWent DEF GetAux, At, Typed, Went
  <2> QED
    BY <1>a, <2>1, NotOpening DEF Opening
<1>3. CASE Lock(t)
  <2>0. call[t].pc = "lock" /\ ~Opening(t)
    BY <1>3 DEF Lock, At, Opening
  <2>1. CASE Op(t) # "open"
    <3>1. Went(t, "send", q, got) /\ Same
      BY <1>3, <2>1, GotoWent DEF Lock
    <3>2. ~Opening(t)'
      BY <2>1, <3>1 DEF Went, Opening, Op
    <3> QED
      BY <1>a, <2>0, <3>1, <3>2, NotOpening
  <2>2. CASE Op(t) = "open" /\ cmap[0] = 0
    <3>1. Went(t, "done", q, Error("memory")) /\ Same
      BY <1>3, <2>2, FailWent DEF Lock
    <3>2. ~Opening(t)'
      BY <3>1 DEF Went, Opening, Error, NoAnswer
    <3> QED
      BY <1>a, <2>0, <3>1, <3>2, NotOpening
  <2>3. CASE Op(t) = "open" /\ cmap[0] # 0
    <3>1. Went(t, "send", q, got) /\ ClientAlloc(t) /\ UNCHANGED setup
      BY <1>3, <2>3, GotoWent DEF Lock
    <3>2. got = NoAnswer /\ ~handle[t].open
      BY <2>0, <2>3 DEF StepOf, Fresh, Early, StageOf, Buffered
    <3>3. IsRegistered(t)' /\ ~IsRegistered(t)
      BY <2>0, <2>3, <3>1, <3>2 DEF IsRegistered, Opening, Went, Op, NoAnswer
    <3>4. \A u \in Threads \ {t} : handle'[u] = handle[u]
      BY <3>1 DEF ClientAlloc, Typed
    <3>5. DOMAIN handle = Threads /\ "client" \in DOMAIN handle[t]
      BY DEF Typed
    <3>6. \A u \in Threads \ {t} : IsRegistered(u)' <=> IsRegistered(u)
      BY <1>0, <3>4, OthersRegistered
    <3> QED
      BY <2>3, <3>1, <3>3, <3>5, <3>6, ClientTaken
  <2> QED
    BY <2>1, <2>2, <2>3
<1>4. CASE Send(t)
  <2>0. Same /\ call[t].pc = "send"
    BY <1>4 DEF Send, At
  <2>1. got.error = "none"
    BY <2>0 DEF StepOf, Fresh, Early, NoAnswer
  <2>2. CASE Op(t) = "command"
    <3>1. Leave(t) /\ ~Opening(t)
      BY <1>4, <2>2 DEF Send, Opening
    <3> QED
      BY <1>b, <2>0, <3>1
  <2>3. CASE Goto(t, "wait")
    BY <1>c, <2>0, <2>3, GotoWent
  <2>4. CASE Fail(t, "send")
    <3>1. Went(t, "done", q, Error("send")) /\ Error("send").error # "memory"
      BY <2>4, FailWent DEF Error, NoAnswer
    <3> QED
      BY <1>c, <2>0, <2>1, <3>1
  <2> QED
    BY <1>4, <2>2, <2>3, <2>4 DEF Send
<1>5. CASE Wait(t)
  <2>1. Same /\ call[t].pc = "wait" /\ (Goto(t, "sleep") \/ Goto(t, "read"))
    BY <1>5 DEF Wait, At
  <2> QED
    BY <2>1, <1>c, GotoWent
<1>6. CASE Resume(t)
  BY <1>6, <1>c, GotoWent DEF Resume, At
<1>7. CASE Timeout(t)
  <2>0. Same /\ call[t].pc = "sleep"
    BY <1>7 DEF Timeout, At
  <2>1. got.error = "none"
    BY <2>0 DEF StepOf, Fresh, Early, NoAnswer
  <2>2. Went(t, "done", q, Error("timeout")) /\ Error("timeout").error # "memory"
    BY <1>7, FailWent DEF Timeout, Error, NoAnswer
  <2> QED
    BY <1>c, <2>0, <2>1, <2>2
<1>8. CASE Read(t)
  <2>0. Same /\ call[t].pc = "read"
    BY <1>8 DEF Read, At
  <2>1. got.error = "none"
    BY <2>0 DEF StepOf, Fresh, Early, NoAnswer
  <2>2. \E a : Went(t, "count", q, a) /\ a.error = "none"
    <3> DEFINE m == Head(queue[QueueOf(t)].pipe)
               a == [error |-> "none", id |-> m.id, opcode |-> m.opcode]
    <3>1. Went(t, "count", q, a)
      BY <1>8, ReadWent
    <3> QED
      BY <3>1
  <2> QED
    BY <1>c, <2>0, <2>1, <2>2
<1>9. CASE Decrement(t)
  <2>1. Same /\ call[t].pc = "count"
    BY <1>9 DEF Decrement, At
  <2>2. CASE Op(t) = "answer"
    <3>1. Leave(t) /\ ~Opening(t)
      BY <1>9, <2>2 DEF Decrement, Opening
    <3> QED
      BY <1>b, <2>1, <3>1
  <2>3. CASE Goto(t, "done")
    BY <1>c, <2>1, <2>3, GotoWent
  <2> QED
    BY <1>9, <2>2, <2>3 DEF Decrement
<1>10. CASE Unlock(t)
  <2>0. call[t].pc = "done" /\ UNCHANGED setup
    BY <1>10 DEF Unlock, At
  <2>1. /\ \A u \in Threads \ {t} : handle'[u] = handle[u]
        /\ handle'[t].open = (Opens(t) \/ (handle[t].open /\ ~Closes(t)))
        /\ handle'[t].client = handle[t].client
    BY <1>10 DEF Unlock, Typed
  <2>2. \A u \in Threads \ {t} : IsRegistered(u)' <=> IsRegistered(u)
    BY <1>0, <2>1, OthersRegistered
  <2>3. \A u \in Threads : handle'[u].client = handle[u].client
    BY <2>1
  <2>4. call'[t].pc \in {"again", "put", "idle"}
        /\ (call'[t].pc = "again" => Op(t) = "stats" /\ call'[t].left = q)
    BY <1>10, LeaveWent, GotoWent DEF Unlock, Typed, Went, Refused
  <2>5. ~Opening(t)'
    BY <2>4 DEF Opening, Op
  <2>6. (Op(t) = "open" => ~handle[t].open) /\ (Op(t) = "close" => handle[t].open)
    BY <2>0 DEF StageOf, Buffered
  <2>7. CASE Closes(t)
    <3>1. IsRegistered(t) /\ ~IsRegistered(t)'
      BY <2>1, <2>5, <2>6, <2>7 DEF IsRegistered, Closes, Opens
    <3>2. cmap' = ClientFree(cmap, handle[t].client)
      BY <1>10, <2>7 DEF Unlock
    <3> QED
      BY <2>0, <2>2, <2>3, <3>1, <3>2, ClientGiven
  <2>8. CASE Undone(t)
    <3>1. IsRegistered(t) /\ ~IsRegistered(t)'
      BY <2>0, <2>1, <2>5, <2>6, <2>8 DEF IsRegistered, Undone, Opens, Opening
    <3>2. cmap' = ClientFree(cmap, handle[t].client)
      BY <1>10, <2>8 DEF Unlock
    <3> QED
      BY <2>0, <2>2, <2>3, <3>1, <3>2, ClientGiven
  <2>9. CASE ~Closes(t) /\ ~Undone(t)
    <3>1. UNCHANGED <<setup, cmap>>
      BY <1>10, <2>9 DEF Unlock
    <3>2. CASE Opens(t)
      <4>1. IsRegistered(t)'
        BY <2>1, <3>2 DEF IsRegistered
      <4>2. IsRegistered(t)
        BY <2>0, <3>2 DEF IsRegistered, Opens, Opening, Failed
      <4> QED
        BY <2>2, <2>3, <3>1, <4>1, <4>2, ClientsStay
    <3>3. CASE ~Opens(t)
      <4>1. ~Opening(t)
        BY <2>9, <3>3 DEF Opening, Undone, Opens
      <4>2. IsRegistered(t)' <=> IsRegistered(t)
        BY <2>1, <2>5, <2>9, <3>3, <4>1 DEF IsRegistered
      <4> QED
        BY <2>2, <2>3, <3>1, <4>2, ClientsStay
    <3> QED
      BY <3>2, <3>3
  <2> QED
    BY <2>7, <2>8, <2>9
<1>11. CASE UnlockAgain(t)
  <2>1. Same /\ Leave(t) /\ call[t].pc = "again"
    BY <1>11 DEF UnlockAgain, At
  <2>2. ~Opening(t)
    BY <2>1 DEF StepOf, Placed, Opening
  <2> QED
    BY <1>b, <2>1, <2>2
<1>12. CASE GiveUp(t)
  BY <1>12, <1>b DEF GiveUp, Opening
<1>13. CASE PutAux(t)
  BY <1>13, <1>b DEF PutAux, At, Opening
<1>14. CASE NoPipe(t)
  BY <1>14, <1>b DEF NoPipe, At, Opening
<1> QED
  BY <1>1, <1>2, <1>3, <1>4, <1>5, <1>6, <1>7, <1>8, <1>9, <1>10, <1>11, <1>12, <1>13, <1>14
     DEF Thread

-----------------------------------------------------------------------------
(* The clients, whatever goes wrong                                        *)

CallsInv == IInv /\ ClientsInv /\ \A t \in Threads : StepOf(t)

\* What a setup has for the clients.
LEMMA SetupClients == \A s \in Setups : s.clients \in Nat \ {0, 1}
  BY ProxyAssumption

\* The table of clients has a head.
LEMMA HeadIsClient == ASSUME Typed PROVE 0 \in Client
<1>1. setup.clients \in Nat \ {0, 1}
  BY SetupClients DEF Typed
<1> QED
  BY <1>1 DEF Client

\* xf_proxy_init makes every client free, in order.
LEMMA InitClients == Init => CallsInv
<1> SUFFICES ASSUME Init PROVE CallsInv
  OBVIOUS
<1> DEFINE n == setup.clients - 1  list == [i \in 1 .. n |-> i]
<1>1. setup.clients \in Nat \ {0, 1} /\ n \in Nat \ {0} /\ Client = 0 .. n
  BY SetupClients DEF Init, Client
<1>2. /\ cmap = [i \in Client |-> (i + 1) % setup.clients]
      /\ \A t \in Threads : /\ handle[t].client = 0 /\ handle[t].open = FALSE
                            /\ call[t].pc = "idle" /\ call[t].got = NoAnswer
  BY DEF Init
<1>3. \A t \in Threads : ~IsRegistered(t)
  BY <1>2 DEF IsRegistered, Opening
<1>4. list \in Seq(Client \ {0}) /\ Len(list) = n /\ Distinct(list)
  <2>1. \A i \in 1 .. n : i \in Client \ {0}
    BY <1>1
  <2>2. list \in [1 .. n -> Client \ {0}] /\ n \in Nat
    BY <1>1, <2>1
  <2>3. list \in Seq(Client \ {0}) /\ Len(list) = n
    BY <2>2, IsASeq, LenProperties, SMTT(30)
  <2> QED
    BY <2>2, <2>3 DEF Distinct
<1>5. \A i \in 0 .. n : cmap[i] = Nth(list, i + 1)
  <2> TAKE i \in 0 .. n
  <2>1. cmap[i] = (i + 1) % (n + 1) /\ i \in Nat /\ i <= n
    BY <1>1, <1>2
  <2>2. CASE i = n
    <3>1. cmap[i] = 0
      BY <1>1, <2>1, <2>2
    <3> QED
      BY <1>1, <1>4, <2>2, <3>1 DEF Nth
  <2>3. CASE i < n
    <3>1. \A a \in Nat, b \in Nat \ {0} : a < b => a % b = a
      OBVIOUS
    <3>2. i + 1 \in Nat /\ n + 1 \in Nat \ {0} /\ i + 1 < n + 1
      BY <1>1, <2>1, <2>3
    <3>3. cmap[i] = i + 1
      BY <2>1, <3>1, <3>2
    <3> QED
      BY <1>1, <1>4, <2>3, <3>3 DEF Nth
  <2> QED
    BY <1>1, <2>1, <2>2, <2>3
<1>6. Linked(list)
  <2>1. cmap[0] = Nth(list, 1)
    BY <1>1, <1>5
  <2>2. \A i \in 1 .. Len(list) : cmap[list[i]] = Nth(list, i + 1)
    BY <1>1, <1>4, <1>5
  <2> QED
    BY <1>4, <2>1, <2>2 DEF Linked
<1>7. \A c \in Client \ {0} : On(list, c) /\ ~InUse(c)
  <2>1. \A c \in Client \ {0} : On(list, c)
    BY <1>1 DEF On
  <2>2. \A c : ~InUse(c)
    BY <1>3 DEF InUse, Registered, IsRegistered
  <2> QED
    BY <2>1, <2>2
<1>8. ClientsInv
  <2>1. DOMAIN cmap = Client /\ \A t \in Threads : handle[t].client \in Client
    BY <1>1, <1>2
  <2>2. Registered = {}
    BY <1>3 DEF Registered, IsRegistered
  <2> HIDE DEF list
  <2> QED
    BY <1>6, <1>7, <2>1, <2>2 DEF ClientsInv
<1> QED
  BY <1>2, <1>8, InitInv DEF CallsInv, StepOf, Fresh, Engaged, Placed

\* A thread that does not move is where it was.
LEMMA OthersStep ==
    ASSUME NEW u \in Threads, call'[u] = call[u], handle'[u] = handle[u], StepOf(u)
    PROVE  StepOf(u)'
  BY DEF StepOf, Fresh, Engaged, Placed, Op

\* What the receiving thread and the DSP do is not about the clients.
LEMMA ClientsElsewhere ==
    ASSUME CallsInv, IInv', UNCHANGED <<setup, cmap, handle, call>>
    PROVE  CallsInv'
<1>1. \A u \in Threads : IsRegistered(u)' <=> IsRegistered(u)
  BY OthersRegistered
<1>2. ClientsInv'
  BY <1>1, ClientsStay DEF CallsInv
<1>3. \A u \in Threads : StepOf(u)'
  BY OthersStep DEF CallsInv
<1> QED
  BY <1>2, <1>3 DEF CallsInv

\* Nor is a thread's being woken.
LEMMA SignalClients == ASSUME CallsInv, IInv', Signal PROVE CallsInv'
<1>1. UNCHANGED <<setup, cmap, handle>>
  BY DEF Signal
<1>2. ASSUME NEW t \in Sleepers(recv.to), Goto(t, "woken") PROVE CallsInv'
  <2>0. Typed /\ t \in Threads /\ call[t].pc = "sleep"
    BY DEF CallsInv, IInv, Sleepers
  <2>1. Went(t, "woken", call[t].left, call[t].got)
    BY <1>2, <2>0, GotoWent
  <2>2. IsRegistered(t)' <=> IsRegistered(t)
    BY <1>1, <2>0, <2>1, SameRegistered
  <2>3. \A u \in Threads \ {t} : IsRegistered(u)' <=> IsRegistered(u)
    BY <1>1, <2>1, OthersRegistered DEF Went
  <2>4. ClientsInv'
    BY <1>1, <2>0, <2>2, <2>3, ClientsStay DEF CallsInv
  <2>5. Op(t)' = Op(t)
    BY <2>1 DEF Went, Op
  <2>6. StepOf(t)'
    BY <1>1, <2>0, <2>1, <2>5 DEF CallsInv, StepOf, Fresh, Engaged, Placed, Early, Went
  <2>7. \A u \in Threads \ {t} : StepOf(u)'
    BY <1>1, <2>1, OthersStep DEF Went, CallsInv
  <2> QED
    BY <2>0, <2>4, <2>6, <2>7 DEF CallsInv
<1> QED
  BY <1>1, <1>2, ClientsElsewhere DEF Signal

\* Every action of a thread keeps the invariant.
LEMMA ThreadCalls == ASSUME CallsInv, NEW t \in Threads, Thread(t) PROVE CallsInv'
<1>0. IInv /\ Typed /\ ClientsInv /\ StageOf(t) /\ \A u \in Threads : StepOf(u)
  BY InvStages DEF CallsInv
<1>1. IInv'
  BY <1>0, ThreadInv
<1>2. ClientsInv'
  BY <1>0, ThreadClients, HeadIsClient
<1>3. StepOf(t)'
  BY <1>0, ThreadStep
<1>4. ASSUME NEW u \in Threads \ {t} PROVE StepOf(u)'
  <2>1. call'[u] = call[u]
    BY <1>0 DEF Typed, Thread, Begin, GetAux, NoPipe, Lock, Send, Wait, Resume, Timeout, Read,
         Decrement, Unlock, UnlockAgain, GiveUp, PutAux, Goto, Fail, Leave
  <2>2. handle'[u].open = handle[u].open
    BY <1>0 DEF Typed, Thread, Begin, GetAux, NoPipe, Lock, ClientAlloc, Send, Wait, Resume, Timeout, Read,
         Decrement, Unlock, UnlockAgain, GiveUp, PutAux
  <2>3. Op(u)' = Op(u)
    BY <2>1 DEF Op
  <2> QED
    BY <1>0, <2>1, <2>2, <2>3 DEF StepOf, Fresh, Engaged, Placed
<1> QED
  BY <1>1, <1>2, <1>3, <1>4 DEF CallsInv

\* Types, locks, buffers and clients, and where a call is with which answer.
THEOREM CallsInvariance == Spec => []CallsInv
<1>1. Init => CallsInv
  BY InitClients
<1>2. CallsInv /\ IInv' /\ [Next]_vars => CallsInv'
  <2> SUFFICES ASSUME CallsInv, IInv', [Next]_vars PROVE CallsInv'
    OBVIOUS
  <2>1. CASE \E t \in Threads : Thread(t)
    BY <2>1, ThreadCalls
  <2>2. CASE Signal
    BY <2>2, SignalClients
  <2>3. CASE Receive \/ Write \/ Load \/ Increment \/ Answer \/ UNCHANGED vars
    <3>1. UNCHANGED <<setup, cmap, handle, call>>
      BY <2>3 DEF Receive, Write, Load, Increment, Answer, vars
    <3> QED
      BY <3>1, ClientsElsewhere
  <2> QED
    BY <2>1, <2>2, <2>3 DEF Next, ProxyThread
<1> QED
  BY <1>1, <1>2, Invariance, PTL DEF Spec

\* For any number of threads and clients, and whatever call fails wherever it
\* does: from the head of the table hang exactly the clients that no component
\* has, and what a component has names its owner (xf_client_alloc,
\* xf_client_free, xf_open, xf_close).
THEOREM ClientsKept == Spec => []ClientsSound
<1>1. CallsInv => ClientsSound
  <2> SUFFICES ASSUME CallsInv PROVE ClientsSound
    OBVIOUS
  <2>1. setup.clients \in Nat \ {0, 1}
    BY SetupClients DEF CallsInv, IInv, Typed
  <2> QED
    BY <2>1, ClientsAreSound DEF CallsInv
<1> QED
  BY <1>1, CallsInvariance, PTL

-----------------------------------------------------------------------------
(* The way of a response                                                   *)

Requests  == [id : Threads \X Nat, op : Calls, comp : Threads \cup {Nobody}, back : Int]
Responses == [id : Threads \X Nat, opcode : Calls, back : Int]
QueueFields == {"pipe", "num_msg_in_wait", "mutex"}
RecvFields  == {"pc", "msg", "to", "count"}

MsgTyped ==
    /\ dsp \subseteq Requests /\ wire \in Seq(Responses)
    /\ DOMAIN queue = Queues
    /\ \A q \in Queues : DOMAIN queue[q] = QueueFields /\ queue[q].pipe \in Seq(Responses)
    /\ DOMAIN recv = RecvFields /\ recv.to \in Queues
    /\ recv.pc = "write" => recv.msg \in Responses

Waiting   == {"wait", "sleep", "woken", "read"}
Awaits(t) == call[t].pc \in Waiting /\ Op(t) \notin {"command", "answer"}

\* where what is for a shared wait queue may be: with the DSP, on the wire, in
\* the receiving thread's hand, in the pipe
Back(q)    == IF q = "delayed" THEN -1 ELSE 0
DspFor(q)  == {m \in dsp : m.back = Back(q)}
WireFor(q) == {i \in DOMAIN wire : wire[i].back = Back(q)}
Hand(q)    == recv.pc = "write" /\ recv.to = q
Pipe(q)    == queue[q].pipe

Clear(q) == DspFor(q) = {} /\ WireFor(q) = {} /\ ~Hand(q) /\ Pipe(q) = <<>>

OnItsWay(t, q) ==
    \/ /\ DspFor(q) = {Message(t)}
       /\ WireFor(q) = {} /\ ~Hand(q) /\ Pipe(q) = <<>>
    \/ /\ \E i \in DOMAIN wire : WireFor(q) = {i} /\ wire[i].id = Id(t)
       /\ DspFor(q) = {} /\ ~Hand(q) /\ Pipe(q) = <<>>
    \/ /\ Hand(q) /\ recv.msg.id = Id(t)
       /\ DspFor(q) = {} /\ WireFor(q) = {} /\ Pipe(q) = <<>>
    \/ /\ Len(Pipe(q)) = 1 /\ Pipe(q)[1].id = Id(t)
       /\ DspFor(q) = {} /\ WireFor(q) = {} /\ ~Hand(q)

\* one call at a time awaits one response
OneResponse(q) == Clear(q) \/ \E t \in Threads : Awaits(t) /\ QueueOf(t) = q /\ OnItsWay(t, q)

\* what is for a component is for the one that sent the message, and that is open
Command(x, t) == x.back \notin {0, -1} /\ x.id[1] = t
Own(x)        == x.back \notin {0, -1} =>
                    handle[x.id[1]].open /\ handle[x.id[1]].client = x.back
OwnCommands ==
    /\ \A m \in dsp : Own(m) /\ (m.back \notin {0, -1} => m.comp = m.id[1])
    /\ \A i \in DOMAIN wire : Own(wire[i])
    /\ recv.pc # "idle" /\ recv.to \notin Shared =>
        handle[recv.to].open /\ (recv.pc = "write" => recv.msg.id[1] = recv.to)
    /\ \A t \in Threads : \A i \in DOMAIN Pipe(t) : Pipe(t)[i].id[1] = t

NoCommand(t) ==
    /\ \A m \in dsp : ~Command(m, t)
    /\ \A i \in DOMAIN wire : ~Command(wire[i], t)
    /\ ~(recv.pc # "idle" /\ recv.to = t)

\* behind the response to a deletion comes nothing for the component
Closing(t) ==
    /\ Awaits(t) /\ Op(t) = "close" =>
        /\ \A i \in DOMAIN wire : wire[i].back = 0 /\ wire[i].id = Id(t) =>
            /\ \A m \in dsp : ~Command(m, t)
            /\ \A j \in DOMAIN wire : j > i => ~Command(wire[j], t)
        /\ Hand("sync") /\ recv.msg.id = Id(t) => NoCommand(t)
        /\ \A i \in DOMAIN Pipe("sync") : Pipe("sync")[i].id = Id(t) => NoCommand(t)
    /\ call[t].pc \in {"count", "done"} /\ Op(t) = "close" /\ call[t].got.error = "none" => NoCommand(t)

Got(t) ==
    call[t].got.id # <<>> =>
        IF Op(t) = "answer" THEN call[t].got.id[1] = t ELSE call[t].got.id = Id(t)

Answers ==
    /\ \A q \in Shared : OneResponse(q)
    /\ OwnCommands
    /\ \A t \in Threads : Closing(t) /\ Got(t)

Answered   == past \subseteq {"pipe"} => Answers
AnswersInv == CallsInv /\ MsgTyped /\ Answered

\* What a response is for does not change while nothing moves on its way: pipes
\* stay, or those of components are emptied, and the receiving thread stays
\* where it was with what it has, or has nothing.
Still ==
    /\ UNCHANGED <<dsp, wire>>
    /\ DOMAIN queue' = Queues
    /\ \A q \in Queues :
        /\ DOMAIN queue'[q] = QueueFields
        /\ queue'[q].pipe = queue[q].pipe \/ (q \notin Shared /\ queue'[q].pipe = <<>>)
    /\ DOMAIN recv' = RecvFields /\ recv'.to \in Queues
    /\ recv'.pc = "write" <=> recv.pc = "write"
    /\ recv'.pc # "idle" => recv.pc # "idle" /\ recv'.to = recv.to /\ recv'.msg = recv.msg

\* Types where nothing moves.
LEMMA StillTyped == ASSUME MsgTyped, Still PROVE MsgTyped'
<1>1. Queues' = Queues /\ Requests' = Requests /\ Responses' = Responses
  BY DEF Queues, Shared, Requests, Responses, Calls
<1>2. \A q \in Queues : DOMAIN queue'[q] = QueueFields /\ queue'[q].pipe \in Seq(Responses)
  <2>1. <<>> \in Seq(Responses)
    OBVIOUS
  <2> QED
    BY <2>1 DEF MsgTyped, Still
<1>3. recv'.pc = "write" => recv'.msg \in Responses
  BY DEF MsgTyped, Still
<1> QED
  BY <1>1, <1>2, <1>3 DEF MsgTyped, Still

\* The message of a call, and its wait queue, have their types.
LEMMA MessageType ==
    ASSUME CallsInv, NEW t \in Threads, call[t].left # <<>>
    PROVE  /\ Id(t) \in Threads \X Nat /\ Id(t)[1] = t
           /\ Op(t) \in Calls /\ Message(t) \in Requests /\ QueueOf(t) \in Queues
<1>1. call[t].left \in Seq(Calls) /\ Op(t) \in Calls
  BY OpType DEF CallsInv, IInv, Typed
<1>2. Id(t) \in Threads \X Nat /\ Id(t)[1] = t
  BY <1>1 DEF Id
<1>3. handle[t].client \in Int
  <2>1. setup.clients \in Nat \ {0, 1}
    BY SetupClients DEF CallsInv, IInv, Typed
  <2> QED
    BY <2>1 DEF CallsInv, ClientsInv, Client
<1>4. Message(t) \in Requests
  BY <1>1, <1>2, <1>3 DEF Message, Requests
<1>5. QueueOf(t) \in Queues
  BY DEF QueueOf, Queues, Shared
<1> QED
  BY <1>1, <1>2, <1>4, <1>5

\* A field of a wait queue that is not the pipe.
LEMMA SetStill ==
    ASSUME MsgTyped, NEW q \in Queues, NEW f \in QueueFields \ {"pipe"}, NEW v, Set(q, f, v),
           UNCHANGED <<dsp, wire, recv>>
    PROVE  Still
<1>1. DOMAIN queue' = Queues /\ \A r \in Queues \ {q} : queue'[r] = queue[r]
  BY DEF MsgTyped, Set
<1>2. queue'[q] = [queue[q] EXCEPT ![f] = v]
  BY DEF MsgTyped, Set
<1>3. DOMAIN queue'[q] = QueueFields /\ queue'[q].pipe = queue[q].pipe
  BY <1>2 DEF MsgTyped, QueueFields
<1> QED
  BY <1>1, <1>3 DEF MsgTyped, Still

\* No thread moves a response, except where it reads, and no request, except
\* where it sends.
LEMMA ThreadStill ==
    ASSUME CallsInv, MsgTyped, NEW t \in Threads, Thread(t), dsp' = dsp, ~Read(t)
    PROVE  Still
<1>0. call[t].pc # "idle" => QueueOf(t) \in Queues
  BY MessageType DEF CallsInv, IInv, Typed
<1>a. ASSUME UNCHANGED <<queue, recv, wire>> PROVE Still
  BY <1>a DEF MsgTyped, Still
<1>1. CASE UNCHANGED queue
  BY <1>1, <1>a DEF Thread, Begin, GetAux, NoPipe, Lock, Send, Wait, Resume, Timeout, Read,
     Decrement, Unlock, UnlockAgain, GiveUp, PutAux
<1>2. CASE GetAux(t) /\ queue' = [queue EXCEPT ![t] = EmptyQueue]
  <2>1. UNCHANGED <<recv, wire>>
    BY <1>2 DEF GetAux
  <2>2. t \in Queues /\ t \notin Shared /\ DOMAIN EmptyQueue = QueueFields
    BY ProxyAssumption DEF Queues, Shared, EmptyQueue, QueueFields
  <2>3. DOMAIN queue' = Queues /\ queue'[t] = EmptyQueue
        /\ \A q \in Queues \ {t} : queue'[q] = queue[q]
    BY <1>2, <2>2 DEF MsgTyped
  <2>4. DOMAIN queue'[t] = QueueFields /\ queue'[t].pipe = <<>>
    BY <2>2, <2>3 DEF EmptyQueue
  <2> QED
    BY <2>1, <2>2, <2>3, <2>4 DEF MsgTyped, Still
<1>3. CASE Wait(t) /\ Set(QueueOf(t), "mutex", t)
  <2>1. UNCHANGED <<recv, wire>> /\ QueueOf(t) \in Queues
    BY <1>0, <1>3 DEF Wait, At
  <2> QED
    BY <1>3, <2>1, SetStill DEF QueueFields
<1>4. CASE Resume(t)
  <2>1. UNCHANGED <<recv, wire>> /\ QueueOf(t) \in Queues /\ Set(QueueOf(t), "mutex", t)
    BY <1>0, <1>4 DEF Resume, At
  <2> QED
    BY <2>1, SetStill DEF QueueFields
<1>5. CASE Decrement(t)
  <2> DEFINE q == QueueOf(t)
  <2>1. UNCHANGED <<recv, wire>> /\ q \in Queues
    BY <1>0, <1>5 DEF Decrement, At
  <2>2. queue' = [queue EXCEPT ![q].num_msg_in_wait = Decremented(t), ![q].mutex = Nobody]
    BY <1>5 DEF Decrement
  <2>3. /\ DOMAIN queue' = Queues /\ \A r \in Queues \ {q} : queue'[r] = queue[r]
        /\ DOMAIN queue'[q] = QueueFields /\ queue'[q].pipe = queue[q].pipe
    BY <2>1, <2>2 DEF MsgTyped, QueueFields
  <2> QED
    BY <2>1, <2>3 DEF MsgTyped, Still
<1> QED
  BY <1>1, <1>2, <1>3, <1>4, <1>5 DEF Thread, Begin, GetAux, NoPipe, Lock, Send, Wait, Timeout,
     Unlock, UnlockAgain, GiveUp, PutAux

\* Nor does the receiving thread where it counts a response and announces it.
LEMMA CountStill == ASSUME MsgTyped, Load \/ Increment \/ Signal PROVE Still
<1>1. CASE Load
  BY <1>1 DEF Load, MsgTyped, Still, RecvFields
<1>2. CASE Increment
  <2> DEFINE v == 1 + IF "torn" \in setup.faults THEN recv.count ELSE queue[recv.to].num_msg_in_wait
  <2>1. Set(recv.to, "num_msg_in_wait", v) /\ recv.to \in Queues
    BY <1>2 DEF Increment, MsgTyped
  <2>2. \A q \in Queues : DOMAIN queue'[q] = QueueFields /\ queue'[q].pipe = queue[q].pipe
    BY <2>1 DEF Set, MsgTyped, QueueFields
  <2>3. DOMAIN queue' = Queues
    BY <2>1 DEF Set, MsgTyped
  <2>4. recv' = [recv EXCEPT !.pc = "signal", !.count = 0] /\ recv.pc \in {"store", "load"}
        /\ UNCHANGED <<dsp, wire>>
    BY <1>2 DEF Increment
  <2>5. DOMAIN recv' = RecvFields /\ recv'.to = recv.to /\ recv'.msg = recv.msg /\ recv'.pc = "signal"
    BY <2>4 DEF MsgTyped, RecvFields
  <2> QED
    BY <2>1, <2>2, <2>3, <2>4, <2>5 DEF Still
<1>3. CASE Signal
  <2>1. recv.pc = "signal" /\ recv' = Quiet /\ UNCHANGED <<dsp, wire, queue>>
    BY <1>3 DEF Signal
  <2>2. DOMAIN Quiet = RecvFields /\ Quiet.pc = "idle" /\ Quiet.to \in Queues
    BY DEF Quiet, RecvFields, Queues, Shared
  <2> QED
    BY <2>1, <2>2 DEF MsgTyped, Still
<1> QED
  BY <1>1, <1>2, <1>3

-----------------------------------------------------------------------------
(* Types of what is on its way                                             *)

\* Every action keeps the types of what is on its way.
LEMMA MsgTypes == ASSUME CallsInv, MsgTyped, [Next]_vars PROVE MsgTyped'
<1>1. ASSUME NEW t \in Threads, Thread(t) PROVE MsgTyped'
  <2>1. CASE dsp' = dsp /\ ~Read(t)
    BY <1>1, <2>1, ThreadStill, StillTyped
  <2>2. CASE dsp' # dsp
    <3>1. Send(t)
      BY <1>1, <2>2 DEF Thread, Begin, GetAux, NoPipe, Lock, Wait, Resume, Timeout, Read,
         Decrement, Unlock, UnlockAgain, GiveUp, PutAux
    <3>2. call[t].left # <<>> /\ dsp' = dsp \cup {Message(t)} /\ UNCHANGED <<wire, queue, recv>>
      BY <2>2, <3>1 DEF Send, At, CallsInv, IInv, Typed
    <3>3. Message(t) \in Requests
      BY <3>2, MessageType
    <3> QED
      BY <3>2, <3>3 DEF MsgTyped
  <2>3. CASE Read(t)
    <3> DEFINE q == QueueOf(t)
    <3>1. /\ q \in Queues /\ queue[q].pipe # <<>> /\ Set(q, "pipe", Tail(queue[q].pipe))
          /\ UNCHANGED <<dsp, wire, recv>>
      BY <2>3, MessageType DEF Read, At, CallsInv, IInv, Typed
    <3>2. Tail(queue[q].pipe) \in Seq(Responses)
      BY <3>1 DEF MsgTyped
    <3>3. DOMAIN queue' = Queues /\ \A r \in Queues \ {q} : queue'[r] = queue[r]
      BY <3>1 DEF Set, MsgTyped
    <3>4. DOMAIN queue'[q] = QueueFields /\ queue'[q].pipe = Tail(queue[q].pipe)
      BY <3>1 DEF Set, MsgTyped, QueueFields
    <3> QED
      BY <3>1, <3>2, <3>3, <3>4 DEF MsgTyped
  <2> QED
    BY <2>1, <2>2, <2>3
<1>2. CASE Load \/ Increment \/ Signal
  BY <1>2, CountStill, StillTyped
<1>3. CASE Write
  <2> DEFINE q == recv.to
  <2>1. /\ q \in Queues /\ recv.msg \in Responses /\ UNCHANGED <<dsp, wire>>
        /\ Set(q, "pipe", Append(queue[q].pipe, recv.msg))
        /\ recv' = [recv EXCEPT !.pc = "load"]
    BY <1>3 DEF Write, MsgTyped
  <2>2. Append(queue[q].pipe, recv.msg) \in Seq(Responses)
    BY <2>1 DEF MsgTyped
  <2>3. DOMAIN queue' = Queues /\ \A r \in Queues \ {q} : queue'[r] = queue[r]
    BY <2>1 DEF Set, MsgTyped
  <2>4. DOMAIN queue'[q] = QueueFields /\ queue'[q].pipe = Append(queue[q].pipe, recv.msg)
    BY <2>1 DEF Set, MsgTyped, QueueFields
  <2>5. DOMAIN recv' = RecvFields /\ recv'.to = recv.to /\ recv'.pc = "load"
    BY <2>1 DEF MsgTyped, RecvFields
  <2> QED
    BY <2>1, <2>2, <2>3, <2>4, <2>5 DEF MsgTyped
<1>4. CASE Receive
  <2> DEFINE m == Head(wire)
  <2>1. m \in Responses /\ Tail(wire) \in Seq(Responses) /\ wire' = Tail(wire) /\ UNCHANGED <<dsp, queue>>
    BY <1>4 DEF Receive, MsgTyped
  <2>2. \/ recv' = recv
        \/ \E q \in Queues : recv' = [recv EXCEPT !.pc = "write", !.msg = m, !.to = q]
    BY <1>4 DEF Receive, Queues, Shared
  <2> QED
    BY <2>1, <2>2 DEF MsgTyped, RecvFields
<1>5. CASE Answer
  <2>1. PICK m \in dsp, ok \in BOOLEAN :
            /\ dsp' = dsp \ {m}
            /\ wire' = Append(wire, [id |-> m.id, opcode |-> Opcode(m.op, ok), back |-> m.back])
            /\ UNCHANGED <<queue, recv>>
    BY <1>5 DEF Answer
  <2>2. [id |-> m.id, opcode |-> Opcode(m.op, ok), back |-> m.back] \in Responses
    BY DEF MsgTyped, Requests, Responses, Opcode, Calls
  <2> QED
    BY <2>1, <2>2 DEF MsgTyped
<1>6. CASE UNCHANGED vars
  BY <1>6 DEF vars, MsgTyped
<1> QED
  BY <1>1, <1>2, <1>3, <1>4, <1>5, <1>6 DEF Next, ProxyThread

-----------------------------------------------------------------------------
(* Where nothing moves on the way of a response                            *)

\* Two calls that wait on one queue hold one lock: they are the same.
LEMMA SoleCaller ==
    ASSUME OneCallAtATime, past \subseteq {"pipe"}, NEW t \in Threads, NEW u \in Threads,
           InSection(t, LockOf(Op(t))), Awaits(u), QueueOf(u) = QueueOf(t)
    PROVE  u = t
<1>1. LockOf(Op(t)) \in Locks /\ LockOf(Op(u)) = LockOf(Op(t))
  BY DEF LockOf, Locks, QueueOf, InSection, Awaits
<1>2. InSection(u, LockOf(Op(u)))
  BY DEF Awaits, Waiting, InSection
<1> QED
  BY <1>1, <1>2 DEF OneCallAtATime

\* While the call that holds the lock does not wait, nothing is on its way.
LEMMA NothingYet ==
    ASSUME OneCallAtATime, past \subseteq {"pipe"}, NEW t \in Threads, InSection(t, LockOf(Op(t))), ~Awaits(t),
           OneResponse(QueueOf(t))
    PROVE  Clear(QueueOf(t))
  BY SoleCaller DEF OneResponse

\* The awaiting call keeps its message.
SameCall(u) == Op(u)' = Op(u) /\ Id(u)' = Id(u)

LEMMA SameMessage ==
    ASSUME NEW u \in Threads, Awaits(u), SameCall(u)
    PROVE  Message(u)' = Message(u) /\ QueueOf(u)' = QueueOf(u)
<1>1. Message(u)' = Message(u)
  BY DEF SameCall, Message, Awaits
<1>2. QueueOf(u)' = QueueOf(u)
  BY DEF SameCall, QueueOf
<1> QED
  BY <1>1, <1>2

\* What is for a queue is where it was.
Unmoved(q) ==
    /\ DspFor(q)' = DspFor(q) /\ WireFor(q)' = WireFor(q) /\ Pipe(q)' = Pipe(q)
    /\ \A i \in WireFor(q) : wire'[i].id = wire[i].id
    /\ Hand(q)' <=> Hand(q)
    /\ Hand(q) => recv'.msg = recv.msg

LEMMA UnmovedOne ==
    ASSUME NEW q \in Shared, OneResponse(q), Unmoved(q),
           \A u \in Threads : Awaits(u) /\ QueueOf(u) = q => Awaits(u)' /\ SameCall(u)
    PROVE  OneResponse(q)'
<1>1. CASE Clear(q)
  BY <1>1 DEF Clear, Unmoved, OneResponse
<1>2. ASSUME NEW t \in Threads, Awaits(t), QueueOf(t) = q, OnItsWay(t, q) PROVE OneResponse(q)'
  <2>1. Awaits(t)' /\ SameCall(t) /\ Message(t)' = Message(t) /\ QueueOf(t)' = q /\ Id(t)' = Id(t)
    BY <1>2, SameMessage DEF SameCall
  <2>2. OnItsWay(t, q)'
    <3>1. ASSUME NEW i \in DOMAIN wire, WireFor(q) = {i}, wire[i].id = Id(t)
          PROVE  i \in DOMAIN wire' /\ wire'[i].id = Id(t)'
      <4>1. i \in WireFor(q)'
        BY <3>1 DEF Unmoved
      <4> QED
        BY <2>1, <3>1, <4>1 DEF Unmoved, WireFor
    <3>2. CASE DspFor(q) = {Message(t)} /\ WireFor(q) = {} /\ ~Hand(q) /\ Pipe(q) = <<>>
      BY <2>1, <3>2 DEF Unmoved, OnItsWay
    <3>3. CASE /\ \E i \in DOMAIN wire : WireFor(q) = {i} /\ wire[i].id = Id(t)
               /\ DspFor(q) = {} /\ ~Hand(q) /\ Pipe(q) = <<>>
      BY <3>1, <3>3 DEF Unmoved, OnItsWay
    <3>4. CASE Hand(q) /\ recv.msg.id = Id(t) /\ DspFor(q) = {} /\ WireFor(q) = {} /\ Pipe(q) = <<>>
      BY <2>1, <3>4 DEF Unmoved, OnItsWay
    <3>5. CASE /\ Len(Pipe(q)) = 1 /\ Pipe(q)[1].id = Id(t)
               /\ DspFor(q) = {} /\ WireFor(q) = {} /\ ~Hand(q)
      BY <2>1, <3>5 DEF Unmoved, OnItsWay
    <3> QED
      BY <1>2, <3>2, <3>3, <3>4, <3>5 DEF OnItsWay
  <2> QED
    BY <2>1, <2>2 DEF OneResponse
<1> QED
  BY <1>1, <1>2 DEF OneResponse

\* Nothing that is for a queue has moved where nothing moves at all.
LEMMA StillUnmoved == ASSUME MsgTyped, Still, NEW q \in Shared PROVE Unmoved(q)
<1>1. q \in Queues /\ Pipe(q)' = Pipe(q)
  BY DEF Queues, Still, Pipe
<1>2. (Hand(q)' <=> Hand(q)) /\ (Hand(q) => recv'.msg = recv.msg)
  BY DEF Still, Hand
<1> QED
  BY <1>1, <1>2 DEF Unmoved, Still, DspFor, WireFor, Back

\* a call keeps what its response relies on
Keeps(u) ==
    /\ Awaits(u)' <=> Awaits(u)
    /\ Awaits(u) => SameCall(u)
    /\ (call[u].pc \in {"count", "done"} /\ Op(u) = "close" /\ call[u].got.error = "none")' =>
            call[u].pc \in {"count", "done"} /\ Op(u) = "close" /\ call[u].got.error = "none"
    /\ handle[u].open =>
            NoCommand(u) \/ (handle'[u].open /\ handle'[u].client = handle[u].client)
    /\ Got(u)'

\* A thread that does not move keeps it.
LEMMA OthersKeep ==
    ASSUME NEW u \in Threads, call'[u] = call[u],
           handle'[u].open = handle[u].open, handle'[u].client = handle[u].client, Got(u)
    PROVE  Keeps(u)
  BY DEF Keeps, Awaits, SameCall, Op, Id, Got

\* Where nothing moves, the calls that keep it get their responses.
LEMMA StillAnswers ==
    ASSUME MsgTyped, Answers, Still, \A u \in Threads : Keeps(u)
    PROVE  Answers'
<1>1. ASSUME NEW q \in Shared PROVE OneResponse(q)'
  <2>1. OneResponse(q) /\ Unmoved(q)
    BY StillUnmoved DEF Answers
  <2> QED
    BY <2>1, UnmovedOne DEF Keeps
<1>2. \A u \in Threads : NoCommand(u) => NoCommand(u)'
  BY DEF Still, NoCommand, Command
<1>3. ASSUME NEW x, Own(x), x.id[1] \in Threads, x.back \notin {0, -1} => ~NoCommand(x.id[1])
      PROVE  Own(x)'
  BY <1>3 DEF Own, Keeps
<1>4. OwnCommands'
  <2>1. ASSUME NEW m \in dsp' PROVE Own(m)' /\ (m.back \notin {0, -1} => m.comp = m.id[1])
    <3>1. m \in dsp /\ m.id[1] \in Threads
      BY DEF Still, MsgTyped, Requests
    <3> QED
      BY <1>3, <3>1 DEF Answers, OwnCommands, NoCommand, Command
  <2>2. ASSUME NEW i \in DOMAIN wire' PROVE Own(wire[i])'
    <3>1. i \in DOMAIN wire /\ wire' = wire /\ wire[i] \in Responses
      BY DEF Still, MsgTyped
    <3>2. wire[i].id[1] \in Threads
      BY <3>1 DEF Responses
    <3> DEFINE x == wire[i]
    <3>3. Own(x) /\ (x.back \notin {0, -1} => ~NoCommand(x.id[1]))
      BY <3>1 DEF Answers, OwnCommands, NoCommand, Command
    <3>4. x.back \notin {0, -1} => handle'[x.id[1]].open /\ handle'[x.id[1]].client = x.back
      BY <3>2, <3>3 DEF Own, Keeps
    <3> QED
      BY <3>1, <3>4 DEF Own
  <2>3. ASSUME recv'.pc # "idle", recv'.to \notin Shared
        PROVE  handle'[recv'.to].open /\ (recv'.pc = "write" => recv'.msg.id[1] = recv'.to)
    <3>1. recv.pc # "idle" /\ recv'.to = recv.to /\ recv'.msg = recv.msg /\ recv.to \in Threads
          /\ (recv'.pc = "write" => recv.pc = "write")
      BY <2>3 DEF Still, MsgTyped, Queues
    <3>2. handle[recv.to].open /\ ~NoCommand(recv.to)
      BY <2>3, <3>1 DEF Answers, OwnCommands, NoCommand
    <3> QED
      BY <2>3, <3>1, <3>2 DEF Answers, OwnCommands, Keeps
  <2>4. ASSUME NEW t \in Threads, NEW i \in DOMAIN Pipe(t)' PROVE Pipe(t)'[i].id[1] = t
    <3>1. t \in Queues /\ (Pipe(t)' = Pipe(t) \/ Pipe(t)' = <<>>)
      BY DEF Queues, Still, Pipe
    <3> QED
      BY <2>4, <3>1 DEF Answers, OwnCommands
  <2> QED
    BY <2>1, <2>2, <2>3, <2>4 DEF OwnCommands
<1>5. ASSUME NEW t \in Threads PROVE Closing(t)'
  <2>1. Closing(t) /\ Keeps(t) /\ UNCHANGED <<dsp, wire>>
    BY DEF Answers, Still
  <2>2. Unmoved("sync")
    BY StillUnmoved DEF Shared
  <2>3. CASE (Awaits(t) /\ Op(t) = "close")'
    <3>1. Awaits(t) /\ Op(t) = "close" /\ Id(t)' = Id(t)
      BY <2>1, <2>3 DEF Keeps, SameCall
    <3>2. ASSUME NEW i \in DOMAIN wire', wire'[i].back = 0, wire'[i].id = Id(t)'
          PROVE  /\ \A m \in dsp' : ~Command(m, t)
                 /\ \A j \in DOMAIN wire' : j > i => ~Command(wire'[j], t)
      BY <2>1, <3>1, <3>2 DEF Closing
    <3>3. ASSUME Hand("sync")', recv'.msg.id = Id(t)' PROVE NoCommand(t)'
      BY <1>2, <2>1, <2>2, <3>1, <3>3 DEF Closing, Unmoved
    <3>4. ASSUME NEW i \in DOMAIN Pipe("sync")', Pipe("sync")'[i].id = Id(t)' PROVE NoCommand(t)'
      BY <1>2, <2>1, <2>2, <3>1, <3>4 DEF Closing, Unmoved
    <3>5. ~(call[t].pc \in {"count", "done"})'
      BY <2>3 DEF Awaits, Waiting
    <3> QED
      BY <3>2, <3>3, <3>4, <3>5 DEF Closing, Command
  <2>4. CASE ~(Awaits(t) /\ Op(t) = "close")'
    BY <1>2, <2>1, <2>4 DEF Closing, Keeps
  <2> QED
    BY <2>3, <2>4
<1> QED
  BY <1>1, <1>4, <1>5 DEF Answers, Keeps

-----------------------------------------------------------------------------
(* The steps of a call that neither send nor read                          *)

SameHandle(t) == handle'[t].open = handle[t].open /\ handle'[t].client = handle[t].client

\* A step within a call.
LEMMA GoKeeps ==
    ASSUME NEW t \in Threads, Got(t), NEW pc, NEW a, Went(t, pc, call[t].left, a), SameHandle(t),
           a = call[t].got \/ a.id = <<>>, pc \in Waiting <=> call[t].pc \in Waiting,
           pc \in {"count", "done"} =>
               \/ call[t].pc \in {"count", "done"} /\ a = call[t].got
               \/ a.error # "none" \/ Op(t) # "close"
    PROVE  Keeps(t)
<1>1. SameCall(t) /\ call'[t].pc = pc /\ call'[t].got = a
  BY DEF Went, SameCall, Op, Id
<1> QED
  BY <1>1 DEF Keeps, SameHandle, SameCall, Awaits, Got

\* The end of a call that does not wait, where no response is for its component.
LEMMA LeaveKeeps ==
    ASSUME Typed, NEW t \in Threads, Leave(t), ~Awaits(t),
           handle[t].open => NoCommand(t) \/ (handle'[t].open /\ handle'[t].client = handle[t].client)
    PROVE  Keeps(t)
<1>1. call'[t].pc = "idle" /\ call'[t].got.id = <<>>
  BY LeaveWent DEF Went, NoAnswer
<1> QED
  BY <1>1 DEF Keeps, Awaits, Waiting, Got

\* Until a wait times out, or statistics are refused, every thread keeps what
\* its response, and those to its commands, rely on.
LEMMA ThreadKeeps ==
    ASSUME Typed, NEW t \in Threads, StageOf(t), StepOf(t), Closing(t), Got(t), Thread(t),
           past' \subseteq {"pipe"}, dsp' = dsp \/ ~Send(t), ~Read(t), Send(t) => ~Goto(t, "wait")
    PROVE  Keeps(t)
<1> DEFINE q == call[t].left  got == call[t].got
<1>0. NoAnswer.id = <<>> /\ \A e : Error(e).id = <<>> /\ Error(e).error = e
  BY DEF Error, NoAnswer
<1>a. ASSUME SameHandle(t), Leave(t), ~Awaits(t) PROVE Keeps(t)
  BY <1>a, LeaveKeeps DEF SameHandle
<1>b. ASSUME UNCHANGED handle PROVE SameHandle(t)
  BY <1>b DEF SameHandle
<1>1. CASE Begin(t)
  <2>1. Went(t, FirstStep(Op(t)), q, got) /\ call[t].pc = "idle" /\ UNCHANGED handle
    BY <1>1, GotoWent DEF Begin, At
  <2>2. /\ FirstStep(Op(t)) \notin {"count", "done"}
        /\ FirstStep(Op(t)) \in Waiting => Op(t) = "answer"
    BY DEF FirstStep, Waiting
  <2>3. SameCall(t) /\ call'[t].pc = FirstStep(Op(t)) /\ call'[t].got = got
    BY <2>1 DEF Went, SameCall, Op, Id
  <2>4. ~Awaits(t) /\ ~Awaits(t)'
    BY <2>1, <2>2, <2>3 DEF Awaits, Waiting, SameCall
  <2> QED
    BY <2>1, <2>2, <2>3, <2>4 DEF Keeps, SameCall, Got
<1>2. CASE GetAux(t)
  <2>1. UNCHANGED handle /\ call[t].pc = "aux"
    BY <1>2 DEF GetAux, At
  <2>2. CASE Leave(t)
    BY <1>a, <1>b, <2>1, <2>2 DEF Awaits, Waiting
  <2>3. CASE ~Leave(t)
    <3>1. Went(t, "lock", q, got)
      BY <1>2, <2>3 DEF GetAux, Typed, Went
    <3> QED
      BY <1>b, <2>1, <3>1, GoKeeps DEF Waiting
  <2> QED
    BY <2>2, <2>3
<1>3. CASE Lock(t)
  <2>1. call[t].pc = "lock"
    BY <1>3 DEF Lock, At
  <2>2. CASE UNCHANGED handle /\ Goto(t, "send")
    BY <1>b, <2>1, <2>2, GotoWent, GoKeeps DEF Waiting
  <2>3. CASE UNCHANGED handle /\ Fail(t, "memory")
    <3>1. Went(t, "done", q, Error("memory"))
      BY <2>3, FailWent
    <3> QED
      BY <1>0, <1>b, <2>1, <2>3, <3>1, GoKeeps DEF Waiting
  <2>4. CASE Op(t) = "open" /\ Goto(t, "send") /\ ClientAlloc(t)
    <3>1. ~handle[t].open
      BY <2>1, <2>4 DEF StageOf, Buffered
    <3>2. Went(t, "send", q, got)
      BY <2>4, GotoWent
    <3>3. SameCall(t) /\ call'[t].pc = "send" /\ call'[t].got = got
      BY <3>2 DEF Went, SameCall, Op, Id
    <3> QED
      BY <2>1, <3>1, <3>3 DEF Keeps, Awaits, Waiting, Got, SameCall
  <2> QED
    BY <1>3, <2>2, <2>3, <2>4 DEF Lock
<1>4. CASE Send(t)
  <2>1. call[t].pc = "send" /\ UNCHANGED handle /\ ~Awaits(t)
    BY <1>4 DEF Send, At, Awaits, Waiting
  <2>2. CASE Fail(t, "send")
    <3>1. Went(t, "done", q, Error("send"))
      BY <2>2, FailWent
    <3> QED
      BY <1>0, <1>b, <2>1, <3>1, GoKeeps DEF Waiting
  <2> QED
    BY <1>4, <1>a, <1>b, <2>1, <2>2 DEF Send
<1>5. CASE Wait(t)
  <2>1. UNCHANGED handle /\ call[t].pc = "wait" /\ (Goto(t, "sleep") \/ Goto(t, "read"))
    BY <1>5 DEF Wait, At
  <2> QED
    BY <1>b, <2>1, GotoWent, GoKeeps DEF Waiting
<1>6. CASE Resume(t)
  <2>1. UNCHANGED handle /\ call[t].pc = "woken" /\ Goto(t, "read")
    BY <1>6 DEF Resume, At
  <2> QED
    BY <1>b, <2>1, GotoWent, GoKeeps DEF Waiting
<1>7. CASE Timeout(t)
  BY <1>7 DEF Timeout
<1>8. CASE Decrement(t)
  <2>1. UNCHANGED handle /\ call[t].pc = "count"
    BY <1>8 DEF Decrement, At
  <2>2. CASE Leave(t)
    BY <1>a, <1>b, <2>1, <2>2 DEF Awaits, Waiting
  <2>3. CASE Goto(t, "done")
    BY <1>b, <2>1, <2>3, GotoWent, GoKeeps DEF Waiting
  <2> QED
    BY <1>8, <2>2, <2>3 DEF Decrement
<1>9. CASE Unlock(t)
  <2>1. call[t].pc = "done" /\ ~Refused(t) /\ ~Awaits(t)
    BY <1>9 DEF Unlock, At, Awaits, Waiting
  <2>2. /\ handle'[t].open = (Opens(t) \/ (handle[t].open /\ ~Closes(t)))
        /\ handle'[t].client = handle[t].client
    BY <1>9 DEF Unlock, Typed
  <2>3. Closes(t) => NoCommand(t)
    BY <2>1 DEF Closes, Closing
  <2>4. handle[t].open => NoCommand(t) \/ (handle'[t].open /\ handle'[t].client = handle[t].client)
    BY <2>2, <2>3
  <2>5. CASE Leave(t)
    BY <2>1, <2>4, <2>5, LeaveKeeps
  <2>6. CASE ~Leave(t)
    <3>1. Went(t, "put", q, got)
      BY <1>9, <2>1, <2>6, GotoWent DEF Unlock, Typed, Went
    <3>2. SameCall(t) /\ call'[t].pc = "put" /\ call'[t].got = got
      BY <3>1 DEF Went, SameCall, Op, Id
    <3> QED
      BY <2>1, <2>4, <3>2 DEF Keeps, Awaits, Waiting, Got, SameCall
  <2> QED
    BY <2>5, <2>6
<1>10. CASE UnlockAgain(t)
  BY <1>10 DEF UnlockAgain, At, StageOf
<1>11. CASE GiveUp(t)
  BY <1>11, <1>a, <1>b DEF GiveUp, At, Awaits, Waiting
<1>12. CASE PutAux(t)
  BY <1>12, <1>a, <1>b DEF PutAux, At, Awaits, Waiting
<1>13. CASE NoPipe(t)
  BY <1>13, <1>a, <1>b DEF NoPipe, At, Awaits, Waiting
<1> QED
  BY <1>1, <1>2, <1>3, <1>4, <1>5, <1>6, <1>7, <1>8, <1>9, <1>10, <1>11, <1>12, <1>13 DEF Thread

-----------------------------------------------------------------------------
(* A message is sent                                                       *)

\* The handles and the other threads when a message is sent.
LEMMA Sent ==
    ASSUME CallsInv, MsgTyped, NEW t \in Threads, Send(t), dsp' = dsp \cup {Message(t)}
    PROVE  /\ UNCHANGED <<handle, queue, recv, wire, past>> /\ call[t].pc = "send"
           /\ \A u \in Threads \ {t} : call'[u] = call[u]
           /\ call[t].left # <<>> /\ Message(t) \in Requests /\ Message(t).id = Id(t)
           /\ Message(t).id[1] = t
<1>1. UNCHANGED <<handle, queue, recv, wire, past>> /\ call[t].pc = "send" /\ call[t].left # <<>>
  BY DEF Send, At, CallsInv, IInv, Typed
<1>2. \A u \in Threads \ {t} : call'[u] = call[u]
  BY DEF Send, Leave, Goto, Fail, CallsInv, IInv, Typed
<1>3. Message(t) \in Requests /\ Message(t).id = Id(t) /\ Id(t)[1] = t
  BY <1>1, MessageType DEF Message
<1> QED
  BY <1>1, <1>2, <1>3

\* A message of another thread does not come in the way of a deletion.
LEMMA ClosingStays ==
    ASSUME NEW u \in Threads, Closing(u), call'[u] = call[u], NEW m, ~Command(m, u),
           dsp' = dsp \cup {m}, UNCHANGED <<wire, recv, queue>>
    PROVE  Closing(u)'
<1>1. NoCommand(u) => NoCommand(u)'
  BY DEF NoCommand, Command
<1>2. Op(u)' = Op(u) /\ Id(u)' = Id(u) /\ (Awaits(u)' <=> Awaits(u))
  BY DEF Op, Id, Awaits
<1>3. (Hand("sync")' <=> Hand("sync")) /\ Pipe("sync")' = Pipe("sync")
  BY DEF Hand, Pipe
<1>4. \A n \in dsp' : n \in dsp \/ ~Command(n, u)
  OBVIOUS
<1> QED
  BY <1>1, <1>2, <1>3, <1>4 DEF Closing, Command

\* A thread that has sent a command does not wait: the responses the others
\* wait for are where they were.
LEMMA CommandSent ==
    ASSUME CallsInv, MsgTyped, Answers, NEW t \in Threads, Send(t), past' \subseteq {"pipe"},
           dsp' = dsp \cup {Message(t)}, Op(t) = "command"
    PROVE  Answers'
<1> DEFINE m == Message(t)
<1>1. /\ UNCHANGED <<handle, queue, recv, wire, past>> /\ call[t].pc = "send"
      /\ \A u \in Threads \ {t} : call'[u] = call[u]
      /\ m \in Requests /\ m.id = Id(t) /\ m.id[1] = t
  BY Sent
<1>2. m.back = handle[t].client /\ m.comp = t /\ m.back \notin {0, -1} /\ handle[t].open
  <2>1. handle[t].open /\ t \in Registered
    BY <1>1 DEF CallsInv, StepOf, Engaged, Registered
  <2>2. setup.clients \in Nat /\ handle[t].client \in Client \ {0}
    BY <2>1, SetupClients DEF CallsInv, ClientsInv, IInv, Typed
  <2> QED
    BY <2>1, <2>2 DEF Message, Client
<1>3. Leave(t) /\ ~Awaits(t)
  BY <1>1 DEF Send, Awaits
<1>4. Keeps(t)
  BY <1>1, <1>3, LeaveKeeps DEF CallsInv, IInv
<1>5. \A u \in Threads \ {t} : Keeps(u)
  BY <1>1, OthersKeep DEF Answers
<1>6. ASSUME NEW q \in Shared PROVE OneResponse(q)'
  <2>1. DspFor(q)' = DspFor(q)
    BY <1>1, <1>2 DEF DspFor, Back
  <2>2. Unmoved(q)
    BY <1>1, <2>1 DEF Unmoved, WireFor, Pipe, Hand, Back
  <2> QED
    BY <1>4, <1>5, <2>2, UnmovedOne DEF Answers, Keeps
<1>7. OwnCommands'
  BY <1>1, <1>2 DEF Answers, OwnCommands, Own, Pipe
<1>8. ASSUME NEW u \in Threads PROVE Closing(u)'
  <2>1. CASE u = t
    <3>1. call'[t].pc = "idle"
      BY <1>3, LeaveWent DEF Went, CallsInv, IInv
    <3> QED
      BY <2>1, <3>1 DEF Closing, Awaits, Waiting
  <2>2. CASE u # t
    <3>1. Closing(u) /\ call'[u] = call[u] /\ ~Command(m, u)
      BY <1>1, <2>2 DEF Answers, Command
    <3> QED
      BY <1>1, <3>1, ClosingStays
  <2> QED
    BY <2>1, <2>2
<1> QED
  BY <1>4, <1>5, <1>6, <1>7, <1>8 DEF Answers, Keeps

\* A call that is to wait finds nothing on its way, and puts its message there.
LEMMA CallSent ==
    ASSUME CallsInv, MsgTyped, Answers, NEW t \in Threads, Send(t), past' \subseteq {"pipe"},
           dsp' = dsp \cup {Message(t)}, Op(t) # "command", Goto(t, "wait")
    PROVE  Answers'
<1> DEFINE m == Message(t)
<1>1. /\ UNCHANGED <<handle, queue, recv, wire, past>> /\ call[t].pc = "send"
      /\ \A u \in Threads \ {t} : call'[u] = call[u]
      /\ m \in Requests /\ m.id = Id(t) /\ m.id[1] = t
  BY Sent
<1>2. Op(t) # "answer" /\ ~Awaits(t) /\ QueueOf(t) \in Shared
  BY <1>1 DEF CallsInv, StepOf, Placed, Awaits, Waiting, QueueOf, Shared
<1>p. PICK p \in Shared : p = QueueOf(t)
  BY <1>2
<1>3. m.back = Back(p) /\ m.back \in {0, -1}
  BY <1>2, <1>p DEF Message, Back, QueueOf
<1>4. past \subseteq {"pipe"} /\ OneCallAtATime /\ Typed /\ InSection(t, LockOf(Op(t)))
  BY <1>1, <1>2 DEF CallsInv, IInv, InSection
<1>5. Clear(p)
  BY <1>2, <1>4, <1>p, NothingYet DEF Answers
<1>6. SameCall(t) /\ call'[t].pc = "wait" /\ call'[t].got = NoAnswer
  <2>1. Went(t, "wait", call[t].left, call[t].got) /\ call[t].got = NoAnswer
    BY <1>1, <1>4, GotoWent DEF CallsInv, StepOf, Fresh, Early
  <2> QED
    BY <2>1 DEF Went, SameCall, Op, Id
<1>7. Awaits(t)' /\ Message(t)' = m /\ QueueOf(t)' = p
  BY <1>2, <1>6, <1>p DEF SameCall, Awaits, Waiting, Message, QueueOf
<1>8. OneResponse(p)'
  <2>1. DspFor(p)' = {m}
    BY <1>3, <1>5 DEF Clear, DspFor, Back
  <2>2. WireFor(p)' = {} /\ ~Hand(p)' /\ Pipe(p)' = <<>>
    BY <1>1, <1>5 DEF Clear, WireFor, Hand, Pipe, Back
  <2> QED
    BY <1>7, <2>1, <2>2 DEF OneResponse, OnItsWay
<1>9. ASSUME NEW q \in Shared, q # p PROVE OneResponse(q)'
  <2>1. Back(q) # Back(p)
    BY <1>2, <1>9 DEF Back, Shared
  <2>2. DspFor(q)' = DspFor(q)
    BY <1>3, <2>1 DEF DspFor, Back
  <2>3. Unmoved(q)
    BY <1>1, <2>2 DEF Unmoved, WireFor, Pipe, Hand, Back
  <2>4. ASSUME NEW u \in Threads, Awaits(u), QueueOf(u) = q PROVE Awaits(u)' /\ SameCall(u)
    BY <1>1, <1>9, <1>p, <2>4 DEF Awaits, SameCall, Op, Id
  <2> QED
    BY <2>3, <2>4, UnmovedOne DEF Answers
<1>10. OwnCommands'
  BY <1>1, <1>3 DEF Answers, OwnCommands, Own, Pipe
<1>11. ASSUME NEW u \in Threads PROVE Closing(u)'
  <2>1. CASE u = t
    <3>1. CASE Op(t) = "close"
      <4>1. p = "sync" /\ Back(p) = 0
        BY <1>p, <3>1 DEF QueueOf, Back
      <4>2. WireFor("sync")' = {} /\ ~Hand("sync")' /\ Pipe("sync")' = <<>> /\ Back("sync") = 0
        BY <1>1, <1>5, <4>1 DEF Clear, WireFor, Hand, Pipe, Back
      <4>3. \A i \in DOMAIN wire' : wire'[i].back # 0
        BY <4>2 DEF WireFor, Back
      <4>4. ~(call[t].pc \in {"count", "done"})'
        BY <1>6
      <4> QED
        BY <2>1, <4>2, <4>3, <4>4 DEF Closing
    <3>2. CASE Op(t) # "close"
      BY <1>6, <2>1, <3>2 DEF Closing, SameCall
    <3> QED
      BY <3>1, <3>2
  <2>2. CASE u # t
    <3>1. Closing(u) /\ call'[u] = call[u] /\ ~Command(m, u)
      BY <1>1, <1>3, <2>2 DEF Answers, Command
    <3> QED
      BY <1>1, <3>1, ClosingStays
  <2> QED
    BY <2>1, <2>2
<1>12. ASSUME NEW u \in Threads PROVE Got(u)'
  BY <1>1, <1>6 DEF Answers, Got, NoAnswer, Op, Id
<1> QED
  BY <1>8, <1>9, <1>10, <1>11, <1>12 DEF Answers

-----------------------------------------------------------------------------
(* A response is read                                                      *)

\* What is read from a pipe does not come in the way of a deletion.
LEMMA ClosingRead ==
    ASSUME NEW u \in Threads, Closing(u), call'[u] = call[u], UNCHANGED <<dsp, wire, recv>>,
           Pipe("sync")' = Pipe("sync") \/ Pipe("sync")' = <<>>
    PROVE  Closing(u)'
<1>1. NoCommand(u)' <=> NoCommand(u)
  BY DEF NoCommand, Command
<1>2. Op(u)' = Op(u) /\ Id(u)' = Id(u) /\ (Awaits(u)' <=> Awaits(u))
  BY DEF Op, Id, Awaits
<1>3. Hand("sync")' <=> Hand("sync")
  BY DEF Hand
<1>4. \A i \in DOMAIN Pipe("sync")' : i \in DOMAIN Pipe("sync") /\ Pipe("sync")'[i] = Pipe("sync")[i]
  OBVIOUS
<1> QED
  BY <1>1, <1>2, <1>3, <1>4 DEF Closing, Command

\* A component reads a response to one of its commands, a call its own.
LEMMA ReadAnswers ==
    ASSUME CallsInv, MsgTyped, Answers, NEW t \in Threads, Read(t), past' \subseteq {"pipe"}
    PROVE  Answers'
<1>0. Typed /\ OneCallAtATime /\ past \subseteq {"pipe"} /\ call[t].pc = "read" /\ StageOf(t)
  BY InvStages DEF CallsInv, IInv, Read, At
<1>p. PICK p \in Queues : p = QueueOf(t)
  BY <1>0, MessageType DEF Typed
<1> DEFINE m == Head(queue[p].pipe)  a == [error |-> "none", id |-> m.id, opcode |-> m.opcode]
<1>1. /\ UNCHANGED <<handle, dsp, wire, recv, past>> /\ Pipe(p) # <<>>
      /\ Set(p, "pipe", Tail(Pipe(p)))
  BY <1>p DEF Read, Pipe
<1>2. /\ Pipe(p)' = Tail(Pipe(p)) /\ \A q \in Queues \ {p} : Pipe(q)' = Pipe(q)
      /\ Pipe(p) \in Seq(Responses) /\ m = Pipe(p)[1]
  BY <1>1 DEF MsgTyped, Set, Pipe, QueueFields
<1>3. Went(t, "count", call[t].left, a)
  BY <1>0, <1>p, ReadWent
<1>4. SameCall(t) /\ call'[t].pc = "count" /\ call'[t].got.id = m.id /\ ~Awaits(t)'
      /\ \A u \in Threads \ {t} : call'[u] = call[u]
  BY <1>3 DEF Went, SameCall, Op, Id, Awaits, Waiting
<1>5. ASSUME NEW u \in Threads \ {t} PROVE SameCall(u) /\ (Awaits(u)' <=> Awaits(u)) /\ Got(u)'
  BY <1>4 DEF SameCall, Op, Id, Awaits, Got, Answers
<1>6. Op(t) # "command"
  BY <1>0 DEF StageOf
<1>7. ASSUME NEW q \in Shared, q # p PROVE OneResponse(q)'
  <2>1. q \in Queues
    BY DEF Queues
  <2>2. Unmoved(q)
    BY <1>1, <1>2, <1>7, <2>1 DEF Unmoved, DspFor, WireFor, Hand, Back
  <2>3. ASSUME NEW u \in Threads, Awaits(u), QueueOf(u) = q PROVE Awaits(u)' /\ SameCall(u)
    BY <1>p, <1>5, <1>7, <2>3
  <2> QED
    BY <2>2, <2>3, UnmovedOne DEF Answers
<1>8. CASE Op(t) = "answer"
  <2>1. p = t /\ p \notin Shared
    BY <1>8, <1>p, ProxyAssumption DEF QueueOf, Shared
  <2>2. m.id[1] = t
    BY <1>1, <1>2, <2>1 DEF Answers, OwnCommands
  <2>3. OwnCommands'
    <3>1. ASSUME NEW u \in Threads, NEW i \in DOMAIN Pipe(u)' PROVE Pipe(u)'[i].id[1] = u
      <4>1. CASE u = t
        <5>1. i + 1 \in DOMAIN Pipe(t) /\ Pipe(t)'[i] = Pipe(t)[i + 1]
          BY <1>1, <1>2, <2>1, <3>1, <4>1
        <5> QED
          BY <4>1, <5>1 DEF Answers, OwnCommands
      <4>2. CASE u # t
        BY <1>2, <2>1, <3>1, <4>2 DEF Answers, OwnCommands, Queues
      <4> QED
        BY <4>1, <4>2
    <3> QED
      BY <1>1, <3>1 DEF Answers, OwnCommands, Own
  <2>4. ASSUME NEW u \in Threads PROVE Closing(u)'
    <3>1. CASE u = t
      BY <1>4, <1>8, <3>1 DEF Closing, SameCall
    <3>2. CASE u # t
      <4>1. Pipe("sync")' = Pipe("sync")
        BY <1>2, <2>1 DEF Shared, Queues
      <4> QED
        BY <1>1, <1>4, <3>2, <4>1, ClosingRead DEF Answers
    <3> QED
      BY <3>1, <3>2
  <2>5. Got(t)'
    BY <1>4, <1>8, <2>2 DEF Got, SameCall
  <2>6. \A q \in Shared : OneResponse(q)'
    BY <1>7, <2>1
  <2> QED
    BY <1>5, <2>3, <2>4, <2>5, <2>6 DEF Answers
<1>9. CASE Op(t) # "answer"
  <2>1. p \in Shared /\ Awaits(t) /\ InSection(t, LockOf(Op(t)))
    BY <1>0, <1>6, <1>9, <1>p DEF QueueOf, Shared, Awaits, Waiting, InSection
  <2>2. OnItsWay(t, p)
    <3>1. ~Clear(p) /\ OneResponse(p)
      BY <1>1, <2>1 DEF Clear, Answers
    <3> QED
      BY <1>0, <1>p, <2>1, <3>1, SoleCaller DEF OneResponse
  <2>3. /\ Len(Pipe(p)) = 1 /\ Pipe(p)[1].id = Id(t)
        /\ DspFor(p) = {} /\ WireFor(p) = {} /\ ~Hand(p)
    BY <1>1, <2>2 DEF OnItsWay
  <2>4. Pipe(p)' = <<>>
    BY <1>2, <2>3
  <2>5. OneResponse(p)'
    BY <1>1, <2>3, <2>4 DEF OneResponse, Clear, DspFor, WireFor, Hand, Back
  <2>6. OwnCommands'
    <3>1. \A u \in Threads : u # p /\ u \in Queues
      BY <2>1, ProxyAssumption DEF Shared, Queues
    <3>2. \A u \in Threads : Pipe(u)' = Pipe(u)
      BY <1>2, <3>1
    <3> QED
      BY <1>1, <3>2 DEF Answers, OwnCommands, Own
  <2>7. Pipe("sync")' = Pipe("sync") \/ Pipe("sync")' = <<>>
    BY <1>2, <2>4 DEF Queues, Shared
  <2>8. ASSUME NEW u \in Threads PROVE Closing(u)'
    <3>1. CASE u = t /\ Op(t) = "close"
      <4>1. p = "sync"
        BY <1>p, <3>1 DEF QueueOf
      <4>2. 1 \in DOMAIN Pipe(p)
        BY <1>2, <2>3
      <4>3. NoCommand(t)
        BY <2>1, <2>3, <3>1, <4>1, <4>2 DEF Answers, Closing
      <4>4. NoCommand(t)'
        BY <1>1, <4>3 DEF NoCommand, Command
      <4> QED
        BY <1>4, <3>1, <4>4 DEF Closing
    <3>2. CASE u = t /\ Op(t) # "close"
      BY <1>4, <3>2 DEF Closing, SameCall
    <3>3. CASE u # t
      BY <1>1, <1>4, <2>7, <3>3, ClosingRead DEF Answers
    <3> QED
      BY <3>1, <3>2, <3>3
  <2>9. Got(t)'
    BY <1>2, <1>4, <1>9, <2>3 DEF Got, SameCall
  <2> QED
    BY <1>5, <1>7, <2>5, <2>6, <2>8, <2>9 DEF Answers
<1> QED
  BY <1>8, <1>9

-----------------------------------------------------------------------------
(* The receiving thread and the DSP                                        *)

\* They leave the calls alone.
LEMMA CallsAlone ==
    ASSUME Answers, UNCHANGED <<handle, call>>, NEW u \in Threads
    PROVE  SameCall(u) /\ (Awaits(u)' <=> Awaits(u)) /\ Got(u)'
  BY DEF SameCall, Op, Id, Awaits, Got, Answers

\* A response is put into the pipe of the wait queue it is for.
LEMMA WriteAnswers == ASSUME MsgTyped, Answers, Write PROVE Answers'
<1>p. PICK p \in Queues : p = recv.to
  BY DEF MsgTyped
<1> DEFINE m == recv.msg
<1>1. /\ UNCHANGED <<handle, call, dsp, wire>> /\ recv.pc = "write" /\ recv'.pc = "load"
      /\ recv'.to = p /\ m \in Responses
  BY <1>p DEF Write, MsgTyped, RecvFields
<1>2. /\ Pipe(p)' = Append(Pipe(p), m) /\ \A q \in Queues \ {p} : Pipe(q)' = Pipe(q)
      /\ Pipe(p) \in Seq(Responses)
  BY <1>p DEF Write, Set, MsgTyped, QueueFields, Pipe
<1>3. \A u \in Threads : SameCall(u) /\ (Awaits(u)' <=> Awaits(u)) /\ Got(u)'
  BY <1>1, CallsAlone
<1>4. \A u \in Threads : NoCommand(u)' <=> NoCommand(u)
  BY <1>1, <1>p DEF NoCommand, Command
<1>5. \A q \in Shared : (Hand(q) <=> q = p) /\ ~Hand(q)'
  BY <1>1, <1>p DEF Hand
<1>6. p \in Shared => Pipe(p) = <<>> /\ \E u \in Threads : /\ Awaits(u) /\ QueueOf(u) = p /\ m.id = Id(u)
                                                           /\ DspFor(p) = {} /\ WireFor(p) = {}
  BY <1>5 DEF Answers, OneResponse, Clear, OnItsWay
<1>7. ASSUME NEW q \in Shared PROVE OneResponse(q)'
  <2>1. CASE q = p
    <3>1. PICK u \in Threads : /\ Awaits(u) /\ QueueOf(u) = p /\ m.id = Id(u) /\ Pipe(p) = <<>>
                               /\ DspFor(p) = {} /\ WireFor(p) = {}
      BY <1>6, <2>1
    <3>2. Awaits(u)' /\ QueueOf(u)' = p /\ Id(u)' = m.id
      BY <1>3, <3>1, SameMessage DEF SameCall
    <3>3. Len(Pipe(p)') = 1 /\ Pipe(p)'[1] = m
      BY <1>2, <3>1
    <3>4. DspFor(p)' = {} /\ WireFor(p)' = {} /\ ~Hand(p)'
      BY <1>1, <1>5, <2>1, <3>1 DEF DspFor, WireFor, Back
    <3> QED
      BY <2>1, <3>2, <3>3, <3>4 DEF OneResponse, OnItsWay
  <2>2. CASE q # p
    <3>1. q \in Queues
      BY DEF Queues
    <3>2. Unmoved(q)
      BY <1>1, <1>2, <1>5, <2>2, <3>1 DEF Unmoved, DspFor, WireFor, Back
    <3> QED
      BY <1>3, <3>2, UnmovedOne DEF Answers
  <2> QED
    BY <2>1, <2>2
<1>8. OwnCommands'
  <2>1. ASSUME NEW u \in Threads, NEW i \in DOMAIN Pipe(u)' PROVE Pipe(u)'[i].id[1] = u
    <3>1. CASE u = p
      <4>1. u \notin Shared
        BY ProxyAssumption DEF Shared
      <4>2. m.id[1] = u
        BY <1>1, <1>p, <3>1, <4>1 DEF Answers, OwnCommands
      <4>3. (i \in DOMAIN Pipe(p) /\ Pipe(p)'[i] = Pipe(p)[i]) \/ Pipe(p)'[i] = m
        BY <1>1, <1>2, <2>1, <3>1
      <4> QED
        BY <3>1, <4>2, <4>3 DEF Answers, OwnCommands
    <3>2. CASE u # p
      BY <1>2, <2>1, <3>2 DEF Answers, OwnCommands, Queues
    <3> QED
      BY <3>1, <3>2
  <2> QED
    BY <1>1, <1>p, <2>1 DEF Answers, OwnCommands, Own
<1>9. ASSUME NEW u \in Threads PROVE Closing(u)'
  <2>1. ASSUME Awaits(u), Op(u) = "close", NEW i \in DOMAIN Pipe("sync")', Pipe("sync")'[i].id = Id(u)
        PROVE  NoCommand(u)
    <3>1. CASE p = "sync"
      <4>1. Pipe("sync")'[i] = m /\ Hand("sync")
        BY <1>1, <1>2, <1>5, <1>6, <2>1, <3>1 DEF Shared
      <4> QED
        BY <2>1, <4>1 DEF Answers, Closing
    <3>2. CASE p # "sync"
      <4>1. Pipe("sync")' = Pipe("sync")
        BY <1>2, <3>2 DEF Shared, Queues
      <4> QED
        BY <2>1, <4>1 DEF Answers, Closing
    <3> QED
      BY <3>1, <3>2
  <2>2. ~Hand("sync")'
    BY <1>5 DEF Shared
  <2>3. Closing(u) /\ SameCall(u) /\ (Awaits(u)' <=> Awaits(u)) /\ (NoCommand(u)' <=> NoCommand(u))
    BY <1>3, <1>4 DEF Answers
  <2> QED
    BY <1>1, <2>1, <2>2, <2>3 DEF Closing, Command, SameCall
<1> QED
  BY <1>3, <1>7, <1>8, <1>9 DEF Answers

\* The receiving thread finds the wait queue a response is for: the calls', or
\* that of the component that sent the message.
LEMMA Received ==
    ASSUME CallsInv, MsgTyped, Answers, Receive
    PROVE  LET m == Head(wire)
           IN  \E p \in Queues :
                 /\ recv'.pc = "write" /\ recv'.to = p /\ recv'.msg = m
                 /\ p \in Shared => m.back = Back(p)
                 /\ p \notin Shared => p = m.id[1] /\ m.back \notin {0, -1} /\ handle[p].open
<1> DEFINE m == Head(wire)
<1>1. m = wire[1] /\ 1 \in DOMAIN wire /\ m \in Responses /\ m.id[1] \in Threads
  <2>1. wire \in Seq(Responses) /\ wire # <<>>
    BY DEF Receive, MsgTyped
  <2>2. m = wire[1] /\ 1 \in DOMAIN wire /\ m \in Responses
    BY <2>1
  <2> QED
    BY <2>2 DEF Responses
<1>2. ASSUME NEW p, recv' = [recv EXCEPT !.pc = "write", !.msg = m, !.to = p]
      PROVE  recv'.pc = "write" /\ recv'.to = p /\ recv'.msg = m
  BY <1>2 DEF MsgTyped, RecvFields
<1>3. CASE m.back = -1
  <2>1. recv' = [recv EXCEPT !.pc = "write", !.msg = m, !.to = "delayed"]
    BY <1>3 DEF Receive
  <2>2. "delayed" \in Queues /\ "delayed" \in Shared /\ m.back = Back("delayed")
    BY <1>3 DEF Queues, Shared, Back
  <2> QED
    BY <1>2, <2>1, <2>2
<1>4. CASE m.back = 0
  <2>1. recv' = [recv EXCEPT !.pc = "write", !.msg = m, !.to = "sync"]
    BY <1>4 DEF Receive
  <2>2. "sync" \in Queues /\ "sync" \in Shared /\ m.back = Back("sync")
    BY <1>4 DEF Queues, Shared, Back
  <2> QED
    BY <1>2, <2>1, <2>2
<1>5. CASE m.back \notin {0, -1}
  <2> DEFINE u == m.id[1]
  <2>1. handle[u].open /\ handle[u].client = m.back
    BY <1>1, <1>5 DEF Answers, OwnCommands, Own
  <2>2. cmap[m.back] = u
    BY <1>1, <2>1 DEF CallsInv, ClientsInv, Registered
  <2>3. recv' = [recv EXCEPT !.pc = "write", !.msg = m, !.to = u]
    BY <1>1, <1>5, <2>2 DEF Receive
  <2>4. u \in Queues /\ u \notin Shared
    BY <1>1, ProxyAssumption DEF Queues, Shared
  <2> QED
    BY <1>2, <1>5, <2>1, <2>3, <2>4
<1> QED
  BY <1>3, <1>4, <1>5

\* A response is taken off the wire, into the hand of the receiving thread.
LEMMA ReceiveAnswers == ASSUME CallsInv, MsgTyped, Answers, Receive PROVE Answers'
<1>m. PICK m : m = Head(wire)
  OBVIOUS
<1>p. PICK p \in Queues : /\ recv'.pc = "write" /\ recv'.to = p /\ recv'.msg = m
                          /\ p \in Shared => m.back = Back(p)
                          /\ p \notin Shared => p = m.id[1] /\ m.back \notin {0, -1} /\ handle[p].open
  BY <1>m, Received
<1>1. /\ UNCHANGED <<handle, call, dsp, queue>> /\ recv.pc = "idle"
      /\ wire \in Seq(Responses) /\ wire # <<>> /\ wire' = Tail(wire)
  BY DEF Receive, MsgTyped
<1>2. /\ 1 \in DOMAIN wire /\ m = wire[1]
      /\ \A i \in DOMAIN wire' : i + 1 \in DOMAIN wire /\ wire'[i] = wire[i + 1]
      /\ \A i \in DOMAIN wire : i # 1 => i - 1 \in DOMAIN wire' /\ wire'[i - 1] = wire[i]
  BY <1>m, <1>1
<1>3. \A u \in Threads : SameCall(u) /\ (Awaits(u)' <=> Awaits(u)) /\ Got(u)'
  BY <1>1, CallsAlone
<1>4. \A q \in Shared : ~Hand(q) /\ (Hand(q)' <=> q = p) /\ (m.back = Back(q) <=> q = p)
  BY <1>1, <1>p DEF Hand, Back, Shared
<1>5. \A q \in Shared : DspFor(q)' = DspFor(q) /\ Pipe(q)' = Pipe(q)
  BY <1>1 DEF DspFor, Pipe, Back
<1>6. ASSUME NEW q \in Shared PROVE OneResponse(q)'
  <2>1. CASE q = p
    <3>1. 1 \in WireFor(q)
      BY <1>2, <1>4, <2>1 DEF WireFor
    <3>2. PICK u \in Threads : /\ Awaits(u) /\ QueueOf(u) = q
                               /\ \E i \in DOMAIN wire : WireFor(q) = {i} /\ wire[i].id = Id(u)
                               /\ DspFor(q) = {} /\ Pipe(q) = <<>>
      BY <3>1 DEF Answers, OneResponse, Clear, OnItsWay
    <3>3. WireFor(q) = {1} /\ m.id = Id(u)
      BY <1>2, <3>1, <3>2
    <3>4. Awaits(u)' /\ QueueOf(u)' = q /\ Id(u)' = m.id
      BY <1>3, <3>2, <3>3, SameMessage DEF SameCall
    <3>5. WireFor(q)' = {}
      <4>1. ASSUME NEW i \in DOMAIN wire', wire'[i].back = Back(q) PROVE FALSE
        <5>1. i + 1 \in WireFor(q) /\ i # 0
          BY <1>1, <1>2, <4>1 DEF WireFor
        <5> QED
          BY <1>1, <3>3, <5>1
      <4> QED
        BY <4>1 DEF WireFor, Back
    <3> QED
      BY <1>4, <1>5, <1>p, <2>1, <3>2, <3>4, <3>5 DEF OneResponse, OnItsWay
  <2>2. CASE q # p
    <3>1. \A i \in DOMAIN wire' : i \in WireFor(q)' <=> i + 1 \in WireFor(q)
      BY <1>2 DEF WireFor, Back
    <3>2. \A i \in WireFor(q) : i # 1
      BY <1>2, <1>4, <2>2 DEF WireFor
    <3>3. WireFor(q) = {} => WireFor(q)' = {}
      BY <3>1 DEF WireFor
    <3>4. CASE Clear(q)
      BY <1>4, <1>5, <2>2, <3>3, <3>4 DEF OneResponse, Clear
    <3>5. ASSUME NEW u \in Threads, Awaits(u), QueueOf(u) = q, OnItsWay(u, q) PROVE OneResponse(q)'
      <4>1. Awaits(u)' /\ QueueOf(u)' = q /\ Message(u)' = Message(u) /\ Id(u)' = Id(u)
        BY <1>3, <3>5, SameMessage DEF SameCall
      <4>2. CASE WireFor(q) = {}
        <5>1. OnItsWay(u, q)'
          BY <1>4, <1>5, <2>2, <3>3, <3>5, <4>1, <4>2 DEF OnItsWay
        <5> QED
          BY <4>1, <5>1 DEF OneResponse
      <4>3. CASE WireFor(q) # {}
        <5>1. PICK i \in DOMAIN wire : /\ WireFor(q) = {i} /\ wire[i].id = Id(u)
                                       /\ DspFor(q) = {} /\ Pipe(q) = <<>>
          BY <3>5, <4>3 DEF OnItsWay
        <5>2. i - 1 \in DOMAIN wire' /\ wire'[i - 1] = wire[i] /\ i \in Int
          BY <1>1, <1>2, <3>2, <5>1
        <5>3. WireFor(q)' = {i - 1}
          <6>1. ASSUME NEW j \in WireFor(q)' PROVE j = i - 1
            <7>1. j \in DOMAIN wire' /\ j \in Int
              BY <1>1 DEF WireFor
            <7>2. j + 1 \in WireFor(q)
              BY <3>1, <7>1
            <7> QED
              BY <5>1, <5>2, <7>1, <7>2
          <6>2. i - 1 \in WireFor(q)'
            <7>1. (i - 1) + 1 = i
              BY <5>2
            <7> QED
              BY <3>1, <5>1, <5>2, <7>1
          <6> QED
            BY <6>1, <6>2
        <5> QED
          BY <1>4, <1>5, <2>2, <4>1, <5>1, <5>2, <5>3 DEF OneResponse, OnItsWay
      <4> QED
        BY <4>2, <4>3
    <3> QED
      BY <3>4, <3>5 DEF Answers, OneResponse
  <2> QED
    BY <2>1, <2>2
<1>7. OwnCommands'
  <2>1. ASSUME NEW i \in DOMAIN wire' PROVE Own(wire[i])'
    <3>1. Own(wire[i + 1]) /\ wire'[i] = wire[i + 1]
      BY <1>2, <2>1 DEF Answers, OwnCommands
    <3> QED
      BY <1>1, <3>1 DEF Own
  <2> QED
    BY <1>1, <1>p, <2>1 DEF Answers, OwnCommands, Own, Pipe
<1>8. ASSUME NEW u \in Threads, NoCommand(u) PROVE NoCommand(u)'
  <2>1. p # u
    <3>1. ~Command(m, u)
      BY <1>2, <1>8 DEF NoCommand
    <3>2. u \notin Shared
      BY ProxyAssumption DEF Shared
    <3> QED
      BY <1>p, <3>1, <3>2 DEF Command
  <2> QED
    BY <1>1, <1>2, <1>8, <1>p, <2>1 DEF NoCommand, Command
<1>9. ASSUME NEW u \in Threads PROVE Closing(u)'
  <2>1. Closing(u) /\ SameCall(u) /\ (Awaits(u)' <=> Awaits(u))
    BY <1>3 DEF Answers
  <2>2. CASE Awaits(u) /\ Op(u) = "close"
    <3>1. ASSUME NEW i \in DOMAIN wire', wire'[i].back = 0, wire'[i].id = Id(u)
          PROVE  /\ \A n \in dsp : ~Command(n, u)
                 /\ \A j \in DOMAIN wire' : j > i => ~Command(wire'[j], u)
      <4>1. /\ i + 1 \in DOMAIN wire /\ wire'[i] = wire[i + 1]
            /\ \A j \in DOMAIN wire' : /\ j + 1 \in DOMAIN wire /\ wire'[j] = wire[j + 1]
                                       /\ j > i => j + 1 > i + 1
        BY <1>1, <1>2, <3>1
      <4> QED
        BY <2>1, <2>2, <3>1, <4>1 DEF Closing
    <3>2. ASSUME Hand("sync")', m.id = Id(u) PROVE NoCommand(u)'
      <4>1. p = "sync" /\ m.back = 0 /\ u # "sync"
        BY <1>4, <1>p, <3>2, ProxyAssumption DEF Shared, Back
      <4>2. \A n \in dsp : ~Command(n, u)
        BY <1>2, <2>1, <2>2, <3>2, <4>1 DEF Closing
      <4>3. \A j \in DOMAIN wire : j > 1 => ~Command(wire[j], u)
        BY <1>2, <2>1, <2>2, <3>2, <4>1 DEF Closing
      <4>4. \A j \in DOMAIN wire' : j + 1 > 1
        BY <1>1
      <4> QED
        BY <1>1, <1>2, <1>p, <4>1, <4>2, <4>3, <4>4 DEF NoCommand, Command
    <3>3. ASSUME NEW i \in DOMAIN Pipe("sync")', Pipe("sync")'[i].id = Id(u) PROVE NoCommand(u)'
      BY <1>1, <1>8, <2>1, <2>2, <3>3 DEF Closing, Pipe
    <3>4. call'[u].pc \notin {"count", "done"}
      BY <1>1, <2>2 DEF Awaits, Waiting
    <3> QED
      BY <1>1, <1>p, <2>1, <2>2, <3>1, <3>2, <3>3, <3>4 DEF Closing, Command, SameCall
  <2>3. CASE ~(Awaits(u) /\ Op(u) = "close")
    BY <1>1, <1>8, <2>1, <2>3 DEF Closing, SameCall
  <2> QED
    BY <2>2, <2>3
<1> QED
  BY <1>3, <1>6, <1>7, <1>9 DEF Answers

\* The DSP answers: a deletion after all else that it has for the component.
LEMMA AnswerAnswers == ASSUME MsgTyped, Answers, Answer PROVE Answers'
<1>1. PICK m \in dsp, ok \in BOOLEAN :
        /\ m.op = "close" => \A n \in dsp \ {m} : n.comp # m.comp
        /\ dsp' = dsp \ {m}
        /\ wire' = Append(wire, [id |-> m.id, opcode |-> Opcode(m.op, ok), back |-> m.back])
        /\ UNCHANGED <<handle, call, queue, recv>>
  BY DEF Answer
<1> DEFINE r == [id |-> m.id, opcode |-> Opcode(m.op, ok), back |-> m.back]
<1>n. PICK n \in Nat : n = Len(wire) + 1
  BY DEF MsgTyped
<1>2. /\ wire \in Seq(Responses) /\ n \in DOMAIN wire' /\ wire'[n] = r
      /\ \A i \in DOMAIN wire : i \in DOMAIN wire' /\ wire'[i] = wire[i] /\ i < n
      /\ \A i \in DOMAIN wire' : i = n \/ i \in DOMAIN wire
  BY <1>1, <1>n DEF MsgTyped
<1>3. m \in Requests /\ m.id[1] \in Threads /\ r.id = m.id /\ r.back = m.back
  BY DEF MsgTyped, Requests
<1>4. \A u \in Threads : SameCall(u) /\ (Awaits(u)' <=> Awaits(u)) /\ Got(u)'
  BY <1>1, CallsAlone
<1>5. \A q \in Shared : (Hand(q)' <=> Hand(q)) /\ Pipe(q)' = Pipe(q) /\ recv' = recv
  BY <1>1 DEF Hand, Pipe
<1>6. ASSUME NEW q \in Shared PROVE OneResponse(q)'
  <2>1. CASE m.back = Back(q)
    <3>1. m \in DspFor(q)
      BY <2>1 DEF DspFor
    <3>2. PICK u \in Threads : /\ Awaits(u) /\ QueueOf(u) = q /\ DspFor(q) = {Message(u)}
                               /\ WireFor(q) = {} /\ ~Hand(q) /\ Pipe(q) = <<>>
      BY <3>1 DEF Answers, OneResponse, Clear, OnItsWay
    <3>3. DspFor(q) = {m} /\ m.id = Id(u)
      BY <3>1, <3>2 DEF Message
    <3>4. Awaits(u)' /\ QueueOf(u)' = q /\ Id(u)' = r.id
      BY <1>4, <3>2, <3>3, SameMessage DEF SameCall
    <3>5. DspFor(q)' = {}
      BY <1>1, <3>3 DEF DspFor, Back
    <3>6. WireFor(q)' = {n}
      BY <1>2, <1>3, <2>1, <3>2 DEF WireFor, Back
    <3> QED
      BY <1>2, <1>5, <3>2, <3>4, <3>5, <3>6 DEF OneResponse, OnItsWay
  <2>2. CASE m.back # Back(q)
    <3>1. DspFor(q)' = DspFor(q)
      BY <1>1, <2>2 DEF DspFor, Back
    <3>2. WireFor(q)' = WireFor(q)
      BY <1>2, <1>3, <2>2 DEF WireFor, Back
    <3>3. Unmoved(q)
      BY <1>2, <1>5, <3>1, <3>2 DEF Unmoved, WireFor
    <3> QED
      BY <1>4, <3>3, UnmovedOne DEF Answers
  <2> QED
    BY <2>1, <2>2
<1>7. OwnCommands'
  <2>1. ASSUME NEW i \in DOMAIN wire' PROVE Own(wire[i])'
    <3>1. Own(wire'[i])
      BY <1>2, <1>3, <2>1 DEF Answers, OwnCommands, Own
    <3> QED
      BY <1>1, <3>1 DEF Own
  <2> QED
    BY <1>1, <2>1 DEF Answers, OwnCommands, Own, Pipe
<1>8. ASSUME NEW u \in Threads, NoCommand(u) PROVE NoCommand(u)'
  <2>1. ~Command(r, u)
    BY <1>3, <1>8 DEF NoCommand, Command
  <2> QED
    BY <1>1, <1>2, <1>8, <2>1 DEF NoCommand, Command
<1>9. ASSUME NEW u \in Threads PROVE Closing(u)'
  <2>1. Closing(u) /\ SameCall(u) /\ (Awaits(u)' <=> Awaits(u))
    BY <1>4 DEF Answers
  <2>2. CASE Awaits(u) /\ Op(u) = "close"
    <3>1. ASSUME NEW i \in DOMAIN wire', wire'[i].back = 0, wire'[i].id = Id(u)
          PROVE  /\ \A d \in dsp' : ~Command(d, u)
                 /\ \A j \in DOMAIN wire' : j > i => ~Command(wire'[j], u)
      <4>1. CASE i \in DOMAIN wire
        <5>1. /\ \A d \in dsp : ~Command(d, u)
              /\ \A j \in DOMAIN wire : j > i => ~Command(wire[j], u)
          BY <1>2, <2>1, <2>2, <3>1, <4>1 DEF Closing
        <5>2. ~Command(r, u)
          BY <1>3, <5>1 DEF Command
        <5> QED
          BY <1>1, <1>2, <5>1, <5>2
      <4>2. CASE i = n
        <5>1. m.back = 0 /\ m.id = Id(u)
          BY <1>2, <1>3, <3>1, <4>2
        <5>2. m \in DspFor("sync") /\ "sync" \in Shared
          BY <5>1 DEF DspFor, Back, Shared
        <5>3. PICK v \in Threads : Awaits(v) /\ m = Message(v)
          BY <5>2 DEF Answers, OneResponse, Clear, OnItsWay
        <5>4. v = u
          BY <5>1, <5>3 DEF Message, Id
        <5>5. m.op = "close" /\ m.comp = u
          BY <2>2, <5>3, <5>4 DEF Message
        <5>6. \A d \in dsp' : ~Command(d, u)
          BY <1>1, <5>5 DEF Answers, OwnCommands, Command
        <5>7. \A j \in DOMAIN wire' : ~(j > i)
          BY <1>2, <4>2
        <5> QED
          BY <5>6, <5>7
      <4> QED
        BY <1>2, <3>1, <4>1, <4>2
    <3>2. ASSUME Hand("sync")', recv'.msg.id = Id(u) PROVE NoCommand(u)'
      BY <1>5, <1>8, <2>1, <2>2, <3>2 DEF Closing, Shared
    <3>3. ASSUME NEW i \in DOMAIN Pipe("sync")', Pipe("sync")'[i].id = Id(u) PROVE NoCommand(u)'
      BY <1>5, <1>8, <2>1, <2>2, <3>3 DEF Closing, Shared
    <3>4. call'[u].pc \notin {"count", "done"}
      BY <1>1, <2>2 DEF Awaits, Waiting
    <3> QED
      BY <2>1, <2>2, <3>1, <3>2, <3>3, <3>4 DEF Closing, Command, SameCall
  <2>3. CASE ~(Awaits(u) /\ Op(u) = "close")
    BY <1>1, <1>8, <2>1, <2>3 DEF Closing, SameCall
  <2> QED
    BY <2>2, <2>3
<1> QED
  BY <1>4, <1>6, <1>7, <1>9 DEF Answers

-----------------------------------------------------------------------------
(* The answers                                                             *)

\* A sleeper that is woken still awaits its response.
LEMMA SignalKeeps ==
    ASSUME Typed, Answers, Signal, NEW u \in Threads
    PROVE  Keeps(u)
<1>1. UNCHANGED handle
  BY DEF Signal
<1>2. CASE call'[u] = call[u]
  BY <1>1, <1>2, OthersKeep DEF Answers
<1>3. CASE call'[u] # call[u]
  <2>1. PICK t \in Sleepers(recv.to) : Goto(t, "woken")
    BY <1>3 DEF Signal
  <2>2. t \in Threads /\ call[t].pc = "sleep"
    BY DEF Sleepers
  <2>3. Went(t, "woken", call[t].left, call[t].got)
    BY <2>1, <2>2, GotoWent
  <2>4. u = t
    BY <1>3, <2>3 DEF Went
  <2>5. Got(t) /\ SameHandle(t)
    BY <1>1, <2>2 DEF Answers, SameHandle
  <2> QED
    BY <2>2, <2>3, <2>4, <2>5, GoKeeps DEF Waiting
<1> QED
  BY <1>2, <1>3

\* Every action of a thread keeps the answers.
LEMMA ThreadAnswers ==
    ASSUME CallsInv, MsgTyped, Answers, NEW t \in Threads, Thread(t), past' \subseteq {"pipe"}
    PROVE  Answers'
<1>0. Typed /\ StageOf(t) /\ StepOf(t) /\ Closing(t) /\ Got(t)
  BY InvStages DEF CallsInv, IInv, Answers
<1>a. ASSUME dsp' = dsp, ~Read(t), Send(t) => ~Goto(t, "wait") PROVE Answers'
  <2>1. Still
    BY <1>a, ThreadStill
  <2>2. Keeps(t)
    BY <1>0, <1>a, ThreadKeeps
  <2>3. ASSUME NEW u \in Threads \ {t} PROVE Keeps(u)
    <3>1. call'[u] = call[u]
      BY <1>0 DEF Typed, Thread, Begin, GetAux, NoPipe, Lock, Send, Wait, Resume, Timeout, Read,
           Decrement, Unlock, UnlockAgain, GiveUp, PutAux, Goto, Fail, Leave
    <3>2. handle'[u].open = handle[u].open /\ handle'[u].client = handle[u].client
      BY <1>0 DEF Typed, Thread, Begin, GetAux, NoPipe, Lock, ClientAlloc, Send, Wait, Resume,
           Timeout, Read, Decrement, Unlock, UnlockAgain, GiveUp, PutAux
    <3> QED
      BY <3>1, <3>2, OthersKeep DEF Answers
  <2> QED
    BY <2>1, <2>2, <2>3, StillAnswers
<1>1. CASE Read(t)
  BY <1>1, ReadAnswers
<1>2. CASE Send(t) /\ ~Read(t)
  <2>1. CASE dsp' = dsp \cup {Message(t)} /\ Op(t) = "command"
    BY <1>2, <2>1, CommandSent
  <2>2. CASE dsp' = dsp \cup {Message(t)} /\ Op(t) # "command" /\ Goto(t, "wait")
    BY <1>2, <2>2, CallSent
  <2>3. CASE dsp' = dsp /\ Op(t) = "command"
    <3>1. ~Goto(t, "wait")
      <4>1. Leave(t)
        BY <1>2, <2>3 DEF Send
      <4> QED
        BY <1>0, <4>1, LeaveWent, GotoWent DEF Went
    <3> QED
      BY <1>2, <1>a, <2>3, <3>1
  <2>4. CASE dsp' = dsp /\ Fail(t, "send")
    <3>1. ~Goto(t, "wait")
      BY <1>0, <2>4, FailWent, GotoWent DEF Went
    <3> QED
      BY <1>2, <1>a, <2>4, <3>1
  <2> QED
    BY <1>2, <2>1, <2>2, <2>3, <2>4 DEF Send
<1>3. CASE ~Read(t) /\ ~Send(t)
  <2>1. dsp' = dsp
    BY <1>3 DEF Thread, Begin, GetAux, NoPipe, Lock, Wait, Resume, Timeout,
       Decrement, Unlock, UnlockAgain, GiveUp, PutAux
  <2> QED
    BY <1>3, <1>a, <2>1
<1> QED
  BY <1>1, <1>2, <1>3

\* Nothing is on its way when the proxy starts.
LEMMA InitAnswers == Init => MsgTyped /\ Answers
<1> SUFFICES ASSUME Init PROVE MsgTyped /\ Answers
  OBVIOUS
<1>1. /\ dsp = {} /\ wire = <<>> /\ recv = Quiet
      /\ DOMAIN queue = Queues /\ \A q \in Queues : queue[q] = EmptyQueue
  BY DEF Init
<1>2. /\ Quiet.pc = "idle" /\ Quiet.to \in Queues /\ DOMAIN Quiet = RecvFields
      /\ EmptyQueue.pipe = <<>> /\ DOMAIN EmptyQueue = QueueFields
  BY DEF Quiet, RecvFields, EmptyQueue, QueueFields, Queues, Shared
<1>3. MsgTyped
  <2>1. <<>> \in Seq(Responses)
    OBVIOUS
  <2> QED
    BY <1>1, <1>2, <2>1 DEF MsgTyped
<1>4. \A t \in Threads : call[t].pc = "idle" /\ call[t].got.id = <<>>
  BY DEF Init, NoAnswer
<1>5. \A q \in Queues : Pipe(q) = <<>>
  BY <1>1, <1>2 DEF Pipe
<1>6. \A q \in Shared : OneResponse(q)
  <2>1. \A q \in Shared : Clear(q)
    BY <1>1, <1>2, <1>5 DEF Clear, DspFor, WireFor, Hand, Queues
  <2> QED
    BY <2>1 DEF OneResponse
<1>7. OwnCommands
  BY <1>1, <1>2, <1>5 DEF OwnCommands, Queues
<1>8. \A t \in Threads : Closing(t) /\ Got(t)
  BY <1>4 DEF Closing, Got, Awaits, Waiting
<1> QED
  BY <1>3, <1>6, <1>7, <1>8 DEF Answers

\* What calls have done stays done.
LEMMA PastStays == [Next]_vars => past \subseteq past'
  BY DEF Next, Thread, Begin, GetAux, NoPipe, Lock, Send, Wait, Resume, Timeout, Read, Decrement,
     Unlock, UnlockAgain, GiveUp, PutAux, ProxyThread, Receive, Write, Load, Increment, Signal, Answer, vars

\* Until a wait times out or statistics are refused, one call at a time awaits
\* one response, commands on their way are those of open components, and
\* nothing for a component comes behind its deletion.
THEOREM AnswersInvariance == Spec => []AnswersInv
<1>1. Init => MsgTyped /\ Answered
  BY InitAnswers DEF Answered
<1>2. CallsInv /\ MsgTyped /\ Answered /\ [Next]_vars => MsgTyped' /\ Answered'
  <2> SUFFICES ASSUME CallsInv, MsgTyped, Answered, [Next]_vars
               PROVE  MsgTyped' /\ Answered'
    OBVIOUS
  <2>1. MsgTyped'
    BY MsgTypes
  <2>2. ASSUME past' \subseteq {"pipe"} PROVE Answers'
    <3>1. Answers
      BY <2>2, PastStays DEF Answered
    <3>2. CASE \E t \in Threads : Thread(t)
      BY <2>2, <3>1, <3>2, ThreadAnswers
    <3>3. CASE Load \/ Increment
      <4>1. UNCHANGED <<handle, call>>
        BY <3>3 DEF Load, Increment
      <4>2. \A u \in Threads : Keeps(u)
        BY <3>1, <4>1, OthersKeep DEF Answers
      <4> QED
        BY <3>1, <3>3, <4>2, CountStill, StillAnswers
    <3>4. CASE Signal
      BY <3>1, <3>4, CountStill, SignalKeeps, StillAnswers DEF CallsInv, IInv
    <3>5. CASE UNCHANGED vars
      <4>1. Still
        BY <3>5 DEF vars, MsgTyped, Still
      <4>2. \A u \in Threads : Keeps(u)
        BY <3>1, <3>5, OthersKeep DEF Answers, vars
      <4> QED
        BY <3>1, <4>1, <4>2, StillAnswers
    <3> QED
      BY <3>1, <3>2, <3>3, <3>4, <3>5, WriteAnswers, ReceiveAnswers, AnswerAnswers DEF Next, ProxyThread
  <2> QED
    BY <2>1, <2>2 DEF Answered
<1> QED
  BY <1>1, <1>2, CallsInvariance, PTL DEF Spec, AnswersInv

\* For any number of threads, components and calls: until a wait times out or
\* statistics are refused, every call gets the response to its own message,
\* though responses carry nothing to match them by (xf_proxy_response_get,
\* xf_response_get, xf_proxy_lock).
THEOREM OwnAnswers == Spec => []OwnAnswer
<1>1. AnswersInv => OwnAnswer
  BY DEF AnswersInv, Answered, Answers, Got, OwnAnswer
<1> QED
  BY <1>1, AnswersInvariance, PTL

\* And none is put into the wait queue of a component that is not open, so
\* xf_close may take the queue down (xf_proxy_thread, xf_close).
THEOREM PutsToOpen == Spec => []PutToOpen
<1>1. AnswersInv => PutToOpen
  <2> SUFFICES ASSUME AnswersInv, recv.pc # "idle", recv.to \in Threads, past \subseteq {"pipe"}
               PROVE  handle[recv.to].open
    BY DEF PutToOpen
  <2>1. recv.to \notin Shared
    BY ProxyAssumption DEF Shared
  <2> QED
    BY <2>1 DEF AnswersInv, Answered, Answers, OwnCommands
<1> QED
  BY <1>1, AnswersInvariance, PTL
=============================================================================
