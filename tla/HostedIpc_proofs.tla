---------------------------- MODULE HostedIpc_proofs ----------------------------
(***************************************************************************)
(* For rings, pools, sessions and commands of any number: an application   *)
(* that reads all its answers before it closes the device, whose work item *)
(* does not stall across a reopening, and whose rings are not cleared      *)
(* between a consumer's copies of the two indices, is given the service of *)
(* CommandService, and no descriptor of either pool is lost.               *)
(***************************************************************************)
EXTENDS HostedIpc, SequenceTheorems, FiniteSetTheorems, TLAPS

\* each ring, cleared in one step, with the lemmas about it, and the service
\* with its own
CmdR == INSTANCE ShmemRing_proofs
            WITH Messages <- Message \cup {Garbage}, Nothing <- NoMessage,
                 ring <- CmdMem, prod <- cmdProd, cons <- cmdCons
RspR == INSTANCE ShmemRing_proofs
            WITH Messages <- Message \cup {Garbage}, Nothing <- NoMessage,
                 ring <- RspMem, prod <- rspProd, cons <- rspCons
Svc  == INSTANCE CommandService_proofs
            WITH queue <- CommandsOnTheWay, answers <- ResponsesOnTheWay

OrderlyUse == ~MayCrash /\ ~MayStall /\ ~MayTear

-----------------------------------------------------------------------------
(* The rings.  xf_client_register zeroes the indices under the feet of a   *)
(* side that may be in the middle of a pass: that side is left with old    *)
(* copies, but only when it has nothing to send, or nothing it takes for   *)
(* sent.  Between the two writes that clear a ring its producer may still  *)
(* copy the old write index, its consumer copies nothing.                  *)

\* what a slot of a ring may hold
Content == Message \cup {Garbage}

RingType == [slots : [Cmd!Slot -> Content], read : Cmd!Index, write : Cmd!Index]

RingsInv ==
    /\ CmdR!SidesInv /\ RspR!SidesInv
    /\ command # <<>> => CmdR!ProducerInv
    /\ remote # <<>> \/ executing # {} => RspR!ProducerInv
    /\ {cmdRing, rspRing} \subseteq RingType
    /\ client = "zeroCmdWrite" => cmdCons.pc # "reading"
    /\ client = "zeroRspWrite" => rspCons.pc # "reading"

\* Each side works on its ring in one phase of its loop only.
PhasesInv ==
    /\ cmdProd.pc # "idle" <=> worker.pc = "commands"
    /\ rspCons.pc # "idle" <=> worker.pc = "responses"
    /\ rspProd.pc # "idle" <=> dsp.pc = "output"
    /\ cmdCons.pc # "idle" <=> dsp.pc = "input"

-----------------------------------------------------------------------------
(* The handshake                                                           *)

Cold   == hostPattern = 0 /\ dspPattern = 0 /\ dsp.pc \notin {"ack", "clear"}
Asked  == /\ hostPattern = session /\ dspPattern = 0 /\ dsp.pc # "clear"
          /\ dsp.pc = "ack" => dsp.seen = session
Acked  == hostPattern = session /\ dspPattern = session /\ dsp.pc = "clear"
Synced == hostPattern = 0 /\ dspPattern = session /\ dsp.pc \notin {"boot", "ack", "clear"}

\* from the opening of the device until the last index is zeroed
Opened == {"open", "zeroCmdRead", "zeroCmdWrite", "zeroRspRead", "zeroRspWrite"}

HandshakeInv ==
    \/ /\ client \in {"none", "closing"} /\ kthread = "none" /\ ~syncFrom /\ Cold
    \/ /\ client \in Opened \cup {"registered"} /\ session > 0
       /\ \/ kthread = "hello" /\ ~syncFrom /\ Cold
          \/ kthread = "await" /\ ~syncFrom /\ (Asked \/ Acked \/ Synced)
          \/ kthread = "poll"  /\ syncFrom  /\ (Acked \/ Synced)

-----------------------------------------------------------------------------
(* The messages                                                            *)

\* nothing has left the driver's command queue
NothingSent == CommandsOnTheWay = command /\ executing = {} /\ ResponsesOnTheWay = <<>>

\* Before the handshake is complete the DSP is given nothing; until it has
\* initialised itself and answered it works on nothing.
AwaitInv ==
    /\ client \in {"none", "closing"} \cup Opened => outstanding = {}
    /\ client \in Opened => written = 0
    /\ ~syncFrom => NothingSent
    /\ dsp.pc \in {"boot", "ack", "clear"} =>
          local = <<>> /\ executing = {} /\ ResponsesOnTheWay = <<>>
    /\ client \in Opened \cup {"registered"} /\ (~syncFrom \/ dsp.pc = "clear")
          => outstanding = {session} \X (1 .. written)
    /\ worker.pc = "locking" /\ ~syncFrom => client \in {"none", "closing"}
    /\ worker.pc \in {"sync", "commands", "responses"} /\ ~syncFrom => command = <<>>

MessagesInv == Svc!SInv /\ outstanding = Svc!Outstanding

PoolsInv ==
    /\ free \in Nat /\ dspFree \in Nat
    /\ HostPoolConserved /\ DspPoolConserved

\* the variables whose values nothing above bounds
WorkerType == [pc : {"idle", "locking", "sync", "commands", "responses"},
               changed : BOOLEAN, remote : BOOLEAN]
DspType    == [pc : {"boot", "ack", "clear", "wait", "sync", "output", "input", "dispatch"},
               changed : BOOLEAN, remote : BOOLEAN, served : BOOLEAN, fresh : BOOLEAN,
               seen : 0 .. MaxSessions]

TypesInv ==
    /\ client \in {"none", "registered", "closing"} \cup Opened
    /\ clientQ \in Seq(Message \cup {Garbage}) /\ command \in Seq(Message)
    /\ {local, remote} \subseteq Seq(Message \cup {Garbage})
    /\ worker \in WorkerType /\ dsp \in DspType
    /\ kthread \in {"none", "hello", "await", "poll"}
    /\ {workPending, syncFrom, notified, dspEvent} \subseteq BOOLEAN
    /\ {hostPattern, dspPattern, session} \subseteq 0 .. MaxSessions
    /\ written \in 0 .. MaxCommands
    /\ receiver \in {"none", "poll", "sleep", "read"}

IInv ==
    /\ RingsInv /\ PhasesInv /\ HandshakeInv /\ AwaitInv /\ MessagesInv /\ PoolsInv /\ TypesInv

-----------------------------------------------------------------------------
(* Sequences: four queues one behind the other                             *)

Chain(a, b, c, d) == a \o b \o c \o d

\* A queue with a message in it is that message and the rest.
LEMMA HeadAndTail ==
    ASSUME NEW E, NEW s \in Seq(E)
    PROVE  /\ s # <<>> => /\ Head(s) \in E /\ Tail(s) \in Seq(E)
                          /\ s = <<Head(s)>> \o Tail(s) /\ Len(s) = Len(Tail(s)) + 1
           /\ \A x \in E : /\ <<x>> \o s # <<>> /\ Head(<<x>> \o s) = x
                            /\ Tail(<<x>> \o s) = s
<1>1. ASSUME s # <<>>
      PROVE  /\ Head(s) \in E /\ Tail(s) \in Seq(E)
             /\ s = <<Head(s)>> \o Tail(s) /\ Len(s) = Len(Tail(s)) + 1
  <2>1. /\ Head(s) \in E /\ Tail(s) \in Seq(E) /\ Len(Tail(s)) = Len(s) - 1
        /\ \A i \in 1 .. Len(Tail(s)) : Tail(s)[i] = s[i + 1]
        /\ Len(s) \in Nat \ {0} /\ Head(s) = s[1]
    BY <1>1, HeadTailProperties, EmptySeq
  <2>2. <<Head(s)>> \in Seq(E) /\ Len(<<Head(s)>>) = 1 /\ <<Head(s)>>[1] = s[1]
    BY <2>1
  <2>3. /\ <<Head(s)>> \o Tail(s) \in Seq(E) /\ Len(<<Head(s)>> \o Tail(s)) = Len(s)
        /\ \A i \in 1 .. Len(s) : (<<Head(s)>> \o Tail(s))[i]
               = IF i <= 1 THEN <<Head(s)>>[i] ELSE Tail(s)[i - 1]
    BY <2>1, <2>2, ConcatProperties
  <2>4. \A i \in 1 .. Len(s) : (<<Head(s)>> \o Tail(s))[i] = s[i]
    BY <2>1, <2>2, <2>3
  <2>5. s = <<Head(s)>> \o Tail(s)
    BY <2>3, <2>4, SeqEqual
  <2> QED
    BY <2>1, <2>5
<1>2. ASSUME NEW x \in E
      PROVE  <<x>> \o s # <<>> /\ Head(<<x>> \o s) = x /\ Tail(<<x>> \o s) = s
  <2> DEFINE t == <<x>> \o s
  <2>1. <<x>> \in Seq(E) /\ Len(<<x>>) = 1 /\ <<x>>[1] = x /\ Len(s) \in Nat
    BY LenProperties
  <2>2. /\ t \in Seq(E) /\ Len(t) = Len(s) + 1
        /\ \A i \in 1 .. Len(s) + 1 : t[i] = IF i <= 1 THEN <<x>>[i] ELSE s[i - 1]
    BY <2>1, ConcatProperties
  <2> HIDE DEF t
  <2>3. t # <<>>
    BY <2>1, <2>2
  <2>4. /\ Head(t) = t[1] /\ Tail(t) \in Seq(E) /\ Len(Tail(t)) = Len(s)
        /\ \A i \in 1 .. Len(s) : Tail(t)[i] = t[i + 1]
    BY <2>1, <2>2, <2>3, HeadTailProperties
  <2>5. \A i \in 1 .. Len(s) : Tail(t)[i] = s[i]
    BY <2>1, <2>2, <2>4
  <2>6. Tail(t) = s
    BY <2>4, <2>5, SeqEqual
  <2>7. Head(t) = x
    BY <2>1, <2>2, <2>4
  <2> QED
    BY <2>3, <2>6, <2>7 DEF t
<1> QED
  BY <1>1, <1>2

\* Two queues one behind the other, and a message between them.
LEMMA AppendConcat ==
    ASSUME NEW E, NEW a \in Seq(E), NEW b \in Seq(E), NEW x \in E
    PROVE  Append(a, x) \o b = a \o (<<x>> \o b)
<1>1. <<x>> \in Seq(E) /\ Append(a, x) = a \o <<x>>
  BY AppendIsConcat
<1>2. (a \o <<x>>) \o b = a \o (<<x>> \o b)
  BY <1>1, ConcatAssociative
<1> QED
  BY <1>1, <1>2

LEMMA ConcatAppend ==
    ASSUME NEW E, NEW a \in Seq(E), NEW b \in Seq(E), NEW x \in E
    PROVE  a \o Append(b, x) = (a \o b) \o <<x>>
<1>1. <<x>> \in Seq(E) /\ Append(b, x) = b \o <<x>>
  BY AppendIsConcat
<1>2. (a \o b) \o <<x>> = a \o (b \o <<x>>)
  BY <1>1, ConcatAssociative
<1> QED
  BY <1>1, <1>2

\* What is in a queue is in every chain it is part of, and nothing else is.
LEMMA ToSetConcat ==
    ASSUME NEW E, NEW a \in Seq(E), NEW b \in Seq(E)
    PROVE  ToSet(a \o b) = ToSet(a) \cup ToSet(b)
<1>1. /\ Len(a) \in Nat /\ Len(b) \in Nat /\ DOMAIN a = 1 .. Len(a) /\ DOMAIN b = 1 .. Len(b)
      /\ DOMAIN (a \o b) = 1 .. Len(a) + Len(b)
      /\ \A i \in 1 .. Len(a) + Len(b) :
            (a \o b)[i] = IF i <= Len(a) THEN a[i] ELSE b[i - Len(a)]
  BY ConcatProperties, LenProperties
<1> DEFINE ab == a \o b
<1> HIDE DEF ab
<1>2. ASSUME NEW i \in 1 .. Len(a) + Len(b)
      PROVE  ab[i] \in ToSet(a) \cup ToSet(b)
  <2>1. CASE i <= Len(a)
    BY <1>1, <2>1 DEF ToSet, ab
  <2>2. CASE ~(i <= Len(a))
    <3>1. i - Len(a) \in 1 .. Len(b)
      BY <1>1, <2>2
    <3> QED
      BY <1>1, <2>2, <3>1 DEF ToSet, ab
  <2> QED
    BY <2>1, <2>2
<1>3. ASSUME NEW i \in 1 .. Len(a) PROVE a[i] \in ToSet(ab)
  <2>1. i \in 1 .. Len(a) + Len(b) /\ i <= Len(a)
    BY <1>1
  <2>2. ab[i] = a[i] /\ i \in DOMAIN ab
    BY <1>1, <2>1 DEF ab
  <2> QED
    BY <2>2 DEF ToSet
<1>4. ASSUME NEW i \in 1 .. Len(b) PROVE b[i] \in ToSet(ab)
  <2>1. /\ Len(a) + i \in 1 .. Len(a) + Len(b) /\ ~(Len(a) + i <= Len(a))
        /\ Len(a) + i - Len(a) = i
    BY <1>1
  <2>2. ab[Len(a) + i] = b[i] /\ Len(a) + i \in DOMAIN ab
    BY <1>1, <2>1 DEF ab
  <2> QED
    BY <2>2 DEF ToSet
<1>5. ToSet(ab) \subseteq ToSet(a) \cup ToSet(b)
  BY <1>1, <1>2 DEF ToSet, ab
<1>6. ToSet(a) \subseteq ToSet(ab) /\ ToSet(b) \subseteq ToSet(ab)
  BY <1>1, <1>3, <1>4 DEF ToSet
<1> QED
  BY <1>5, <1>6 DEF ab

\* A queue is one of the things in it.
LEMMA SeqOfItsElements ==
    ASSUME NEW E, NEW s \in Seq(E), NEW T, ToSet(s) \subseteq T
    PROVE  s \in Seq(T)
<1>1. Len(s) \in Nat /\ s \in [1 .. Len(s) -> E]
  BY LenProperties
<1>2. \A i \in 1 .. Len(s) : s[i] \in T
  BY <1>1 DEF ToSet
<1>3. s \in [1 .. Len(s) -> T]
  BY <1>1, <1>2
<1> QED
  BY <1>1, <1>3, SeqDef

\* A chain is a queue, empty when all of it is.
LEMMA ChainType ==
    ASSUME NEW E, NEW a \in Seq(E), NEW b \in Seq(E), NEW c \in Seq(E), NEW d \in Seq(E)
    PROVE  /\ Chain(a, b, c, d) \in Seq(E)
           /\ Chain(a, b, c, d) = <<>> <=> a = <<>> /\ b = <<>> /\ c = <<>> /\ d = <<>>
<1>1. a \o b \in Seq(E) /\ (a \o b) \o c \in Seq(E) /\ ((a \o b) \o c) \o d \in Seq(E)
  BY ConcatProperties
<1>2. /\ a \o b = <<>> <=> a = <<>> /\ b = <<>>
      /\ (a \o b) \o c = <<>> <=> a \o b = <<>> /\ c = <<>>
      /\ ((a \o b) \o c) \o d = <<>> <=> (a \o b) \o c = <<>> /\ d = <<>>
  BY <1>1, ConcatEqualIffEmpty
<1> QED
  BY <1>1, <1>2 DEF Chain

LEMMA ChainElements ==
    ASSUME NEW E, NEW a \in Seq(E), NEW b \in Seq(E), NEW c \in Seq(E), NEW d \in Seq(E)
    PROVE  ToSet(Chain(a, b, c, d)) = ToSet(a) \cup ToSet(b) \cup ToSet(c) \cup ToSet(d)
<1>1. a \o b \in Seq(E) /\ (a \o b) \o c \in Seq(E)
  BY ConcatProperties
<1>2. ToSet(a \o b) = ToSet(a) \cup ToSet(b)
  BY ToSetConcat
<1>3. ToSet((a \o b) \o c) = ToSet(a \o b) \cup ToSet(c)
  BY <1>1, ToSetConcat
<1>4. ToSet(((a \o b) \o c) \o d) = ToSet((a \o b) \o c) \cup ToSet(d)
  BY <1>1, ToSetConcat
<1> QED
  BY <1>2, <1>3, <1>4 DEF Chain

\* A message put behind the last queue is behind them all.
LEMMA ChainPut ==
    ASSUME NEW E, NEW a \in Seq(E), NEW b \in Seq(E), NEW c \in Seq(E), NEW d \in Seq(E),
           NEW x \in E
    PROVE  Chain(a, b, c, Append(d, x)) = Append(Chain(a, b, c, d), x)
<1> DEFINE abc == (a \o b) \o c
<1>1. abc \in Seq(E) /\ abc \o d \in Seq(E)
  BY ConcatProperties
<1> HIDE DEF abc
<1>2. abc \o Append(d, x) = (abc \o d) \o <<x>>
  BY <1>1, ConcatAppend
<1>3. Append(abc \o d, x) = (abc \o d) \o <<x>>
  BY <1>1, AppendIsConcat
<1> QED
  BY <1>2, <1>3 DEF Chain, abc

\* A message handed from the front of a queue to the end of the one before it
\* is in the same place of the chain: into a slot of the ring ...
LEMMA ChainFill ==
    ASSUME NEW E, NEW a \in Seq(E), NEW b \in Seq(E), NEW d \in Seq(E), d # <<>>
    PROVE  Chain(a, b, <<Head(d)>>, Tail(d)) = Chain(a, b, <<>>, d)
<1> DEFINE ab == a \o b
           x == Head(d)
<1>1. x \in E /\ Tail(d) \in Seq(E) /\ d = <<x>> \o Tail(d)
  BY HeadAndTail
<1>2. ab \in Seq(E) /\ <<x>> \in Seq(E)
  BY <1>1, ConcatProperties
<1>3. (ab \o <<x>>) \o Tail(d) = ab \o (<<x>> \o Tail(d))
  BY <1>1, <1>2, ConcatAssociative
<1>4. ab \o <<>> = ab
  BY <1>2, ConcatEmptySeq
<1> QED
  BY <1>1, <1>3, <1>4 DEF Chain

\* ... from there into the ring ...
LEMMA ChainPublish ==
    ASSUME NEW E, NEW a \in Seq(E), NEW b \in Seq(E), NEW d \in Seq(E), NEW x \in E
    PROVE  Chain(a, Append(b, x), <<>>, d) = Chain(a, b, <<x>>, d)
<1>1. a \o Append(b, x) = (a \o b) \o <<x>>
  BY ConcatAppend
<1>2. a \o b \in Seq(E) /\ <<x>> \in Seq(E)
  BY ConcatProperties
<1>3. (a \o b) \o <<x>> \in Seq(E)
  BY <1>2, ConcatProperties
<1>4. ((a \o b) \o <<x>>) \o <<>> = (a \o b) \o <<x>>
  BY <1>3, ConcatEmptySeq
<1> QED
  BY <1>1, <1>4 DEF Chain

\* ... and from the ring into the other side's queue.
LEMMA ChainTake ==
    ASSUME NEW E, NEW a \in Seq(E), NEW b \in Seq(E), NEW c \in Seq(E), NEW d \in Seq(E),
           b # <<>>
    PROVE  Chain(Append(a, Head(b)), Tail(b), c, d) = Chain(a, b, c, d)
<1> DEFINE x == Head(b)
<1>1. x \in E /\ Tail(b) \in Seq(E) /\ b = <<x>> \o Tail(b)
  BY HeadAndTail
<1>2. Append(a, x) \o Tail(b) = a \o (<<x>> \o Tail(b))
  BY <1>1, AppendConcat
<1> QED
  BY <1>1, <1>2 DEF Chain

\* The first message of the first queue is the first of them all.
LEMMA ChainGet ==
    ASSUME NEW E, NEW a \in Seq(E), NEW b \in Seq(E), NEW c \in Seq(E), NEW d \in Seq(E),
           a # <<>>
    PROVE  /\ Chain(a, b, c, d) # <<>> /\ Head(Chain(a, b, c, d)) = Head(a)
           /\ Tail(Chain(a, b, c, d)) = Chain(Tail(a), b, c, d)
<1> DEFINE x == Head(a)
           t == Tail(a)
<1>1. x \in E /\ t \in Seq(E) /\ a = <<x>> \o t
  BY HeadAndTail
<1>2. /\ <<x>> \in Seq(E) /\ t \o b \in Seq(E) /\ (t \o b) \o c \in Seq(E)
      /\ ((t \o b) \o c) \o d \in Seq(E)
  BY <1>1, ConcatProperties
<1> HIDE DEF x, t
<1>3. (<<x>> \o t) \o b = <<x>> \o (t \o b)
  BY <1>1, <1>2, ConcatAssociative
<1>4. (<<x>> \o (t \o b)) \o c = <<x>> \o ((t \o b) \o c)
  BY <1>2, ConcatAssociative
<1>5. (<<x>> \o ((t \o b) \o c)) \o d = <<x>> \o (((t \o b) \o c) \o d)
  BY <1>2, ConcatAssociative
<1>6. Chain(a, b, c, d) = <<x>> \o Chain(t, b, c, d)
  BY <1>1, <1>3, <1>4, <1>5 DEF Chain
<1>7. Chain(t, b, c, d) \in Seq(E)
  BY <1>2 DEF Chain
<1>8. /\ <<x>> \o Chain(t, b, c, d) # <<>> /\ Head(<<x>> \o Chain(t, b, c, d)) = x
      /\ Tail(<<x>> \o Chain(t, b, c, d)) = Chain(t, b, c, d)
  BY <1>1, <1>7, HeadAndTail
<1> QED
  BY <1>6, <1>8 DEF x, t

-----------------------------------------------------------------------------
(* The rings of the path are rings as the lemmas know them                 *)


\* The commands and the responses on their way are two chains of queues.
LEMMA OnTheWay ==
    /\ CommandsOnTheWay = Chain(local, CmdR!Pending, CmdR!Unpublished, command)
    /\ ResponsesOnTheWay = Chain(clientQ, RspR!Pending, RspR!Unpublished, remote)
    /\ CommandsOnTheWay' = Chain(local', CmdR!Pending', CmdR!Unpublished', command')
    /\ ResponsesOnTheWay' = Chain(clientQ', RspR!Pending', RspR!Unpublished', remote')
<1>1. InCmd!Pending = CmdR!Pending /\ InCmd!Pending' = CmdR!Pending'
  BY DEF InCmd!Pending, InCmd!Dist, InCmd!Plus, CmdR!Pending, CmdR!Dist, CmdR!Plus
<1>2. InRsp!Pending = RspR!Pending /\ InRsp!Pending' = RspR!Pending'
  BY DEF InRsp!Pending, InRsp!Dist, InRsp!Plus, RspR!Pending, RspR!Dist, RspR!Plus
<1>3. /\ Filled(cmdRing, cmdProd) = CmdR!Unpublished
      /\ Filled(cmdRing, cmdProd)' = CmdR!Unpublished'
  BY DEF Filled, CmdMem, CmdR!Unpublished, CmdR!Fill
<1>4. /\ Filled(rspRing, rspProd) = RspR!Unpublished
      /\ Filled(rspRing, rspProd)' = RspR!Unpublished'
  BY DEF Filled, RspMem, RspR!Unpublished, RspR!Fill
<1> QED
  BY <1>1, <1>2, <1>3, <1>4 DEF CommandsOnTheWay, ResponsesOnTheWay, Chain

LEMMA RingFacts ==
    ASSUME RingsInv
    PROVE  /\ CmdR!TypeOK /\ RspR!TypeOK
           /\ CmdR!Pending \in Seq(Content) /\ RspR!Pending \in Seq(Content)
           /\ CmdR!Unpublished \in Seq(Content) /\ RspR!Unpublished \in Seq(Content)
<1>1. CmdR!TypeOK /\ CmdR!Pending \in Seq(Content)
  BY IpcAssumption, CmdR!SidesFacts DEF RingsInv, Content
<1>2. RspR!TypeOK /\ RspR!Pending \in Seq(Content)
  BY IpcAssumption, RspR!SidesFacts DEF RingsInv, Content
<1>3. CmdR!Fill \in Content /\ RspR!Fill \in Content
  BY <1>1, <1>2 DEF CmdR!TypeOK, CmdR!Fill, CmdR!Index, RspR!TypeOK, RspR!Fill, RspR!Index, Content
<1> QED
  BY <1>1, <1>2, <1>3 DEF CmdR!Unpublished, RspR!Unpublished

LEMMA QueueFacts ==
    ASSUME IInv
    PROVE  /\ local \in Seq(Content) /\ command \in Seq(Content)
           /\ clientQ \in Seq(Content) /\ remote \in Seq(Content)
           /\ CmdR!TypeOK /\ RspR!TypeOK
           /\ CmdR!Pending \in Seq(Content) /\ RspR!Pending \in Seq(Content)
           /\ CmdR!Unpublished \in Seq(Content) /\ RspR!Unpublished \in Seq(Content)
<1>1. command \in Seq(Content)
  BY SeqMonotonic DEF IInv, TypesInv, Content
<1> QED
  BY <1>1, RingFacts DEF IInv, TypesInv, Content

\* What is outstanding are messages, and so are the responses on their way.
LEMMA Contents ==
    ASSUME IInv
    PROVE  /\ outstanding \subseteq Message /\ outstanding \subseteq {session} \X (1 .. written)
           /\ outstanding = ToSet(CommandsOnTheWay) \cup executing \cup ToSet(ResponsesOnTheWay)
           /\ outstanding = {} => CommandsOnTheWay = <<>> /\ executing = {} /\ ResponsesOnTheWay = <<>>
<1>1. outstanding \subseteq {session} \X (1 .. written)
  BY Svc!OutstandingWritten DEF IInv, MessagesInv
<1>2. outstanding \subseteq Message
  <2>1. CASE client \in Opened \cup {"registered"}
    <3>1. session \in 1 .. MaxSessions /\ written \in 0 .. MaxCommands
      BY <2>1, IpcAssumption DEF IInv, HandshakeInv, TypesInv, Opened
    <3> QED
      BY <1>1, <3>1, IpcAssumption DEF Message
  <2>2. CASE client \in {"none", "closing"}
    BY <2>2 DEF IInv, AwaitInv
  <2> QED
    BY <2>1, <2>2 DEF IInv, TypesInv, WorkerType, DspType
<1>3. outstanding = {} => CommandsOnTheWay = <<>> /\ executing = {} /\ ResponsesOnTheWay = <<>>
  BY Svc!NoneOutstanding DEF IInv, MessagesInv
<1> QED
  BY <1>1, <1>2, <1>3 DEF IInv, MessagesInv, Svc!Outstanding, Svc!ToSet, ToSet

\* An index is zeroed when nothing is on its way.
LEMMA NothingOnTheWay ==
    ASSUME IInv, client \in Opened
    PROVE  /\ CommandsOnTheWay = <<>> /\ executing = {} /\ ResponsesOnTheWay = <<>>
           /\ local = <<>> /\ CmdR!Pending = <<>> /\ CmdR!Unpublished = <<>> /\ command = <<>>
           /\ clientQ = <<>> /\ RspR!Pending = <<>> /\ RspR!Unpublished = <<>> /\ remote = <<>>
<1>1. outstanding = {}
  BY DEF IInv, AwaitInv
<1>2. /\ CommandsOnTheWay = <<>> /\ executing = {} /\ ResponsesOnTheWay = <<>>
  BY <1>1, Contents
<1> QED
  BY <1>2, OnTheWay, QueueFacts, ChainType

\* The steps on the command ring are steps on the ring as the lemmas know it,
\* those that write the ring or read its write index when it is not half
\* cleared ...
LEMMA CmdActions ==
    ASSUME client' = client, cmdRing \in RingType
    PROVE  /\ Cmd!ProducerReadPeer => CmdR!ProducerReadPeer
           /\ Cmd!ProducerStop => CmdR!ProducerStop
           /\ Cmd!ConsumerSync => CmdR!ConsumerSync
           /\ Cmd!ConsumerTake => CmdR!ConsumerTake
           /\ Cmd!ConsumerPublish => CmdR!ConsumerPublish
           /\ Cmd!ConsumerStop => CmdR!ConsumerStop
           /\ client # "zeroCmdWrite" =>
                /\ Cmd!ProducerSync => CmdR!ProducerSync
                /\ \A m : Cmd!ProducerFill(m) => CmdR!ProducerFill(m)
                /\ Cmd!ProducerPublish => CmdR!ProducerPublish
                /\ Cmd!ConsumerReadPeer => CmdR!ConsumerReadPeer
<1>1. CmdMem.read = cmdRing.read /\ CmdMem.slots = cmdRing.slots
  BY DEF CmdMem, RingType
<1>2. cmdRing' = cmdRing => CmdMem' = CmdMem
  BY DEF CmdMem, Cmd!Start
<1>3. /\ Cmd!ProducerReadPeer => CmdR!ProducerReadPeer
      /\ Cmd!ProducerStop => CmdR!ProducerStop
      /\ Cmd!ConsumerSync => CmdR!ConsumerSync
      /\ Cmd!ConsumerTake => CmdR!ConsumerTake
      /\ Cmd!ConsumerStop => CmdR!ConsumerStop
  BY <1>1, <1>2
     DEF Cmd!ProducerReadPeer, Cmd!ProducerStop, Cmd!ConsumerSync, Cmd!ConsumerTake,
         Cmd!ConsumerStop, Cmd!Empty, Cmd!Start,
         CmdR!ProducerReadPeer, CmdR!ProducerStop, CmdR!ConsumerSync, CmdR!ConsumerTake,
         CmdR!ConsumerStop, CmdR!Empty, CmdR!Start
<1>4. ASSUME Cmd!ConsumerPublish PROVE CmdR!ConsumerPublish
  <2>1. cmdRing' = [cmdRing EXCEPT !.read = CmdR!Advance(cmdCons.r)]
    BY <1>4 DEF Cmd!ConsumerPublish, Cmd!Advance, Cmd!Plus, CmdR!Advance, CmdR!Plus
  <2> HIDE DEF CmdR!Advance
  <2>2. CmdMem' = [CmdMem EXCEPT !.read = CmdR!Advance(cmdCons.r)]
    BY <2>1 DEF CmdMem, RingType, Cmd!Start
  <2>3. /\ cmdCons.pc = "taken" /\ UNCHANGED cmdProd
        /\ cmdCons' = [cmdCons EXCEPT !.pc = "ready", !.r = CmdR!Advance(@), !.msg = NoMessage]
    BY <1>4 DEF Cmd!ConsumerPublish, Cmd!Advance, Cmd!Plus, CmdR!Advance, CmdR!Plus
  <2> QED
    BY <2>2, <2>3 DEF CmdR!ConsumerPublish
<1>5. ASSUME client # "zeroCmdWrite"
      PROVE  /\ Cmd!ProducerSync => CmdR!ProducerSync
             /\ \A m : Cmd!ProducerFill(m) => CmdR!ProducerFill(m)
             /\ Cmd!ProducerPublish => CmdR!ProducerPublish
             /\ Cmd!ConsumerReadPeer => CmdR!ConsumerReadPeer
  <2>1. CmdMem = cmdRing /\ CmdMem' = cmdRing'
    BY <1>5 DEF CmdMem
  <2> QED
    BY <2>1
       DEF Cmd!ProducerSync, Cmd!ProducerFill, Cmd!ProducerPublish, Cmd!ConsumerReadPeer,
           Cmd!Full, Cmd!Advance, Cmd!Plus,
           CmdR!ProducerSync, CmdR!ProducerFill, CmdR!ProducerPublish, CmdR!ConsumerReadPeer,
           CmdR!Full, CmdR!Advance, CmdR!Plus
<1> QED
  BY <1>3, <1>4, <1>5

\* ... and so are those on the response ring.
LEMMA RspActions ==
    ASSUME client' = client, rspRing \in RingType
    PROVE  /\ Rsp!ProducerReadPeer => RspR!ProducerReadPeer
           /\ Rsp!ProducerStop => RspR!ProducerStop
           /\ Rsp!ConsumerSync => RspR!ConsumerSync
           /\ Rsp!ConsumerTake => RspR!ConsumerTake
           /\ Rsp!ConsumerPublish => RspR!ConsumerPublish
           /\ Rsp!ConsumerStop => RspR!ConsumerStop
           /\ client # "zeroRspWrite" =>
                /\ Rsp!ProducerSync => RspR!ProducerSync
                /\ \A m : Rsp!ProducerFill(m) => RspR!ProducerFill(m)
                /\ Rsp!ProducerPublish => RspR!ProducerPublish
                /\ Rsp!ConsumerReadPeer => RspR!ConsumerReadPeer
<1>1. RspMem.read = rspRing.read /\ RspMem.slots = rspRing.slots
  BY DEF RspMem, RingType
<1>2. rspRing' = rspRing => RspMem' = RspMem
  BY DEF RspMem, Rsp!Start
<1>3. /\ Rsp!ProducerReadPeer => RspR!ProducerReadPeer
      /\ Rsp!ProducerStop => RspR!ProducerStop
      /\ Rsp!ConsumerSync => RspR!ConsumerSync
      /\ Rsp!ConsumerTake => RspR!ConsumerTake
      /\ Rsp!ConsumerStop => RspR!ConsumerStop
  BY <1>1, <1>2
     DEF Rsp!ProducerReadPeer, Rsp!ProducerStop, Rsp!ConsumerSync, Rsp!ConsumerTake,
         Rsp!ConsumerStop, Rsp!Empty, Rsp!Start,
         RspR!ProducerReadPeer, RspR!ProducerStop, RspR!ConsumerSync, RspR!ConsumerTake,
         RspR!ConsumerStop, RspR!Empty, RspR!Start
<1>4. ASSUME Rsp!ConsumerPublish PROVE RspR!ConsumerPublish
  <2>1. rspRing' = [rspRing EXCEPT !.read = RspR!Advance(rspCons.r)]
    BY <1>4 DEF Rsp!ConsumerPublish, Rsp!Advance, Rsp!Plus, RspR!Advance, RspR!Plus
  <2> HIDE DEF RspR!Advance
  <2>2. RspMem' = [RspMem EXCEPT !.read = RspR!Advance(rspCons.r)]
    BY <2>1 DEF RspMem, RingType, Rsp!Start
  <2>3. /\ rspCons.pc = "taken" /\ UNCHANGED rspProd
        /\ rspCons' = [rspCons EXCEPT !.pc = "ready", !.r = RspR!Advance(@), !.msg = NoMessage]
    BY <1>4 DEF Rsp!ConsumerPublish, Rsp!Advance, Rsp!Plus, RspR!Advance, RspR!Plus
  <2> QED
    BY <2>2, <2>3 DEF RspR!ConsumerPublish
<1>5. ASSUME client # "zeroRspWrite"
      PROVE  /\ Rsp!ProducerSync => RspR!ProducerSync
             /\ \A m : Rsp!ProducerFill(m) => RspR!ProducerFill(m)
             /\ Rsp!ProducerPublish => RspR!ProducerPublish
             /\ Rsp!ConsumerReadPeer => RspR!ConsumerReadPeer
  <2>1. RspMem = rspRing /\ RspMem' = rspRing'
    BY <1>5 DEF RspMem
  <2> QED
    BY <2>1
       DEF Rsp!ProducerSync, Rsp!ProducerFill, Rsp!ProducerPublish, Rsp!ConsumerReadPeer,
           Rsp!Full, Rsp!Advance, Rsp!Plus,
           RspR!ProducerSync, RspR!ProducerFill, RspR!ProducerPublish, RspR!ConsumerReadPeer,
           RspR!Full, RspR!Advance, RspR!Plus
<1> QED
  BY <1>3, <1>4, <1>5

\* What a step leaves to be shown: one that does not clear a ring finds a
\* half cleared ring as it was, and does not begin to read it.
LEMMA RingsInvKept ==
    ASSUME RingsInv, UNCHANGED client, CmdR!SidesInv', RspR!SidesInv',
           command' # <<>> => CmdR!ProducerInv',
           remote' # <<>> \/ executing' # {} => RspR!ProducerInv',
           client = "zeroCmdWrite" => /\ cmdRing' = cmdRing
                                      /\ cmdCons'.pc = "reading" => cmdCons.pc = "reading",
           client = "zeroRspWrite" => /\ rspRing' = rspRing
                                      /\ rspCons'.pc = "reading" => rspCons.pc = "reading"
    PROVE  RingsInv'
<1>1. CmdR!RingInv' /\ RspR!RingInv'
  BY DEF CmdR!SidesInv, RspR!SidesInv
<1>2. cmdRing' \in RingType
  <2>1. CASE client = "zeroCmdWrite"
    BY <2>1 DEF RingsInv
  <2>2. CASE client # "zeroCmdWrite"
    BY <1>1, <2>2
       DEF CmdMem, RingType, Content, Cmd!Index, Cmd!Slot, CmdR!RingInv, CmdR!Index, CmdR!Slot
  <2> QED
    BY <2>1, <2>2
<1>3. rspRing' \in RingType
  <2>1. CASE client = "zeroRspWrite"
    BY <2>1 DEF RingsInv
  <2>2. CASE client # "zeroRspWrite"
    BY <1>1, <2>2
       DEF RspMem, RingType, Content, Cmd!Index, Cmd!Slot, RspR!RingInv, RspR!Index, RspR!Slot
  <2> QED
    BY <2>1, <2>2
<1> QED
  BY <1>2, <1>3 DEF RingsInv

-----------------------------------------------------------------------------
(* The steps on the rings: none of them changes what is on its way         *)

\* A step of the path that the service does not see.
Silent == UNCHANGED <<session, written, CommandsOnTheWay, executing, ResponsesOnTheWay,
                      outstanding>>

\* A step on one ring leaves the other alone.
LEMMA CmdKept ==
    ASSUME RingsInv, UNCHANGED <<cmdRing, cmdProd, cmdCons>>,
           client' = client \/ "zeroCmdWrite" \notin {client, client'}
    PROVE  /\ CmdR!SidesInv' /\ (CmdR!ProducerInv => CmdR!ProducerInv')
           /\ CmdR!Pending' = CmdR!Pending /\ CmdR!Unpublished' = CmdR!Unpublished
<1>1. CmdMem' = CmdMem
  BY DEF CmdMem, Cmd!Start
<1> QED
  BY <1>1, IpcAssumption, CmdR!SameSides DEF RingsInv, CmdR!vars

LEMMA RspKept ==
    ASSUME RingsInv, UNCHANGED <<rspRing, rspProd, rspCons>>,
           client' = client \/ "zeroRspWrite" \notin {client, client'}
    PROVE  /\ RspR!SidesInv' /\ (RspR!ProducerInv => RspR!ProducerInv')
           /\ RspR!Pending' = RspR!Pending /\ RspR!Unpublished' = RspR!Unpublished
<1>1. RspMem' = RspMem
  BY DEF RspMem, Rsp!Start
<1> QED
  BY <1>1, IpcAssumption, RspR!SameSides DEF RingsInv, RspR!vars

LEMMA SyncCommandsStep ==
    ASSUME IInv, WorkSyncCommands
    PROVE  RingsInv' /\ PhasesInv' /\ Silent
<1>0. client' = client /\ cmdRing \in RingType /\ rspRing \in RingType
  BY DEF WorkSyncCommands, IInv, RingsInv
<1>1. /\ CmdR!SidesInv' /\ cmdProd.pc = "idle" /\ cmdProd'.pc = "reading"
      /\ CmdR!Pending' = CmdR!Pending
      /\ CmdR!Unpublished = <<>> /\ CmdR!Unpublished' = <<>>
      /\ command' # <<>> => CmdR!ProducerInv'
  <2>1. CASE client # "zeroCmdWrite"
    BY <1>0, <2>1, IpcAssumption, CmdActions, CmdR!ProducerSyncSides
       DEF IInv, RingsInv, WorkSyncCommands
  <2>2. CASE client = "zeroCmdWrite"
    <3>1. command' = <<>>
      BY <2>2, NothingOnTheWay DEF Opened, WorkSyncCommands
    <3>2. cmdRing.write \in CmdR!Index
      BY <1>0 DEF RingType, Cmd!Index, Cmd!Slot, CmdR!Index, CmdR!Slot
    <3>3. /\ cmdProd.pc = "idle" /\ UNCHANGED <<CmdMem, cmdCons>>
          /\ cmdProd' = [cmdProd EXCEPT !.pc = "reading", !.w = cmdRing.write]
      BY <1>0 DEF WorkSyncCommands, Cmd!ProducerSync, CmdMem, Cmd!Start
    <3>4. /\ CmdR!SidesInv' /\ CmdR!Pending' = CmdR!Pending
          /\ CmdR!Unpublished = <<>> /\ CmdR!Unpublished' = <<>>
      BY <3>2, <3>3, IpcAssumption, CmdR!ProducerLateSides DEF IInv, RingsInv
    <3>5. cmdProd'.pc = "reading"
      BY <3>3, QueueFacts DEF CmdR!TypeOK
    <3> QED
      BY <3>1, <3>3, <3>4, <3>5
  <2> QED
    BY <2>1, <2>2
<1>2. /\ RspR!SidesInv' /\ (RspR!ProducerInv => RspR!ProducerInv')
      /\ RspR!Pending' = RspR!Pending /\ RspR!Unpublished' = RspR!Unpublished
  BY <1>0, RspKept DEF IInv, WorkSyncCommands
<1>3. RingsInv'
  BY <1>0, <1>1, <1>2, RingsInvKept
     DEF IInv, RingsInv, WorkSyncCommands, Cmd!ProducerSync, dspVars
<1>4. PhasesInv'
  BY <1>1 DEF IInv, PhasesInv, WorkSyncCommands, Cmd!ProducerSync, dspVars
<1>5. Silent
  BY <1>1, <1>2, OnTheWay DEF Silent, WorkSyncCommands, dspVars, appVars
<1> QED
  BY <1>3, <1>4, <1>5

\* The copying goes on with the other side's index.
LEMMA ReadCommandsPeerStep ==
    ASSUME IInv, WorkReadCommandsPeer
    PROVE  RingsInv' /\ PhasesInv' /\ Silent
<1>0. client' = client /\ cmdRing \in RingType
  BY DEF WorkReadCommandsPeer, driverVars, IInv, RingsInv
<1>1. /\ CmdR!SidesInv' /\ (CmdR!ProducerInv => CmdR!ProducerInv')
      /\ cmdProd.pc = "reading" /\ cmdProd'.pc = "ready"
      /\ CmdR!Pending' = CmdR!Pending
      /\ CmdR!Unpublished = <<>> /\ CmdR!Unpublished' = <<>>
  BY <1>0, IpcAssumption, CmdActions, CmdR!ProducerReadPeerSides DEF IInv, RingsInv, WorkReadCommandsPeer
<1>2. /\ RspR!SidesInv' /\ (RspR!ProducerInv => RspR!ProducerInv')
      /\ RspR!Pending' = RspR!Pending /\ RspR!Unpublished' = RspR!Unpublished
  BY <1>0, RspKept DEF IInv, WorkReadCommandsPeer
<1>3. RingsInv'
  BY <1>0, <1>1, <1>2, RingsInvKept
     DEF IInv, RingsInv, WorkReadCommandsPeer, Cmd!ProducerReadPeer, dspVars, driverVars
<1>4. PhasesInv'
  BY <1>1 DEF IInv, PhasesInv, WorkReadCommandsPeer, Cmd!ProducerReadPeer, dspVars, driverVars
<1>5. Silent
  BY <1>1, <1>2, OnTheWay DEF Silent, WorkReadCommandsPeer, dspVars, appVars, driverVars
<1> QED
  BY <1>3, <1>4, <1>5

LEMMA PutCommandStep ==
    ASSUME IInv, WorkPutCommand
    PROVE  RingsInv' /\ PhasesInv' /\ Silent
<1>0. client' = client /\ cmdRing \in RingType /\ rspRing \in RingType
  BY DEF WorkPutCommand, IInv, RingsInv
<1>1. Head(command) \in Content /\ command # <<>> /\ client # "zeroCmdWrite"
  BY QueueFacts, HeadAndTail, NothingOnTheWay DEF WorkPutCommand, Opened
<1>2. /\ CmdR!SidesInv' /\ CmdR!ProducerInv' /\ cmdProd.pc = "ready" /\ cmdProd'.pc = "filled"
      /\ CmdR!Pending' = CmdR!Pending
      /\ CmdR!Unpublished = <<>> /\ CmdR!Unpublished' = <<Head(command)>>
  BY <1>0, <1>1, IpcAssumption, CmdActions, CmdR!FillSides DEF IInv, RingsInv, WorkPutCommand, Content
<1>3. /\ RspR!SidesInv' /\ (RspR!ProducerInv => RspR!ProducerInv')
      /\ RspR!Pending' = RspR!Pending /\ RspR!Unpublished' = RspR!Unpublished
  BY <1>0, RspKept DEF IInv, WorkPutCommand
<1>4. RingsInv'
  BY <1>0, <1>1, <1>2, <1>3, RingsInvKept DEF IInv, RingsInv, WorkPutCommand, dspVars
<1>5. worker.pc = "commands" /\ worker'.pc = "commands"
  BY DEF IInv, TypesInv, WorkPutCommand
<1>6. PhasesInv'
  BY <1>2, <1>5 DEF IInv, PhasesInv, WorkPutCommand, Cmd!ProducerFill, dspVars
<1>7. CommandsOnTheWay' = CommandsOnTheWay
  <2>1. command' = Tail(command) /\ local' = local
    BY DEF WorkPutCommand, dspVars
  <2> QED
    BY <1>1, <1>2, <2>1, OnTheWay, QueueFacts, ChainFill
<1>8. Silent
  BY <1>3, <1>7, OnTheWay DEF Silent, WorkPutCommand, dspVars, appVars
<1> QED
  BY <1>4, <1>6, <1>8

LEMMA PublishCommandStep ==
    ASSUME IInv, WorkPublishCommand
    PROVE  RingsInv' /\ PhasesInv' /\ Silent
<1>0. client' = client /\ cmdRing \in RingType /\ rspRing \in RingType
  BY DEF WorkPublishCommand, driverVars, IInv, RingsInv
<1>a. client # "zeroCmdWrite"
  <2>1. cmdProd.pc = "filled"
    BY DEF WorkPublishCommand, Cmd!ProducerPublish
  <2>2. CmdR!Unpublished # <<>>
    BY <2>1 DEF CmdR!Unpublished
  <2> QED
    BY <2>2, NothingOnTheWay DEF Opened
<1>1. PICK m \in Content :
        /\ CmdR!SidesInv' /\ CmdR!ProducerInv' /\ cmdProd.pc = "filled" /\ cmdProd'.pc = "ready"
        /\ CmdR!Unpublished = <<m>> /\ CmdR!Unpublished' = <<>>
        /\ CmdR!Pending' = Append(CmdR!Pending, m)
  BY <1>0, <1>a, IpcAssumption, CmdActions, CmdR!PublishSides DEF IInv, RingsInv, WorkPublishCommand, Content
<1>2. /\ RspR!SidesInv' /\ (RspR!ProducerInv => RspR!ProducerInv')
      /\ RspR!Pending' = RspR!Pending /\ RspR!Unpublished' = RspR!Unpublished
  BY <1>0, RspKept DEF IInv, WorkPublishCommand
<1>3. RingsInv'
  BY <1>0, <1>a, <1>1, <1>2, RingsInvKept
     DEF IInv, RingsInv, WorkPublishCommand, dspVars, driverVars
<1>4. PhasesInv'
  BY <1>1 DEF IInv, PhasesInv, WorkPublishCommand, Cmd!ProducerPublish, dspVars, driverVars
<1>5. CommandsOnTheWay' = CommandsOnTheWay
  <2>1. command' = command /\ local' = local
    BY DEF WorkPublishCommand, dspVars, driverVars
  <2> QED
    BY <1>1, <2>1, OnTheWay, QueueFacts, ChainPublish
<1>6. Silent
  BY <1>2, <1>5, OnTheWay DEF Silent, WorkPublishCommand, dspVars, appVars, driverVars
<1> QED
  BY <1>3, <1>4, <1>6

\* Both rings in one step: the work item leaves the commands and copies the
\* indices of the responses.
LEMMA SyncResponsesStep ==
    ASSUME OrderlyUse, IInv, WorkSyncResponses
    PROVE  RingsInv' /\ PhasesInv' /\ Silent
<1>0. client' = client /\ cmdRing \in RingType /\ rspRing \in RingType
  BY DEF WorkSyncResponses, IInv, RingsInv
<1>1. /\ CmdR!SidesInv' /\ CmdR!ProducerInv' /\ cmdProd.pc = "ready" /\ cmdProd'.pc = "idle"
      /\ CmdR!Pending' = CmdR!Pending
      /\ CmdR!Unpublished = <<>> /\ CmdR!Unpublished' = <<>>
  BY <1>0, IpcAssumption, CmdActions, CmdR!ProducerStopSides DEF IInv, RingsInv, WorkSyncResponses
<1>2. /\ RspR!SidesInv' /\ (RspR!ProducerInv => RspR!ProducerInv')
      /\ rspCons.pc = "idle" /\ rspCons'.pc = "reading"
      /\ RspR!Pending' = RspR!Pending /\ RspR!Unpublished' = RspR!Unpublished
  BY <1>0, IpcAssumption, RspActions, RspR!ConsumerSyncSides DEF IInv, RingsInv, WorkSyncResponses
<1>3. RingsInv'
  BY <1>0, <1>1, <1>2, RingsInvKept
     DEF IInv, OrderlyUse, RingsInv, WorkSyncResponses, Cmd!ProducerStop, dspVars
<1>4. worker.pc = "commands" /\ worker'.pc = "responses"
  BY DEF IInv, TypesInv, WorkSyncResponses
<1>5. PhasesInv'
  BY <1>1, <1>2, <1>4
     DEF IInv, PhasesInv, WorkSyncResponses, Cmd!ProducerStop, Rsp!ConsumerSync, dspVars
<1>6. Silent
  BY <1>1, <1>2, OnTheWay DEF Silent, WorkSyncResponses, dspVars, appVars
<1> QED
  BY <1>3, <1>5, <1>6

LEMMA ReadResponsesPeerStep ==
    ASSUME IInv, WorkReadResponsesPeer
    PROVE  /\ RingsInv' /\ PhasesInv' /\ Silent
           /\ rspCons.pc = "reading" /\ rspCons'.pc = "ready"
<1>0. client' = client /\ rspRing \in RingType /\ client # "zeroRspWrite"
  BY DEF WorkReadResponsesPeer, Rsp!ConsumerReadPeer, driverVars, IInv, RingsInv
<1>1. /\ RspR!SidesInv' /\ (RspR!ProducerInv => RspR!ProducerInv')
      /\ rspCons.pc = "reading" /\ rspCons'.pc = "ready"
      /\ RspR!Pending' = RspR!Pending /\ RspR!Unpublished' = RspR!Unpublished
  BY <1>0, IpcAssumption, RspActions, RspR!ConsumerReadPeerSides DEF IInv, RingsInv, WorkReadResponsesPeer
<1>2. /\ CmdR!SidesInv' /\ (CmdR!ProducerInv => CmdR!ProducerInv')
      /\ CmdR!Pending' = CmdR!Pending /\ CmdR!Unpublished' = CmdR!Unpublished
  BY <1>0, CmdKept DEF IInv, WorkReadResponsesPeer
<1>3. RingsInv'
  BY <1>0, <1>1, <1>2, RingsInvKept DEF IInv, RingsInv, WorkReadResponsesPeer, dspVars, driverVars
<1>4. PhasesInv'
  BY <1>1 DEF IInv, PhasesInv, WorkReadResponsesPeer, Rsp!ConsumerReadPeer, dspVars, driverVars
<1>5. Silent
  BY <1>1, <1>2, OnTheWay DEF Silent, WorkReadResponsesPeer, dspVars, appVars, driverVars
<1> QED
  BY <1>1, <1>3, <1>4, <1>5

LEMMA TakeResponseStep ==
    ASSUME IInv, WorkTakeResponse
    PROVE  RingsInv' /\ PhasesInv' /\ Silent /\ rspCons.pc = "ready" /\ rspCons'.pc = "taken"
<1>0. client' = client /\ cmdRing \in RingType /\ rspRing \in RingType
  BY DEF WorkTakeResponse, IInv, RingsInv
<1>1. /\ CmdR!SidesInv' /\ (CmdR!ProducerInv => CmdR!ProducerInv')
      /\ CmdR!Pending' = CmdR!Pending /\ CmdR!Unpublished' = CmdR!Unpublished
  BY <1>0, CmdKept DEF IInv, WorkTakeResponse
<1>2. /\ RspR!SidesInv' /\ (RspR!ProducerInv => RspR!ProducerInv')
      /\ rspCons.pc = "ready" /\ rspCons'.pc = "taken"
      /\ RspR!Pending' = RspR!Pending /\ RspR!Unpublished' = RspR!Unpublished
  BY <1>0, IpcAssumption, RspActions, RspR!TakeSides DEF IInv, RingsInv, WorkTakeResponse
<1>3. RingsInv'
  BY <1>0, <1>1, <1>2, RingsInvKept
     DEF IInv, RingsInv, WorkTakeResponse, Rsp!ConsumerTake, dspVars
<1>4. worker.pc = "responses" /\ worker'.pc = "responses"
  BY DEF IInv, TypesInv, WorkTakeResponse
<1>5. PhasesInv'
  BY <1>2, <1>4 DEF IInv, PhasesInv, WorkTakeResponse, Rsp!ConsumerTake, dspVars
<1>6. Silent
  BY <1>1, <1>2, OnTheWay DEF Silent, WorkTakeResponse, dspVars, appVars
<1> QED
  BY <1>2, <1>3, <1>5, <1>6

\* A response reaches a client, and is one to a command of its session.
LEMMA GiveResponseStep ==
    ASSUME IInv, WorkGiveResponse
    PROVE  /\ RingsInv' /\ PhasesInv' /\ Silent
           /\ rspCons.pc = "taken" /\ rspCons'.pc = "ready"
           /\ client = "registered" /\ rspCons.msg \in Message
           /\ clientQ' = Append(clientQ, rspCons.msg) /\ free' = free
           /\ receiver' \in {receiver, Woken}
<1>0. client' = client /\ cmdRing \in RingType /\ rspRing \in RingType
  BY DEF WorkGiveResponse, IInv, RingsInv
<1>1. /\ CmdR!SidesInv' /\ (CmdR!ProducerInv => CmdR!ProducerInv')
      /\ CmdR!Pending' = CmdR!Pending /\ CmdR!Unpublished' = CmdR!Unpublished
  BY <1>0, CmdKept DEF IInv, WorkGiveResponse
<1>2. /\ RspR!SidesInv' /\ (RspR!ProducerInv => RspR!ProducerInv')
      /\ rspCons.pc = "taken" /\ rspCons'.pc = "ready"
      /\ RspR!Pending # <<>> /\ rspCons.msg = Head(RspR!Pending)
      /\ RspR!Pending' = Tail(RspR!Pending) /\ RspR!Unpublished' = RspR!Unpublished
  BY <1>0, IpcAssumption, RspActions, RspR!ReleaseSides DEF IInv, RingsInv, WorkGiveResponse
<1>3. ResponsesOnTheWay # <<>>
  BY <1>2, OnTheWay, QueueFacts, ChainType
<1>4. client = "registered"
  <2>1. outstanding # {}
    BY <1>3, Contents
  <2> QED
    BY <2>1 DEF IInv, AwaitInv, TypesInv, Opened
<1>5. rspCons.msg \in Message
  <2>1. ToSet(RspR!Pending) \subseteq ToSet(ResponsesOnTheWay)
    BY OnTheWay, QueueFacts, ChainElements
  <2>2. Head(RspR!Pending) \in ToSet(RspR!Pending)
    <3>1. RspR!Pending[1] = Head(RspR!Pending) /\ 1 \in DOMAIN RspR!Pending
      BY <1>2, QueueFacts, EmptySeq, LenProperties
    <3> QED
      BY <3>1 DEF ToSet
  <2> QED
    BY <1>2, <2>1, <2>2, Contents
<1>6. /\ clientQ' = Append(clientQ, rspCons.msg) /\ free' = free
      /\ receiver' \in {receiver, Woken}
  BY <1>4, <1>5, IpcAssumption DEF WorkGiveResponse, Attached
<1>7. RingsInv'
  BY <1>0, <1>1, <1>2, <1>4, RingsInvKept
     DEF IInv, RingsInv, WorkGiveResponse, dspVars
<1>8. PhasesInv'
  BY <1>2 DEF IInv, PhasesInv, WorkGiveResponse, Rsp!ConsumerPublish, dspVars
<1>9. ResponsesOnTheWay' = ResponsesOnTheWay
  <2>1. remote' = remote
    BY DEF WorkGiveResponse, dspVars
  <2> QED
    BY <1>2, <1>6, <2>1, OnTheWay, QueueFacts, ChainTake
<1>10. Silent
  BY <1>1, <1>9, OnTheWay DEF Silent, WorkGiveResponse, dspVars
<1> QED
  BY <1>2, <1>4, <1>5, <1>6, <1>7, <1>8, <1>10

LEMMA WorkEndStep ==
    ASSUME IInv, WorkEnd
    PROVE  RingsInv' /\ PhasesInv' /\ Silent /\ rspCons.pc = "ready" /\ rspCons'.pc = "idle"
<1>0. client' = client /\ cmdRing \in RingType /\ rspRing \in RingType
  BY DEF WorkEnd, IInv, RingsInv
<1>1. /\ CmdR!SidesInv' /\ (CmdR!ProducerInv => CmdR!ProducerInv')
      /\ CmdR!Pending' = CmdR!Pending /\ CmdR!Unpublished' = CmdR!Unpublished
  BY <1>0, CmdKept DEF IInv, WorkEnd
<1>2. /\ RspR!SidesInv' /\ (RspR!ProducerInv => RspR!ProducerInv')
      /\ rspCons.pc = "ready" /\ rspCons'.pc = "idle"
      /\ RspR!Pending' = RspR!Pending /\ RspR!Unpublished' = RspR!Unpublished
  BY <1>0, IpcAssumption, RspActions, RspR!ConsumerStopSides DEF IInv, RingsInv, WorkEnd
<1>3. RingsInv'
  BY <1>0, <1>1, <1>2, RingsInvKept
     DEF IInv, RingsInv, WorkEnd, Rsp!ConsumerStop
<1>4. worker.pc = "responses" /\ worker'.pc \in {"sync", "idle"}
  BY DEF IInv, TypesInv, WorkEnd
<1>5. PhasesInv'
  BY <1>2, <1>4 DEF IInv, PhasesInv, WorkEnd, Rsp!ConsumerStop
<1>6. Silent
  BY <1>1, <1>2, OnTheWay DEF Silent, WorkEnd, appVars
<1> QED
  BY <1>2, <1>3, <1>5, <1>6

\* The same steps of the DSP, the rings' other sides.
LEMMA SyncOutputStep ==
    ASSUME IInv, DspSyncOutput
    PROVE  RingsInv' /\ PhasesInv' /\ Silent
<1>0. client' = client /\ cmdRing \in RingType /\ rspRing \in RingType
  BY DEF DspSyncOutput, driverVars, IInv, RingsInv
<1>1. /\ RspR!SidesInv' /\ rspProd.pc = "idle" /\ rspProd'.pc = "reading"
      /\ RspR!Pending' = RspR!Pending
      /\ RspR!Unpublished = <<>> /\ RspR!Unpublished' = <<>>
      /\ remote' # <<>> \/ executing' # {} => RspR!ProducerInv'
  <2>1. CASE client # "zeroRspWrite"
    BY <1>0, <2>1, IpcAssumption, RspActions, RspR!ProducerSyncSides
       DEF IInv, RingsInv, DspSyncOutput
  <2>2. CASE client = "zeroRspWrite"
    <3>1. remote' = <<>> /\ executing' = {}
      BY <2>2, NothingOnTheWay DEF Opened, DspSyncOutput
    <3>2. rspRing.write \in RspR!Index
      BY <1>0 DEF RingType, Cmd!Index, Cmd!Slot, RspR!Index, RspR!Slot
    <3>3. /\ rspProd.pc = "idle" /\ UNCHANGED <<RspMem, rspCons>>
          /\ rspProd' = [rspProd EXCEPT !.pc = "reading", !.w = rspRing.write]
      BY <1>0 DEF DspSyncOutput, Rsp!ProducerSync, RspMem, Rsp!Start
    <3>4. /\ RspR!SidesInv' /\ RspR!Pending' = RspR!Pending
          /\ RspR!Unpublished = <<>> /\ RspR!Unpublished' = <<>>
      BY <3>2, <3>3, IpcAssumption, RspR!ProducerLateSides DEF IInv, RingsInv
    <3>5. rspProd'.pc = "reading"
      BY <3>3, QueueFacts DEF RspR!TypeOK
    <3> QED
      BY <3>1, <3>3, <3>4, <3>5
  <2> QED
    BY <2>1, <2>2
<1>2. /\ CmdR!SidesInv' /\ (CmdR!ProducerInv => CmdR!ProducerInv')
      /\ CmdR!Pending' = CmdR!Pending /\ CmdR!Unpublished' = CmdR!Unpublished
  BY <1>0, CmdKept DEF IInv, DspSyncOutput
<1>3. RingsInv'
  BY <1>0, <1>1, <1>2, RingsInvKept
     DEF IInv, RingsInv, DspSyncOutput, Rsp!ProducerSync, driverVars
<1>4. dsp.pc = "sync" /\ dsp'.pc = "output"
  BY DEF IInv, TypesInv, DspSyncOutput
<1>5. PhasesInv'
  BY <1>1, <1>4 DEF IInv, PhasesInv, DspSyncOutput, Rsp!ProducerSync, driverVars
<1>6. Silent
  BY <1>1, <1>2, OnTheWay DEF Silent, DspSyncOutput, driverVars, appVars
<1> QED
  BY <1>3, <1>5, <1>6

LEMMA ReadOutputPeerStep ==
    ASSUME IInv, DspReadOutputPeer
    PROVE  RingsInv' /\ PhasesInv' /\ Silent
<1>0. client' = client /\ rspRing \in RingType
  BY DEF DspReadOutputPeer, driverVars, IInv, RingsInv
<1>1. /\ RspR!SidesInv' /\ (RspR!ProducerInv => RspR!ProducerInv')
      /\ rspProd.pc = "reading" /\ rspProd'.pc = "ready"
      /\ RspR!Pending' = RspR!Pending
      /\ RspR!Unpublished = <<>> /\ RspR!Unpublished' = <<>>
  BY <1>0, IpcAssumption, RspActions, RspR!ProducerReadPeerSides DEF IInv, RingsInv, DspReadOutputPeer
<1>2. /\ CmdR!SidesInv' /\ (CmdR!ProducerInv => CmdR!ProducerInv')
      /\ CmdR!Pending' = CmdR!Pending /\ CmdR!Unpublished' = CmdR!Unpublished
  BY <1>0, CmdKept DEF IInv, DspReadOutputPeer
<1>3. RingsInv'
  BY <1>0, <1>1, <1>2, RingsInvKept
     DEF IInv, RingsInv, DspReadOutputPeer, Rsp!ProducerReadPeer, dspVars, driverVars
<1>4. PhasesInv'
  BY <1>1 DEF IInv, PhasesInv, DspReadOutputPeer, Rsp!ProducerReadPeer, dspVars, driverVars
<1>5. Silent
  BY <1>1, <1>2, OnTheWay DEF Silent, DspReadOutputPeer, dspVars, appVars, driverVars
<1> QED
  BY <1>3, <1>4, <1>5

LEMMA PutResponseStep ==
    ASSUME IInv, DspPutResponse
    PROVE  RingsInv' /\ PhasesInv' /\ Silent
<1>0. client' = client /\ cmdRing \in RingType /\ rspRing \in RingType
  BY DEF DspPutResponse, driverVars, IInv, RingsInv
<1>1. Head(remote) \in Content /\ remote # <<>> /\ client # "zeroRspWrite"
  BY QueueFacts, HeadAndTail, NothingOnTheWay DEF DspPutResponse, Opened
<1>2. /\ RspR!SidesInv' /\ RspR!ProducerInv' /\ rspProd.pc = "ready" /\ rspProd'.pc = "filled"
      /\ RspR!Pending' = RspR!Pending
      /\ RspR!Unpublished = <<>> /\ RspR!Unpublished' = <<Head(remote)>>
  BY <1>0, <1>1, IpcAssumption, RspActions, RspR!FillSides DEF IInv, RingsInv, DspPutResponse, Content
<1>3. /\ CmdR!SidesInv' /\ (CmdR!ProducerInv => CmdR!ProducerInv')
      /\ CmdR!Pending' = CmdR!Pending /\ CmdR!Unpublished' = CmdR!Unpublished
  BY <1>0, CmdKept DEF IInv, DspPutResponse
<1>4. RingsInv'
  BY <1>0, <1>1, <1>2, <1>3, RingsInvKept DEF IInv, RingsInv, DspPutResponse, driverVars
<1>5. dsp.pc = "output" /\ dsp'.pc = "output"
  BY DEF IInv, TypesInv, DspPutResponse
<1>6. PhasesInv'
  BY <1>2, <1>5 DEF IInv, PhasesInv, DspPutResponse, Rsp!ProducerFill, driverVars
<1>7. ResponsesOnTheWay' = ResponsesOnTheWay
  <2>1. remote' = Tail(remote) /\ clientQ' = clientQ
    BY DEF DspPutResponse, driverVars
  <2> QED
    BY <1>1, <1>2, <2>1, OnTheWay, QueueFacts, ChainFill
<1>8. Silent
  BY <1>3, <1>7, OnTheWay DEF Silent, DspPutResponse, driverVars, appVars
<1> QED
  BY <1>4, <1>6, <1>8

LEMMA PublishResponseStep ==
    ASSUME IInv, DspPublishResponse
    PROVE  RingsInv' /\ PhasesInv' /\ Silent
<1>0. client' = client /\ cmdRing \in RingType /\ rspRing \in RingType
  BY DEF DspPublishResponse, driverVars, IInv, RingsInv
<1>a. client # "zeroRspWrite"
  <2>1. rspProd.pc = "filled"
    BY DEF DspPublishResponse, Rsp!ProducerPublish
  <2>2. RspR!Unpublished # <<>>
    BY <2>1 DEF RspR!Unpublished
  <2> QED
    BY <2>2, NothingOnTheWay DEF Opened
<1>1. PICK m \in Content :
        /\ RspR!SidesInv' /\ RspR!ProducerInv' /\ rspProd.pc = "filled" /\ rspProd'.pc = "ready"
        /\ RspR!Unpublished = <<m>> /\ RspR!Unpublished' = <<>>
        /\ RspR!Pending' = Append(RspR!Pending, m)
  BY <1>0, <1>a, IpcAssumption, RspActions, RspR!PublishSides DEF IInv, RingsInv, DspPublishResponse, Content
<1>2. /\ CmdR!SidesInv' /\ (CmdR!ProducerInv => CmdR!ProducerInv')
      /\ CmdR!Pending' = CmdR!Pending /\ CmdR!Unpublished' = CmdR!Unpublished
  BY <1>0, CmdKept DEF IInv, DspPublishResponse
<1>3. RingsInv'
  BY <1>0, <1>a, <1>1, <1>2, RingsInvKept
     DEF IInv, RingsInv, DspPublishResponse, dspVars, driverVars
<1>4. PhasesInv'
  BY <1>1 DEF IInv, PhasesInv, DspPublishResponse, Rsp!ProducerPublish, dspVars, driverVars
<1>5. ResponsesOnTheWay' = ResponsesOnTheWay
  <2>1. remote' = remote /\ clientQ' = clientQ
    BY DEF DspPublishResponse, dspVars, driverVars
  <2> QED
    BY <1>1, <2>1, OnTheWay, QueueFacts, ChainPublish
<1>6. Silent
  BY <1>2, <1>5, OnTheWay DEF Silent, DspPublishResponse, dspVars, appVars, driverVars
<1> QED
  BY <1>3, <1>4, <1>6

LEMMA SyncInputStep ==
    ASSUME OrderlyUse, IInv, DspSyncInput
    PROVE  RingsInv' /\ PhasesInv' /\ Silent
<1>0. client' = client /\ cmdRing \in RingType /\ rspRing \in RingType
  BY DEF DspSyncInput, driverVars, IInv, RingsInv
<1>1. /\ RspR!SidesInv' /\ RspR!ProducerInv' /\ rspProd.pc = "ready" /\ rspProd'.pc = "idle"
      /\ RspR!Pending' = RspR!Pending
      /\ RspR!Unpublished = <<>> /\ RspR!Unpublished' = <<>>
  BY <1>0, IpcAssumption, RspActions, RspR!ProducerStopSides DEF IInv, RingsInv, DspSyncInput
<1>2. /\ CmdR!SidesInv' /\ (CmdR!ProducerInv => CmdR!ProducerInv')
      /\ cmdCons.pc = "idle" /\ cmdCons'.pc = "reading"
      /\ CmdR!Pending' = CmdR!Pending /\ CmdR!Unpublished' = CmdR!Unpublished
  BY <1>0, IpcAssumption, CmdActions, CmdR!ConsumerSyncSides DEF IInv, RingsInv, DspSyncInput
<1>3. RingsInv'
  BY <1>0, <1>1, <1>2, RingsInvKept
     DEF IInv, OrderlyUse, RingsInv, DspSyncInput, Rsp!ProducerStop, driverVars
<1>4. dsp.pc = "output" /\ dsp'.pc = "input"
  BY DEF IInv, TypesInv, DspSyncInput
<1>5. PhasesInv'
  BY <1>1, <1>2, <1>4
     DEF IInv, PhasesInv, DspSyncInput, Rsp!ProducerStop, Cmd!ConsumerSync, driverVars
<1>6. Silent
  BY <1>1, <1>2, OnTheWay DEF Silent, DspSyncInput, driverVars, appVars
<1> QED
  BY <1>3, <1>5, <1>6

LEMMA ReadInputPeerStep ==
    ASSUME IInv, DspReadInputPeer
    PROVE  /\ RingsInv' /\ PhasesInv' /\ Silent
           /\ cmdCons.pc = "reading" /\ cmdCons'.pc = "ready"
<1>0. client' = client /\ cmdRing \in RingType /\ client # "zeroCmdWrite"
  BY DEF DspReadInputPeer, Cmd!ConsumerReadPeer, driverVars, IInv, RingsInv
<1>1. /\ CmdR!SidesInv' /\ (CmdR!ProducerInv => CmdR!ProducerInv')
      /\ cmdCons.pc = "reading" /\ cmdCons'.pc = "ready"
      /\ CmdR!Pending' = CmdR!Pending /\ CmdR!Unpublished' = CmdR!Unpublished
  BY <1>0, IpcAssumption, CmdActions, CmdR!ConsumerReadPeerSides DEF IInv, RingsInv, DspReadInputPeer
<1>2. /\ RspR!SidesInv' /\ (RspR!ProducerInv => RspR!ProducerInv')
      /\ RspR!Pending' = RspR!Pending /\ RspR!Unpublished' = RspR!Unpublished
  BY <1>0, RspKept DEF IInv, DspReadInputPeer
<1>3. RingsInv'
  BY <1>0, <1>1, <1>2, RingsInvKept DEF IInv, RingsInv, DspReadInputPeer, dspVars, driverVars
<1>4. PhasesInv'
  BY <1>1 DEF IInv, PhasesInv, DspReadInputPeer, Cmd!ConsumerReadPeer, dspVars, driverVars
<1>5. Silent
  BY <1>1, <1>2, OnTheWay DEF Silent, DspReadInputPeer, dspVars, appVars, driverVars
<1> QED
  BY <1>1, <1>3, <1>4, <1>5

LEMMA TakeCommandStep ==
    ASSUME IInv, DspTakeCommand
    PROVE  RingsInv' /\ PhasesInv' /\ Silent /\ cmdCons.pc = "ready" /\ cmdCons'.pc = "taken"
<1>0. client' = client /\ cmdRing \in RingType /\ rspRing \in RingType
  BY DEF DspTakeCommand, driverVars, IInv, RingsInv
<1>1. /\ RspR!SidesInv' /\ (RspR!ProducerInv => RspR!ProducerInv')
      /\ RspR!Pending' = RspR!Pending /\ RspR!Unpublished' = RspR!Unpublished
  BY <1>0, RspKept DEF IInv, DspTakeCommand
<1>2. /\ CmdR!SidesInv' /\ (CmdR!ProducerInv => CmdR!ProducerInv')
      /\ cmdCons.pc = "ready" /\ cmdCons'.pc = "taken"
      /\ CmdR!Pending' = CmdR!Pending /\ CmdR!Unpublished' = CmdR!Unpublished
  BY <1>0, IpcAssumption, CmdActions, CmdR!TakeSides DEF IInv, RingsInv, DspTakeCommand
<1>3. RingsInv'
  BY <1>0, <1>1, <1>2, RingsInvKept
     DEF IInv, RingsInv, DspTakeCommand, Cmd!ConsumerTake, driverVars
<1>4. dsp.pc = "input" /\ dsp'.pc = "input"
  BY DEF IInv, TypesInv, DspTakeCommand
<1>5. PhasesInv'
  BY <1>2, <1>4 DEF IInv, PhasesInv, DspTakeCommand, Cmd!ConsumerTake, driverVars
<1>6. Silent
  BY <1>1, <1>2, OnTheWay DEF Silent, DspTakeCommand, driverVars, appVars
<1> QED
  BY <1>2, <1>3, <1>5, <1>6

LEMMA SubmitCommandStep ==
    ASSUME IInv, DspSubmitCommand
    PROVE  /\ RingsInv' /\ PhasesInv' /\ Silent
           /\ cmdCons.pc = "taken" /\ cmdCons'.pc = "ready" /\ cmdCons.msg \in Content
           /\ CmdR!Pending # <<>>
<1>0. client' = client /\ cmdRing \in RingType /\ rspRing \in RingType
  BY DEF DspSubmitCommand, driverVars, IInv, RingsInv
<1>1. /\ RspR!SidesInv' /\ (RspR!ProducerInv => RspR!ProducerInv')
      /\ RspR!Pending' = RspR!Pending /\ RspR!Unpublished' = RspR!Unpublished
  BY <1>0, RspKept DEF IInv, DspSubmitCommand
<1>2. /\ CmdR!SidesInv' /\ (CmdR!ProducerInv => CmdR!ProducerInv')
      /\ cmdCons.pc = "taken" /\ cmdCons'.pc = "ready"
      /\ CmdR!Pending # <<>> /\ cmdCons.msg = Head(CmdR!Pending)
      /\ CmdR!Pending' = Tail(CmdR!Pending) /\ CmdR!Unpublished' = CmdR!Unpublished
  BY <1>0, IpcAssumption, CmdActions, CmdR!ReleaseSides DEF IInv, RingsInv, DspSubmitCommand
<1>a. client # "zeroCmdWrite"
  BY <1>2, NothingOnTheWay DEF Opened
<1>3. RingsInv'
  BY <1>0, <1>a, <1>1, <1>2, RingsInvKept DEF IInv, RingsInv, DspSubmitCommand, driverVars
<1>4. PhasesInv'
  BY <1>2 DEF IInv, PhasesInv, DspSubmitCommand, Cmd!ConsumerPublish, driverVars
<1>5. CommandsOnTheWay' = CommandsOnTheWay
  <2>1. command' = command /\ local' = Append(local, cmdCons.msg)
    BY DEF DspSubmitCommand, driverVars
  <2> QED
    BY <1>2, <2>1, OnTheWay, QueueFacts, ChainTake
<1>6. Silent
  BY <1>1, <1>5, OnTheWay DEF Silent, DspSubmitCommand, driverVars, appVars
<1>7. cmdCons.msg \in Content
  BY <1>2, QueueFacts, HeadAndTail
<1> QED
  BY <1>2, <1>3, <1>4, <1>6, <1>7

LEMMA EndInputStep ==
    ASSUME IInv, DspEndInput
    PROVE  RingsInv' /\ PhasesInv' /\ Silent /\ cmdCons.pc = "ready" /\ cmdCons'.pc = "idle"
<1>0. client' = client /\ cmdRing \in RingType /\ rspRing \in RingType
  BY DEF DspEndInput, driverVars, IInv, RingsInv
<1>1. /\ RspR!SidesInv' /\ (RspR!ProducerInv => RspR!ProducerInv')
      /\ RspR!Pending' = RspR!Pending /\ RspR!Unpublished' = RspR!Unpublished
  BY <1>0, RspKept DEF IInv, DspEndInput
<1>2. /\ CmdR!SidesInv' /\ (CmdR!ProducerInv => CmdR!ProducerInv')
      /\ cmdCons.pc = "ready" /\ cmdCons'.pc = "idle"
      /\ CmdR!Pending' = CmdR!Pending /\ CmdR!Unpublished' = CmdR!Unpublished
  BY <1>0, IpcAssumption, CmdActions, CmdR!ConsumerStopSides DEF IInv, RingsInv, DspEndInput
<1>3. RingsInv'
  BY <1>0, <1>1, <1>2, RingsInvKept
     DEF IInv, RingsInv, DspEndInput, Cmd!ConsumerStop, driverVars
<1>4. dsp.pc = "input" /\ dsp'.pc \in {"sync", "dispatch"}
  BY DEF IInv, TypesInv, DspEndInput
<1>5. PhasesInv'
  BY <1>2, <1>4 DEF IInv, PhasesInv, DspEndInput, Cmd!ConsumerStop, driverVars
<1>6. Silent
  BY <1>1, <1>2, OnTheWay DEF Silent, DspEndInput, driverVars, appVars
<1> QED
  BY <1>2, <1>3, <1>5, <1>6

-----------------------------------------------------------------------------
(* The other steps: what each is to the service                            *)

\* A step that leaves the rings alone, gives a producer that works with old
\* copies nothing to send and moves no side into or out of its phase.
LEMMA RingsKept ==
    ASSUME RingsInv, PhasesInv, UNCHANGED ringVars,
           \/ client' = client
           \/ {client, client'} \cap {"zeroCmdWrite", "zeroRspWrite"} = {},
           worker'.pc = worker.pc \/ {worker.pc, worker'.pc} \cap {"commands", "responses"} = {},
           dsp'.pc = dsp.pc \/ {dsp.pc, dsp'.pc} \cap {"output", "input"} = {},
           command' # <<>> => command # <<>> \/ worker.pc # "commands",
           remote' # <<>> \/ executing' # {} =>
               remote # <<>> \/ executing # {} \/ dsp.pc # "output"
    PROVE  /\ RingsInv' /\ PhasesInv'
           /\ CmdR!Pending' = CmdR!Pending /\ CmdR!Unpublished' = CmdR!Unpublished
           /\ RspR!Pending' = RspR!Pending /\ RspR!Unpublished' = RspR!Unpublished
<1>1. /\ CmdR!SidesInv' /\ (CmdR!ProducerInv => CmdR!ProducerInv')
      /\ CmdR!Pending' = CmdR!Pending /\ CmdR!Unpublished' = CmdR!Unpublished
  BY CmdKept DEF ringVars
<1>2. /\ RspR!SidesInv' /\ (RspR!ProducerInv => RspR!ProducerInv')
      /\ RspR!Pending' = RspR!Pending /\ RspR!Unpublished' = RspR!Unpublished
  BY RspKept DEF ringVars
<1>3. worker.pc # "commands" => CmdR!ProducerInv
  BY IpcAssumption, CmdR!SidesFacts DEF RingsInv, PhasesInv
<1>4. dsp.pc # "output" => RspR!ProducerInv
  BY IpcAssumption, RspR!SidesFacts DEF RingsInv, PhasesInv
<1>5. RingsInv'
  BY <1>1, <1>2, <1>3, <1>4 DEF RingsInv, ringVars
<1>6. PhasesInv'
  BY DEF PhasesInv, ringVars
<1> QED
  BY <1>1, <1>2, <1>5, <1>6

\* A step that moves no message and begins no session.
LEMMA NothingMoves ==
    ASSUME RingsInv, PhasesInv,
           UNCHANGED <<ringVars, local, command, clientQ, remote, executing,
                       session, written, outstanding>>,
           \/ client' = client
           \/ {client, client'} \cap {"zeroCmdWrite", "zeroRspWrite"} = {},
           worker'.pc = worker.pc \/ {worker.pc, worker'.pc} \cap {"commands", "responses"} = {},
           dsp'.pc = dsp.pc \/ {dsp.pc, dsp'.pc} \cap {"output", "input"} = {}
    PROVE  RingsInv' /\ PhasesInv' /\ Silent
<1>1. /\ RingsInv' /\ PhasesInv'
      /\ CmdR!Pending' = CmdR!Pending /\ CmdR!Unpublished' = CmdR!Unpublished
      /\ RspR!Pending' = RspR!Pending /\ RspR!Unpublished' = RspR!Unpublished
  BY RingsKept
<1> QED
  BY <1>1, OnTheWay DEF Silent

\* Opening the device begins a session.
LEMMA OpenStep ==
    ASSUME IInv, Open
    PROVE  RingsInv' /\ PhasesInv' /\ Svc!Begin /\ outstanding = {} /\ outstanding' = {}
<1>1. outstanding = {}
  BY DEF IInv, AwaitInv, Open
<1>2. /\ CommandsOnTheWay = <<>> /\ executing = {} /\ ResponsesOnTheWay = <<>>
      /\ clientQ = <<>>
  BY <1>1, Contents, OnTheWay, QueueFacts, ChainType
<1>3. /\ RingsInv' /\ PhasesInv'
      /\ CmdR!Pending' = CmdR!Pending /\ CmdR!Unpublished' = CmdR!Unpublished
      /\ RspR!Pending' = RspR!Pending /\ RspR!Unpublished' = RspR!Unpublished
  BY RingsKept DEF IInv, Open, dspVars
<1>4. CommandsOnTheWay' = CommandsOnTheWay /\ ResponsesOnTheWay' = ResponsesOnTheWay
  BY <1>2, <1>3, OnTheWay DEF Open, dspVars
<1> QED
  BY <1>1, <1>2, <1>3, <1>4 DEF Svc!Begin, Open, dspVars

\* xf_client_register forgets no command.
LEMMA SetupStep ==
    ASSUME IInv, Setup
    PROVE  RingsInv' /\ PhasesInv' /\ Silent /\ command = <<>>
<1>1. command = <<>>
  BY NothingOnTheWay DEF Setup, Opened
<1> QED
  BY <1>1, NothingMoves DEF IInv, Setup, appVars, dspVars

\* Zeroing a ring's read index clears it as far as its sides can tell ...
LEMMA ZeroCmdReadStep ==
    ASSUME OrderlyUse, IInv, ZeroCmdRead
    PROVE  RingsInv' /\ PhasesInv' /\ Silent
<1>1. /\ CmdR!Pending = <<>> /\ CmdR!Unpublished = <<>> /\ command = <<>>
      /\ cmdProd.pc # "filled" /\ cmdCons.pc # "reading"
  BY NothingOnTheWay DEF ZeroCmdRead, Opened, OrderlyUse, MayClear, CmdR!Unpublished
<1>2. CmdMem' = [CmdMem EXCEPT !.read = CmdR!Start, !.write = CmdR!Start]
  BY DEF ZeroCmdRead, CmdMem, Cmd!Start, CmdR!Start
<1>3. CmdR!SidesInv' /\ CmdR!Pending' = <<>>
  BY <1>1, <1>2, IpcAssumption, CmdR!ResetSides DEF IInv, RingsInv, ZeroCmdRead
<1>4. CmdR!Unpublished' = <<>>
  BY <1>1 DEF CmdR!Unpublished, ZeroCmdRead
<1>5. /\ RspR!SidesInv' /\ (RspR!ProducerInv => RspR!ProducerInv')
      /\ RspR!Pending' = RspR!Pending /\ RspR!Unpublished' = RspR!Unpublished
  BY RspKept DEF IInv, ZeroCmdRead
<1>6. cmdRing' \in RingType
  <2>1. Cmd!Start \in Cmd!Index
    BY IpcAssumption DEF Cmd!Start, Cmd!Index, Cmd!Slot
  <2> QED
    BY <2>1 DEF RingType, IInv, RingsInv, ZeroCmdRead
<1>7. RingsInv'
  BY <1>1, <1>3, <1>5, <1>6 DEF IInv, RingsInv, ZeroCmdRead, dspVars
<1>8. PhasesInv'
  BY DEF IInv, PhasesInv, ZeroCmdRead, dspVars
<1>9. Silent
  BY <1>1, <1>3, <1>4, <1>5, OnTheWay DEF Silent, ZeroCmdRead, appVars, dspVars
<1> QED
  BY <1>7, <1>8, <1>9

\* ... and zeroing its write index finds it cleared.
LEMMA ZeroCmdWriteStep ==
    ASSUME IInv, ZeroCmdWrite
    PROVE  RingsInv' /\ PhasesInv' /\ Silent
<1>1. CmdMem' = CmdMem
  BY DEF ZeroCmdWrite, CmdMem, Cmd!Start
<1>2. /\ CmdR!SidesInv' /\ (CmdR!ProducerInv => CmdR!ProducerInv')
      /\ CmdR!Pending' = CmdR!Pending /\ CmdR!Unpublished' = CmdR!Unpublished
  BY <1>1, IpcAssumption, CmdR!SameSides DEF IInv, RingsInv, ZeroCmdWrite, CmdR!vars
<1>3. /\ RspR!SidesInv' /\ (RspR!ProducerInv => RspR!ProducerInv')
      /\ RspR!Pending' = RspR!Pending /\ RspR!Unpublished' = RspR!Unpublished
  BY RspKept DEF IInv, ZeroCmdWrite
<1>4. cmdRing' \in RingType
  <2>1. Cmd!Start \in Cmd!Index
    BY IpcAssumption DEF Cmd!Start, Cmd!Index, Cmd!Slot
  <2> QED
    BY <2>1 DEF RingType, IInv, RingsInv, ZeroCmdWrite
<1>5. RingsInv'
  BY <1>2, <1>3, <1>4 DEF IInv, RingsInv, ZeroCmdWrite, dspVars
<1>6. PhasesInv'
  BY DEF IInv, PhasesInv, ZeroCmdWrite, dspVars
<1>7. Silent
  BY <1>2, <1>3, OnTheWay DEF Silent, ZeroCmdWrite, appVars, dspVars
<1> QED
  BY <1>5, <1>6, <1>7

\* The same of the response ring.
LEMMA ZeroRspReadStep ==
    ASSUME OrderlyUse, IInv, ZeroRspRead
    PROVE  RingsInv' /\ PhasesInv' /\ Silent
<1>1. /\ RspR!Pending = <<>> /\ RspR!Unpublished = <<>> /\ remote = <<>> /\ executing = {}
      /\ rspProd.pc # "filled" /\ rspCons.pc # "reading"
  BY NothingOnTheWay DEF ZeroRspRead, Opened, OrderlyUse, MayClear, RspR!Unpublished
<1>2. RspMem' = [RspMem EXCEPT !.read = RspR!Start, !.write = RspR!Start]
  BY DEF ZeroRspRead, RspMem, Rsp!Start, RspR!Start
<1>3. RspR!SidesInv' /\ RspR!Pending' = <<>>
  BY <1>1, <1>2, IpcAssumption, RspR!ResetSides DEF IInv, RingsInv, ZeroRspRead
<1>4. RspR!Unpublished' = <<>>
  BY <1>1 DEF RspR!Unpublished, ZeroRspRead
<1>5. /\ CmdR!SidesInv' /\ (CmdR!ProducerInv => CmdR!ProducerInv')
      /\ CmdR!Pending' = CmdR!Pending /\ CmdR!Unpublished' = CmdR!Unpublished
  BY CmdKept DEF IInv, ZeroRspRead
<1>6. rspRing' \in RingType
  <2>1. Rsp!Start \in Cmd!Index
    BY IpcAssumption DEF Rsp!Start, Cmd!Index, Cmd!Slot
  <2> QED
    BY <2>1 DEF RingType, IInv, RingsInv, ZeroRspRead
<1>7. RingsInv'
  BY <1>1, <1>3, <1>5, <1>6 DEF IInv, RingsInv, ZeroRspRead, dspVars
<1>8. PhasesInv'
  BY DEF IInv, PhasesInv, ZeroRspRead, dspVars
<1>9. Silent
  BY <1>1, <1>3, <1>4, <1>5, OnTheWay DEF Silent, ZeroRspRead, appVars, dspVars
<1> QED
  BY <1>7, <1>8, <1>9

LEMMA ZeroRspWriteStep ==
    ASSUME IInv, ZeroRspWrite
    PROVE  RingsInv' /\ PhasesInv' /\ Silent
<1>1. RspMem' = RspMem
  BY DEF ZeroRspWrite, RspMem, Rsp!Start
<1>2. /\ RspR!SidesInv' /\ (RspR!ProducerInv => RspR!ProducerInv')
      /\ RspR!Pending' = RspR!Pending /\ RspR!Unpublished' = RspR!Unpublished
  BY <1>1, IpcAssumption, RspR!SameSides DEF IInv, RingsInv, ZeroRspWrite, RspR!vars
<1>3. /\ CmdR!SidesInv' /\ (CmdR!ProducerInv => CmdR!ProducerInv')
      /\ CmdR!Pending' = CmdR!Pending /\ CmdR!Unpublished' = CmdR!Unpublished
  BY CmdKept DEF IInv, ZeroRspWrite
<1>4. rspRing' \in RingType
  <2>1. Rsp!Start \in Cmd!Index
    BY IpcAssumption DEF Rsp!Start, Cmd!Index, Cmd!Slot
  <2> QED
    BY <2>1 DEF RingType, IInv, RingsInv, ZeroRspWrite
<1>5. RingsInv'
  BY <1>2, <1>3, <1>4 DEF IInv, RingsInv, ZeroRspWrite, dspVars
<1>6. PhasesInv'
  BY DEF IInv, PhasesInv, ZeroRspWrite, dspVars
<1>7. Silent
  BY <1>2, <1>3, OnTheWay DEF Silent, ZeroRspWrite, dspVars
<1> QED
  BY <1>5, <1>6, <1>7
\* Writing a command submits it.
LEMMA WriteStep ==
    ASSUME IInv, Write
    PROVE  /\ RingsInv' /\ PhasesInv' /\ Svc!Submit
           /\ outstanding' = outstanding \cup {<<session, written + 1>>}
           /\ <<session, written + 1>> \in Message
           /\ CmdR!Pending' = CmdR!Pending /\ CmdR!Unpublished' = CmdR!Unpublished
           /\ RspR!Pending' = RspR!Pending /\ RspR!Unpublished' = RspR!Unpublished
<1> DEFINE m == <<session, written + 1>>
<1>1. session > 0 /\ session \in 1 .. MaxSessions /\ written + 1 \in 1 .. MaxCommands
  BY IpcAssumption DEF IInv, HandshakeInv, TypesInv, Write
<1>2. m \in Message /\ m \in Content
  BY <1>1 DEF Message, Content
<1>3. /\ RingsInv' /\ PhasesInv'
      /\ CmdR!Pending' = CmdR!Pending /\ CmdR!Unpublished' = CmdR!Unpublished
      /\ RspR!Pending' = RspR!Pending /\ RspR!Unpublished' = RspR!Unpublished
  BY RingsKept DEF IInv, Write, Unlocked, dspVars
<1>4. CommandsOnTheWay' = Append(CommandsOnTheWay, m)
  <2>1. command' = Append(command, m) /\ local' = local
    BY DEF Write, dspVars
  <2> QED
    <3>1. Chain(local, CmdR!Pending, CmdR!Unpublished, Append(command, m))
            = Append(Chain(local, CmdR!Pending, CmdR!Unpublished, command), m)
      <4>1. /\ local \in Seq(Content) /\ CmdR!Pending \in Seq(Content)
            /\ CmdR!Unpublished \in Seq(Content) /\ command \in Seq(Content)
        BY QueueFacts
      <4> HIDE DEF m
      <4> QED
        BY <1>2, <4>1, ChainPut, SMTT(60)
    <3> QED
      BY <1>3, <2>1, <3>1, OnTheWay
<1>5. ResponsesOnTheWay' = ResponsesOnTheWay
  BY <1>3, OnTheWay DEF Write, dspVars
<1> QED
  BY <1>1, <1>2, <1>3, <1>4, <1>5 DEF Svc!Submit, Write, dspVars

\* Reading a response delivers the oldest.
LEMMA ReadStep ==
    ASSUME IInv, Read
    PROVE  /\ RingsInv' /\ PhasesInv'
           /\ CmdR!Pending' = CmdR!Pending /\ CmdR!Unpublished' = CmdR!Unpublished
           /\ RspR!Pending' = RspR!Pending /\ RspR!Unpublished' = RspR!Unpublished
           /\ clientQ = <<>> => Silent
           /\ clientQ # <<>> => /\ Svc!Deliver
                               /\ outstanding' = outstanding \ {Head(ResponsesOnTheWay)}
<1>1. /\ RingsInv' /\ PhasesInv'
      /\ CmdR!Pending' = CmdR!Pending /\ CmdR!Unpublished' = CmdR!Unpublished
      /\ RspR!Pending' = RspR!Pending /\ RspR!Unpublished' = RspR!Unpublished
  BY RingsKept DEF IInv, Read, dspVars
<1>2. CommandsOnTheWay' = CommandsOnTheWay
  BY <1>1, OnTheWay DEF Read, dspVars
<1>3. ASSUME clientQ = <<>> PROVE Silent
  BY <1>1, <1>2, <1>3, OnTheWay DEF Silent, Read, dspVars
<1>4. ASSUME clientQ # <<>>
      PROVE  /\ Svc!Deliver /\ outstanding' = outstanding \ {Head(ResponsesOnTheWay)}
  <2>1. /\ ResponsesOnTheWay # <<>> /\ Head(ResponsesOnTheWay) = Head(clientQ)
        /\ Tail(ResponsesOnTheWay)
             = Chain(Tail(clientQ), RspR!Pending, RspR!Unpublished, remote)
    <3>1. LET c == Chain(clientQ, RspR!Pending, RspR!Unpublished, remote)
          IN  /\ c # <<>> /\ Head(c) = Head(clientQ)
              /\ Tail(c) = Chain(Tail(clientQ), RspR!Pending, RspR!Unpublished, remote)
      <4>1. /\ clientQ \in Seq(Content) /\ RspR!Pending \in Seq(Content)
            /\ RspR!Unpublished \in Seq(Content) /\ remote \in Seq(Content)
        BY QueueFacts
      <4> QED
        BY <1>4, <4>1, ChainGet, SMTT(60)
    <3> QED
      BY <3>1, OnTheWay
  <2>2. ResponsesOnTheWay' = Tail(ResponsesOnTheWay)
    BY <1>1, <1>4, <2>1, OnTheWay DEF Read, dspVars
  <2> QED
    BY <1>2, <1>4, <2>1, <2>2 DEF Svc!Deliver, Read, dspVars
<1> QED
  BY <1>1, <1>3, <1>4

\* Dispatching starts the oldest command.
LEMMA DispatchStep ==
    ASSUME IInv, DspDispatch
    PROVE  RingsInv' /\ PhasesInv' /\ Svc!Start /\ outstanding' = outstanding
<1>1. dsp.pc = "dispatch" /\ dsp'.pc = "dispatch" /\ local # <<>>
  BY DEF IInv, TypesInv, DspDispatch
<1>2. /\ RingsInv' /\ PhasesInv'
      /\ CmdR!Pending' = CmdR!Pending /\ CmdR!Unpublished' = CmdR!Unpublished
      /\ RspR!Pending' = RspR!Pending /\ RspR!Unpublished' = RspR!Unpublished
  BY <1>1, RingsKept DEF IInv, DspDispatch, driverVars
<1>3. /\ CommandsOnTheWay # <<>> /\ Head(CommandsOnTheWay) = Head(local)
      /\ Tail(CommandsOnTheWay)
           = Chain(Tail(local), CmdR!Pending, CmdR!Unpublished, command)
  <2>1. LET c == Chain(local, CmdR!Pending, CmdR!Unpublished, command)
        IN  /\ c # <<>> /\ Head(c) = Head(local)
            /\ Tail(c) = Chain(Tail(local), CmdR!Pending, CmdR!Unpublished, command)
    <3>1. /\ local \in Seq(Content) /\ CmdR!Pending \in Seq(Content)
          /\ CmdR!Unpublished \in Seq(Content) /\ command \in Seq(Content)
      BY QueueFacts
    <3> QED
      BY <1>1, <3>1, ChainGet, SMTT(60)
  <2> QED
    BY <2>1, OnTheWay
<1>4. CommandsOnTheWay' = Tail(CommandsOnTheWay)
  BY <1>2, <1>3, OnTheWay DEF DspDispatch, driverVars
<1>5. ResponsesOnTheWay' = ResponsesOnTheWay
  BY <1>2, OnTheWay DEF DspDispatch, driverVars
<1> QED
  BY <1>2, <1>3, <1>4, <1>5 DEF Svc!Start, DspDispatch, appVars

\* A component's completion completes a command in execution.
LEMMA CompletionStep ==
    ASSUME IInv, DspComplete
    PROVE  RingsInv' /\ PhasesInv' /\ Svc!Complete /\ outstanding' = outstanding
<1>1. PICK m \in executing : executing' = executing \ {m} /\ remote' = Append(remote, m)
  BY DEF DspComplete
<1>2. m \in Content
  BY Contents DEF Content
<1>3. /\ RingsInv' /\ PhasesInv'
      /\ CmdR!Pending' = CmdR!Pending /\ CmdR!Unpublished' = CmdR!Unpublished
      /\ RspR!Pending' = RspR!Pending /\ RspR!Unpublished' = RspR!Unpublished
  BY <1>1, RingsKept DEF IInv, DspComplete, driverVars
<1>4. ResponsesOnTheWay' = Append(ResponsesOnTheWay, m)
  <2>1. clientQ' = clientQ
    BY DEF DspComplete, driverVars
  <2> QED
    <3>1. Chain(clientQ, RspR!Pending, RspR!Unpublished, Append(remote, m))
            = Append(Chain(clientQ, RspR!Pending, RspR!Unpublished, remote), m)
      <4>1. /\ clientQ \in Seq(Content) /\ RspR!Pending \in Seq(Content)
            /\ RspR!Unpublished \in Seq(Content) /\ remote \in Seq(Content)
        BY QueueFacts
      <4> QED
        BY <1>2, <4>1, ChainPut, SMTT(60)
    <3> QED
      BY <1>1, <1>3, <2>1, <3>1, OnTheWay
<1>5. CommandsOnTheWay' = CommandsOnTheWay
  BY <1>3, OnTheWay DEF DspComplete, driverVars
<1>6. UNCHANGED <<session, written, outstanding>>
  BY DEF DspComplete, appVars
<1>7. Svc!Complete
  BY <1>1, <1>4, <1>5, <1>6 DEF Svc!Complete
<1> QED
  BY <1>3, <1>6, <1>7

\* The steps of the handshake, of the polling thread and of the receiving
\* thread's select, and the device's closing.
LEMMA QuietSteps ==
    ASSUME IInv,
           \/ Poll \/ Close \/ KthreadHello \/ KthreadSync \/ KthreadPoll
           \/ WorkStart \/ DspAck \/ DspClear \/ DspWake \/ DspEndService
    PROVE  RingsInv' /\ PhasesInv' /\ Silent
<1> USE DEF IInv
<1>1. CASE Poll
  BY <1>1, NothingMoves DEF Poll, dspVars
<1>2. CASE Close
  BY <1>2, NothingMoves DEF Close, dspVars
<1>3. CASE KthreadHello
  BY <1>3, NothingMoves DEF KthreadHello, appVars
<1>4. CASE KthreadSync
  BY <1>4, NothingMoves DEF KthreadSync, appVars, dspVars
<1>5. CASE KthreadPoll
  BY <1>5, NothingMoves DEF KthreadPoll, driverVars, dspVars
<1>6. CASE WorkStart
  <2>1. /\ UNCHANGED <<ringVars, local, command, clientQ, remote, executing,
                      session, written, outstanding, client, dsp>>
        /\ worker.pc = "idle" /\ worker'.pc \in {"idle", "locking"}
    BY <1>6 DEF WorkStart, appVars, dspVars, TypesInv, WorkerType, DspType
  <2> QED
    BY <2>1, NothingMoves
<1>7. CASE DspAck
  <2>1. /\ UNCHANGED <<ringVars, local, command, clientQ, remote, executing,
                      session, written, outstanding, client, worker>>
        /\ dsp.pc = "ack" /\ dsp'.pc = "clear"
    BY <1>7 DEF DspAck, appVars, driverVars, TypesInv, WorkerType, DspType
  <2> QED
    BY <2>1, NothingMoves
<1>8. CASE DspClear
  <2>1. /\ UNCHANGED <<ringVars, local, command, clientQ, remote, executing,
                      session, written, outstanding, client, worker>>
        /\ dsp.pc = "clear" /\ dsp'.pc = "wait"
    BY <1>8 DEF DspClear, appVars, driverVars, TypesInv, WorkerType, DspType
  <2> QED
    BY <2>1, NothingMoves
<1>9. CASE DspWake
  <2>1. /\ UNCHANGED <<ringVars, local, command, clientQ, remote, executing,
                      session, written, outstanding, client, worker>>
        /\ dsp.pc = "wait" /\ dsp'.pc \in {"sync", "ack", "boot"}
    BY <1>9 DEF DspWake, appVars, driverVars, TypesInv, WorkerType, DspType
  <2> QED
    BY <2>1, NothingMoves
<1>10. CASE DspEndService
  <2>1. /\ UNCHANGED <<ringVars, local, command, clientQ, remote, executing,
                      session, written, outstanding, client, worker>>
        /\ dsp.pc = "dispatch" /\ dsp'.pc \in {"sync", "wait"}
    BY <1>10 DEF DspEndService, appVars, driverVars, TypesInv, WorkerType, DspType
  <2> QED
    BY <2>1, NothingMoves
<1> QED
  BY <1>1, <1>2, <1>3, <1>4, <1>5, <1>6, <1>7, <1>8, <1>9, <1>10

\* The end of xf_release finds no response to give back.
LEMMA ReleaseStep ==
    ASSUME IInv, Release
    PROVE  RingsInv' /\ PhasesInv' /\ Silent /\ clientQ = <<>>
<1>1. outstanding = {}
  BY DEF IInv, AwaitInv, Release
<1>2. clientQ = <<>>
  BY <1>1, Contents, OnTheWay, QueueFacts, ChainType
<1>3. RingsInv' /\ PhasesInv' /\ Silent
  BY <1>2, NothingMoves DEF IInv, Release, appVars, dspVars
<1> QED
  BY <1>2, <1>3

\* A DSP that starts over has nothing to forget.
LEMMA BootStep ==
    ASSUME IInv, DspBoot
    PROVE  RingsInv' /\ PhasesInv' /\ Silent /\ local = <<>> /\ executing = {} /\ remote = <<>>
<1>1. local = <<>> /\ executing = {} /\ ResponsesOnTheWay = <<>>
  BY DEF IInv, AwaitInv, DspBoot
<1>2. remote = <<>>
  BY <1>1, OnTheWay, QueueFacts, ChainType
<1>3. /\ UNCHANGED <<ringVars, local, command, clientQ, remote, executing,
                    session, written, outstanding, client, worker>>
      /\ dsp.pc = "boot" /\ dsp'.pc \in {"ack", "wait"}
  BY <1>1, <1>2 DEF IInv, DspBoot, appVars, driverVars, TypesInv, WorkerType, DspType
<1> QED
  BY <1>1, <1>2, <1>3, NothingMoves DEF IInv

-----------------------------------------------------------------------------
(* Every step is one of the service                                        *)

\* What a step is to the service, and to what is outstanding.
ServiceStep ==
    \/ Silent
    \/ Svc!Begin    /\ outstanding = {} /\ outstanding' = {}
    \/ Svc!Submit   /\ outstanding' = outstanding \cup {<<session, written + 1>>}
    \/ Svc!Start    /\ outstanding' = outstanding
    \/ Svc!Complete /\ outstanding' = outstanding
    \/ Svc!Deliver  /\ outstanding' = outstanding \ {Head(ResponsesOnTheWay)}

LEMMA EveryStep ==
    ASSUME OrderlyUse, IInv, [Next]_vars
    PROVE  RingsInv' /\ PhasesInv' /\ ServiceStep
<1>1. CASE App
  BY <1>1, OpenStep, SetupStep, ZeroCmdReadStep, ZeroCmdWriteStep, ZeroRspReadStep,
     ZeroRspWriteStep, WriteStep, QuietSteps, ReleaseStep DEF App, Clear, ServiceStep
<1>2. CASE Poll \/ Read
  BY <1>2, QuietSteps, ReadStep DEF ServiceStep
<1>3. CASE KthreadHello \/ KthreadSync \/ KthreadPoll
  BY <1>3, QuietSteps DEF ServiceStep
<1>4. CASE Work
  BY <1>4, QuietSteps, SyncCommandsStep, ReadCommandsPeerStep, PutCommandStep,
     PublishCommandStep, SyncResponsesStep, ReadResponsesPeerStep, TakeResponseStep,
     GiveResponseStep, WorkEndStep DEF Work, ServiceStep
<1>5. CASE Dsp
  BY <1>5, QuietSteps, BootStep, SyncOutputStep, ReadOutputPeerStep, PutResponseStep,
     PublishResponseStep, SyncInputStep, ReadInputPeerStep, TakeCommandStep, SubmitCommandStep,
     EndInputStep, DispatchStep
     DEF Dsp, ServiceStep
<1>6. CASE DspComplete
  BY <1>6, CompletionStep DEF ServiceStep
<1>7. CASE UNCHANGED vars
  BY <1>7, NothingMoves DEF IInv, vars, driverVars, dspVars, appVars, ServiceStep
<1> QED
  BY <1>1, <1>2, <1>3, <1>4, <1>5, <1>6, <1>7 DEF Next

\* The service's own invariant carries over, and so does the account of what
\* is outstanding.
LEMMA MessagesStep ==
    ASSUME IInv, ServiceStep
    PROVE  MessagesInv'
<1>1. Svc!SInv /\ outstanding = Svc!Outstanding
  BY DEF IInv, MessagesInv
<1>2. CASE Silent
  <2>1. UNCHANGED Svc!vars /\ outstanding' = outstanding
    BY <1>2 DEF Silent, Svc!vars
  <2>2. Svc!SInv' /\ Svc!Outstanding' = Svc!Outstanding
    BY <1>1, <2>1 DEF Svc!vars, Svc!SInv, Svc!InOrder, Svc!StartedOnce, Svc!Counted, Svc!Started,
                      Svc!Outstanding
  <2> QED
    BY <1>1, <2>1, <2>2 DEF MessagesInv
<1>3. CASE Svc!Begin /\ outstanding' = {}
  BY <1>1, <1>3, Svc!BeginStep DEF MessagesInv
<1>4. CASE Svc!Submit /\ outstanding' = outstanding \cup {<<session, written + 1>>}
  BY <1>1, <1>4, Svc!SubmitStep DEF MessagesInv
<1>5. CASE Svc!Start /\ outstanding' = outstanding
  BY <1>1, <1>5, Svc!StartStep DEF MessagesInv
<1>6. CASE Svc!Complete /\ outstanding' = outstanding
  BY <1>1, <1>6, Svc!CompleteStep DEF MessagesInv
<1>7. CASE Svc!Deliver /\ outstanding' = outstanding \ {Head(ResponsesOnTheWay)}
  BY <1>1, <1>7, Svc!DeliverStep DEF MessagesInv
<1> QED
  BY <1>2, <1>3, <1>4, <1>5, <1>6, <1>7 DEF ServiceStep

-----------------------------------------------------------------------------
(* The handshake                                                           *)

\* Until the handshake is complete every queue but the driver's is empty.
LEMMA NotSent ==
    ASSUME IInv, ~syncFrom
    PROVE  local = <<>> /\ executing = {} /\ clientQ = <<>> /\ remote = <<>>
<1> DEFINE a == local \o CmdR!Pending
           b == a \o CmdR!Unpublished
<1>1. b \o command = command /\ executing = {} /\ ResponsesOnTheWay = <<>>
  BY OnTheWay DEF IInv, AwaitInv, NothingSent, Chain
<1>2. clientQ = <<>> /\ remote = <<>>
  BY <1>1, OnTheWay, QueueFacts, ChainType
<1>3. a \in Seq(Content) /\ Len(a) = Len(local) + Len(CmdR!Pending)
  BY QueueFacts, ConcatProperties
<1> HIDE DEF a
<1>4. b \in Seq(Content) /\ Len(b) = Len(a) + Len(CmdR!Unpublished)
  BY <1>3, QueueFacts, ConcatProperties
<1> HIDE DEF b
<1>5. Len(b \o command) = Len(b) + Len(command)
  BY <1>4, QueueFacts, ConcatProperties
<1>6. /\ Len(local) \in Nat /\ Len(CmdR!Pending) \in Nat /\ Len(CmdR!Unpublished) \in Nat
      /\ Len(command) \in Nat
  BY QueueFacts, LenProperties
<1>7. Len(local) = 0
  <2>1. Len(b) + Len(command) = Len(command)
    BY <1>1, <1>5
  <2> QED
    BY <2>1, <1>3, <1>4, <1>6
<1>8. local = <<>>
  BY <1>7, QueueFacts, EmptySeq
<1> QED
  BY <1>1, <1>2, <1>8

\* Most steps are no part of the handshake.
LEMMA HandshakeKept ==
    ASSUME IInv, Silent,
           UNCHANGED <<client, kthread, syncFrom, hostPattern, dspPattern>>,
           command' = command \/ syncFrom,
           \/ dsp'.pc = dsp.pc /\ dsp'.seen = dsp.seen /\ local' = local
           \/ {dsp.pc, dsp'.pc} \cap {"boot", "ack", "clear"} = {},
           worker'.pc = "locking" => worker.pc = "locking" \/ syncFrom,
           worker'.pc \in {"sync", "commands", "responses"} =>
               worker.pc \in {"sync", "commands", "responses"} \/ syncFrom \/ command = <<>>
    PROVE  HandshakeInv' /\ AwaitInv'
<1>1. HandshakeInv'
  BY DEF IInv, HandshakeInv, Cold, Asked, Acked, Synced, Silent
<1>2. AwaitInv'
  BY DEF IInv, AwaitInv, NothingSent, Silent
<1> QED
  BY <1>1, <1>2

\* The work item passes its check of the handshake only when it is complete,
\* and waits for the lock with the check behind it only while the device is
\* being closed, when nothing is left to send.
LEMMA WorkHandshake ==
    ASSUME OrderlyUse, IInv, Work
    PROVE  HandshakeInv' /\ AwaitInv'
<1>1. CASE WorkStart
  <2>1. Silent
    BY <1>1, QuietSteps
  <2> QED
    BY <1>1, <2>1, HandshakeKept DEF WorkStart, byteVars, dspVars, IInv, TypesInv, WorkerType, DspType
<1>2. CASE WorkSyncCommands
  <2>1. Silent
    BY <1>2, SyncCommandsStep
  <2>2. ~syncFrom => command = <<>>
    <3>1. CASE worker.pc = "locking" /\ ~syncFrom
      <4>1. outstanding = {} /\ CommandsOnTheWay = command
        BY <3>1 DEF IInv, AwaitInv, NothingSent
      <4> QED
        BY <4>1, Contents
    <3>2. CASE worker.pc = "sync"
      BY <3>2 DEF IInv, AwaitInv
    <3> QED
      BY <1>2, <3>1, <3>2 DEF WorkSyncCommands
  <2> QED
    BY <1>2, <2>1, <2>2, HandshakeKept DEF WorkSyncCommands, byteVars, dspVars
<1>3. CASE WorkPutCommand
  <2>1. Silent
    BY <1>3, PutCommandStep
  <2>2. syncFrom
    BY <1>3 DEF WorkPutCommand, IInv, AwaitInv
  <2> QED
    BY <1>3, <2>1, <2>2, HandshakeKept DEF WorkPutCommand, byteVars, dspVars
<1>4. CASE WorkPublishCommand
  <2>1. Silent
    BY <1>4, PublishCommandStep
  <2> QED
    BY <1>4, <2>1, HandshakeKept DEF WorkPublishCommand, byteVars, dspVars, driverVars
<1>5. CASE WorkSyncResponses
  <2>1. Silent
    BY <1>5, SyncResponsesStep
  <2> QED
    BY <1>5, <2>1, HandshakeKept DEF WorkSyncResponses, byteVars, dspVars, IInv, TypesInv, WorkerType, DspType
<1>6. CASE WorkTakeResponse
  <2>1. Silent
    BY <1>6, TakeResponseStep
  <2> QED
    BY <1>6, <2>1, HandshakeKept DEF WorkTakeResponse, byteVars, dspVars, IInv, TypesInv, WorkerType, DspType
<1>7. CASE WorkGiveResponse
  <2>1. Silent
    BY <1>7, GiveResponseStep
  <2> QED
    BY <1>7, <2>1, HandshakeKept DEF WorkGiveResponse, byteVars, dspVars
<1>8. CASE WorkEnd
  <2>1. Silent
    BY <1>8, WorkEndStep
  <2>2. worker.pc = "responses" /\ worker'.pc \in {"sync", "idle"}
    BY <1>8 DEF WorkEnd
  <2> QED
    BY <1>8, <2>1, <2>2, HandshakeKept DEF WorkEnd, byteVars
<1>9. CASE WorkReadCommandsPeer \/ WorkReadResponsesPeer
  <2>1. Silent
    BY <1>9, ReadCommandsPeerStep, ReadResponsesPeerStep
  <2> QED
    BY <1>9, <2>1, HandshakeKept
       DEF WorkReadCommandsPeer, WorkReadResponsesPeer, byteVars, dspVars, driverVars
<1> QED
  BY <1>1, <1>2, <1>3, <1>4, <1>5, <1>6, <1>7, <1>8, <1>9 DEF Work

\* The DSP sees the host's pattern, answers it and clears it, in this order;
\* the answer it gives is to the session that asked.
LEMMA DspHandshake ==
    ASSUME OrderlyUse, IInv, Dsp
    PROVE  HandshakeInv' /\ AwaitInv'
<1>1. CASE DspBoot
  <2>1. /\ Silent /\ local' = <<>>
        /\ UNCHANGED <<client, kthread, syncFrom, hostPattern, dspPattern, command, worker>>
        /\ dsp.pc = "boot"
        /\ dsp'.pc = (IF hostPattern # 0 THEN "ack" ELSE "wait") /\ dsp'.seen = hostPattern
    BY <1>1, BootStep DEF DspBoot, driverVars, byteVars, IInv, TypesInv, WorkerType, DspType
  <2>2. HandshakeInv'
    BY <2>1 DEF IInv, HandshakeInv, Cold, Asked, Acked, Synced, Silent
  <2>3. AwaitInv'
    BY <2>1 DEF IInv, AwaitInv, NothingSent, Silent
  <2> QED
    BY <2>2, <2>3
<1>2. CASE DspAck
  <2>1. /\ Silent /\ local' = local
        /\ UNCHANGED <<client, kthread, syncFrom, hostPattern, command, worker>>
        /\ dsp.pc = "ack" /\ dsp'.pc = "clear" /\ dspPattern' = dsp.seen
    BY <1>2, QuietSteps DEF DspAck, driverVars, byteVars, IInv, TypesInv, WorkerType, DspType
  <2>2. HandshakeInv'
    BY <2>1 DEF IInv, HandshakeInv, Cold, Asked, Acked, Synced, Silent
  <2>3. ~syncFrom
    BY <2>1 DEF IInv, HandshakeInv, Cold, Asked, Acked, Synced
  <2>4. AwaitInv'
    BY <2>1, <2>3 DEF IInv, AwaitInv, NothingSent, Silent
  <2> QED
    BY <2>2, <2>4
<1>3. CASE DspClear
  <2>1. /\ Silent /\ local' = local
        /\ UNCHANGED <<client, kthread, syncFrom, dspPattern, command, worker>>
        /\ dsp.pc = "clear" /\ dsp'.pc = "wait" /\ hostPattern' = 0
    BY <1>3, QuietSteps DEF DspClear, driverVars, byteVars, IInv, TypesInv, WorkerType, DspType
  <2>2. HandshakeInv'
    BY <2>1 DEF IInv, HandshakeInv, Cold, Asked, Acked, Synced, Silent
  <2>3. AwaitInv'
    BY <2>1 DEF IInv, AwaitInv, NothingSent, Silent
  <2> QED
    BY <2>2, <2>3
<1>4. CASE DspWake
  <2>1. /\ Silent /\ local' = local
        /\ UNCHANGED <<client, kthread, syncFrom, hostPattern, dspPattern, command, worker>>
        /\ dsp.pc = "wait"
        /\ \/ hostPattern = 0 /\ dsp'.pc = "sync"
           \/ hostPattern # 0 /\ dsp'.pc = "ack" /\ dsp'.seen = hostPattern
           \/ hostPattern # 0 /\ dsp'.pc = "boot"
    BY <1>4, QuietSteps DEF DspWake, driverVars, byteVars, IInv, TypesInv, WorkerType, DspType
  <2>2. HandshakeInv'
    BY <2>1 DEF IInv, HandshakeInv, Cold, Asked, Acked, Synced, Silent
  <2>3. dsp'.pc \in {"ack", "boot"} => ~syncFrom
    BY <2>1 DEF IInv, HandshakeInv, Cold, Asked, Acked, Synced
  <2>4. AwaitInv'
    BY <2>1, <2>3, NotSent DEF IInv, AwaitInv, NothingSent, Silent
  <2> QED
    BY <2>2, <2>4
<1>5. CASE DspSyncOutput
  <2>1. Silent
    BY <1>5, SyncOutputStep
  <2> QED
    BY <1>5, <2>1, HandshakeKept DEF DspSyncOutput, driverVars, byteVars, IInv, TypesInv, WorkerType, DspType
<1>6. CASE DspPutResponse
  <2>1. Silent
    BY <1>6, PutResponseStep
  <2> QED
    BY <1>6, <2>1, HandshakeKept DEF DspPutResponse, driverVars, byteVars, IInv, TypesInv, WorkerType, DspType
<1>7. CASE DspPublishResponse
  <2>1. Silent
    BY <1>7, PublishResponseStep
  <2> QED
    BY <1>7, <2>1, HandshakeKept DEF DspPublishResponse, driverVars, byteVars, dspVars
<1>8. CASE DspSyncInput
  <2>1. Silent
    BY <1>8, SyncInputStep
  <2> QED
    BY <1>8, <2>1, HandshakeKept DEF DspSyncInput, driverVars, byteVars, IInv, TypesInv, WorkerType, DspType
<1>9. CASE DspTakeCommand
  <2>1. Silent
    BY <1>9, TakeCommandStep
  <2> QED
    BY <1>9, <2>1, HandshakeKept DEF DspTakeCommand, driverVars, byteVars, IInv, TypesInv, WorkerType, DspType
<1>10. CASE DspSubmitCommand
  <2>1. Silent
    BY <1>10, SubmitCommandStep
  <2> QED
    BY <1>10, <2>1, HandshakeKept DEF DspSubmitCommand, driverVars, byteVars
<1>11. CASE DspEndInput
  <2>1. Silent
    BY <1>11, EndInputStep
  <2> QED
    BY <1>11, <2>1, HandshakeKept DEF DspEndInput, driverVars, IInv, TypesInv, WorkerType, DspType
<1>12. CASE DspDispatch
  <2>1. /\ syncFrom /\ dsp.pc = "dispatch" /\ dsp'.pc = "dispatch"
        /\ UNCHANGED <<driverVars, byteVars, appVars>> /\ outstanding' = outstanding
    BY <1>12, NotSent DEF DspDispatch, IInv, TypesInv, appVars
  <2>2. HandshakeInv'
    BY <2>1 DEF IInv, HandshakeInv, Cold, Asked, Acked, Synced, driverVars, byteVars, appVars
  <2>3. AwaitInv'
    BY <2>1 DEF IInv, AwaitInv, driverVars, appVars
  <2> QED
    BY <2>2, <2>3
<1>13. CASE DspEndService
  <2>1. Silent
    BY <1>13, QuietSteps
  <2> QED
    BY <1>13, <2>1, HandshakeKept DEF DspEndService, driverVars, byteVars, IInv, TypesInv, WorkerType, DspType
<1>14. CASE DspReadOutputPeer \/ DspReadInputPeer
  <2>1. Silent
    BY <1>14, ReadOutputPeerStep, ReadInputPeerStep
  <2> QED
    BY <1>14, <2>1, HandshakeKept
       DEF DspReadOutputPeer, DspReadInputPeer, byteVars, dspVars, driverVars
<1> QED
  BY <1>1, <1>2, <1>3, <1>4, <1>5, <1>6, <1>7, <1>8, <1>9, <1>10, <1>11, <1>12, <1>13, <1>14
     DEF Dsp

\* A command in execution was sent, and so the handshake is complete.
LEMMA CompletionHandshake ==
    ASSUME IInv, DspComplete
    PROVE  HandshakeInv' /\ AwaitInv'
<1>1. /\ syncFrom /\ dsp.pc \notin {"boot", "ack", "clear"}
      /\ UNCHANGED <<driverVars, byteVars, appVars, dsp>>
  BY NotSent DEF DspComplete, IInv, AwaitInv
<1>2. HandshakeInv'
  BY <1>1 DEF IInv, HandshakeInv, Cold, Asked, Acked, Synced, driverVars, byteVars, appVars
<1>3. AwaitInv'
  BY <1>1 DEF IInv, AwaitInv, driverVars, appVars
<1> QED
  BY <1>2, <1>3

\* The polling thread asks, and takes the DSP as synchronised once answered.
LEMMA KthreadHandshake ==
    ASSUME IInv, KthreadHello \/ KthreadSync \/ KthreadPoll
    PROVE  HandshakeInv' /\ AwaitInv'
<1>1. Silent
  BY QuietSteps
<1>2. CASE KthreadHello
  <2>1. /\ kthread = "hello" /\ kthread' = "await" /\ hostPattern' = session
        /\ UNCHANGED <<client, command, worker, syncFrom, dspPattern, dsp, local, session>>
    BY <1>2 DEF KthreadHello, appVars
  <2>2. HandshakeInv'
    BY <2>1 DEF IInv, HandshakeInv, Cold, Asked
  <2>3. AwaitInv'
    BY <1>1, <2>1 DEF IInv, AwaitInv, NothingSent, Silent
  <2> QED
    BY <2>2, <2>3
<1>3. CASE KthreadSync
  <2>1. /\ kthread = "await" /\ kthread' = "poll" /\ syncFrom' = TRUE /\ dspPattern # 0
        /\ UNCHANGED <<client, command, worker, hostPattern, dspPattern, dsp, local, session>>
    BY <1>3 DEF KthreadSync, appVars, byteVars, dspVars
  <2>2. HandshakeInv' /\ ~syncFrom
    BY <2>1 DEF IInv, HandshakeInv, Cold, Asked, Acked, Synced
  <2>3. AwaitInv'
    BY <1>1, <2>1, <2>2 DEF IInv, AwaitInv, NothingSent, Silent
  <2> QED
    BY <2>2, <2>3
<1>4. CASE KthreadPoll
  BY <1>1, <1>4, HandshakeKept DEF KthreadPoll, driverVars, byteVars, dspVars
<1> QED
  BY <1>2, <1>3, <1>4

\* An application that has its answers closes a device whose handshake is
\* complete, and leaves both bytes clear for the next opening.
LEMMA AppHandshake ==
    ASSUME OrderlyUse, IInv, App \/ Poll \/ Read
    PROVE  HandshakeInv' /\ AwaitInv'
<1>1. CASE Open
  <2>1. /\ client = "none" /\ client' = "open" /\ kthread' = "hello" /\ worker.pc # "locking"
        /\ session' = session + 1 /\ written' = 0 /\ outstanding' = {} /\ command' = command
        /\ UNCHANGED <<worker, syncFrom, hostPattern, dspPattern, dsp, local, executing>>
    BY <1>1 DEF Open, OrderlyUse, byteVars, dspVars
  <2>2. /\ CommandsOnTheWay' = CommandsOnTheWay /\ ResponsesOnTheWay' = ResponsesOnTheWay
        /\ outstanding = {}
    BY <1>1, OpenStep DEF Svc!Begin
  <2>3. session' > 0
    BY <2>1 DEF IInv, MessagesInv, Svc!SInv
  <2>4. HandshakeInv'
    BY <2>1, <2>3 DEF Opened, IInv, HandshakeInv, Cold
  <2>5. AwaitInv'
    BY <2>1, <2>2 DEF Opened, IInv, AwaitInv, NothingSent
  <2> QED
    BY <2>4, <2>5
<1>2. CASE Setup \/ Clear
  <2>1. Silent /\ command = <<>> /\ executing = {} /\ local = <<>>
    BY <1>2, SetupStep, ZeroCmdReadStep, ZeroCmdWriteStep, ZeroRspReadStep, ZeroRspWriteStep,
       NothingOnTheWay DEF Opened, Setup, Clear, ZeroCmdRead, ZeroCmdWrite, ZeroRspRead,
       ZeroRspWrite
  <2>2. /\ client \in Opened /\ client' \in Opened \cup {"registered"} /\ command' = <<>>
        /\ UNCHANGED <<kthread, worker, syncFrom, hostPattern, dspPattern, dsp, local>>
    BY <1>2, <2>1 DEF Opened, Setup, Clear, ZeroCmdRead, ZeroCmdWrite, ZeroRspRead, ZeroRspWrite,
       byteVars, dspVars
  <2>3. HandshakeInv'
    BY <2>1, <2>2 DEF Opened, IInv, HandshakeInv, Cold, Asked, Acked, Synced, Silent
  <2>4. AwaitInv'
    BY <2>1, <2>2 DEF Opened, IInv, AwaitInv, NothingSent, Silent
  <2> QED
    BY <2>3, <2>4
<1>3. CASE Write
  <2> DEFINE m == <<session, written + 1>>
  <2>1. /\ client = "registered" /\ worker.pc \notin {"sync", "commands", "responses"}
        /\ outstanding' = outstanding \cup {m} /\ m \in Message
        /\ written' = written + 1 /\ command' = Append(command, m)
        /\ UNCHANGED <<client, kthread, worker, syncFrom, hostPattern, dspPattern, dsp, local,
                       executing, session>>
    BY <1>3, WriteStep DEF Write, Unlocked, byteVars, dspVars
  <2>2. CommandsOnTheWay' = Append(CommandsOnTheWay, m) /\ ResponsesOnTheWay' = ResponsesOnTheWay
    BY <1>3, WriteStep DEF Svc!Submit
  <2>3. HandshakeInv'
    BY <2>1 DEF Opened, IInv, HandshakeInv, Cold, Asked, Acked, Synced
  <2>4. {session} \X (1 .. written + 1) = ({session} \X (1 .. written)) \cup {m}
    <3>1. 1 .. written + 1 = (1 .. written) \cup {written + 1}
      BY DEF IInv, MessagesInv, Svc!SInv
    <3> QED
      BY <3>1
  <2> HIDE DEF m
  <2>5. AwaitInv'
    BY <2>1, <2>2, <2>4 DEF Opened, IInv, AwaitInv, NothingSent
  <2> QED
    BY <2>3, <2>5
<1>4. CASE Close
  <2>1. /\ Silent /\ client = "registered" /\ written > 0 /\ outstanding = {}
        /\ client' = "closing" /\ kthread' = "none" /\ syncFrom' = FALSE
        /\ hostPattern' = 0 /\ dspPattern' = 0
        /\ UNCHANGED <<command, worker, dsp, local>>
    BY <1>4, QuietSteps DEF Close, OrderlyUse, dspVars
  <2>2. <<session, 1>> \in {session} \X (1 .. written)
    BY <2>1 DEF IInv, MessagesInv, Svc!SInv
  <2>3. syncFrom /\ dsp.pc # "clear"
    BY <2>1, <2>2 DEF Opened, IInv, AwaitInv
  <2>4. HandshakeInv'
    BY <2>1, <2>3 DEF Opened, IInv, HandshakeInv, Cold, Acked, Synced
  <2>5. /\ CommandsOnTheWay = <<>> /\ executing = {} /\ ResponsesOnTheWay = <<>>
        /\ command = <<>>
    BY <2>1, Contents, OnTheWay, QueueFacts, ChainType
  <2>6. AwaitInv'
    BY <2>1, <2>3, <2>5 DEF Opened, IInv, AwaitInv, NothingSent, Silent
  <2> QED
    BY <2>4, <2>6
<1>5. CASE Release
  <2>1. /\ Silent /\ client = "closing" /\ client' = "none"
        /\ UNCHANGED <<command, worker, kthread, syncFrom, hostPattern, dspPattern, dsp, local>>
    BY <1>5, ReleaseStep DEF Release, byteVars, dspVars
  <2>2. HandshakeInv'
    BY <2>1 DEF Opened, IInv, HandshakeInv, Cold
  <2>3. AwaitInv'
    BY <2>1 DEF Opened, IInv, AwaitInv, NothingSent, Silent
  <2> QED
    BY <2>2, <2>3
<1>6. CASE Poll
  <2>1. Silent
    BY <1>6, QuietSteps
  <2> QED
    BY <1>6, <2>1, HandshakeKept DEF Poll, byteVars, dspVars
<1>7. CASE Read /\ clientQ = <<>>
  BY <1>7, ReadStep, HandshakeKept DEF Read, byteVars, dspVars
<1>8. CASE Read /\ clientQ # <<>>
  <2>1. /\ client = "registered" /\ ResponsesOnTheWay # <<>>
        /\ UNCHANGED <<client, kthread, worker, syncFrom, hostPattern, dspPattern, dsp, command,
                       session>>
    BY <1>8, ReadStep DEF Read, byteVars, dspVars, Svc!Deliver
  <2>2. syncFrom /\ dsp.pc \notin {"boot", "ack", "clear"}
    BY <2>1 DEF Opened, IInv, AwaitInv, NothingSent
  <2>3. HandshakeInv'
    BY <2>1 DEF Opened, IInv, HandshakeInv, Cold, Asked, Acked, Synced
  <2>4. AwaitInv'
    BY <2>1, <2>2 DEF Opened, IInv, AwaitInv
  <2> QED
    BY <2>3, <2>4
<1> QED
  BY <1>1, <1>2, <1>3, <1>4, <1>5, <1>6, <1>7, <1>8 DEF App

-----------------------------------------------------------------------------
(* The pools                                                               *)

\* the lengths of a queue that is appended to, or whose head is taken
LEMMA QueueLengths ==
    ASSUME NEW q \in Seq(Content)
    PROVE  /\ Len(q) \in Nat
           /\ \A m \in Content : Len(Append(q, m)) = Len(q) + 1
           /\ q # <<>> => Len(Tail(q)) = Len(q) - 1 /\ Len(q) > 0
<1>1. Len(q) \in Nat
  BY LenProperties
<1>2. ASSUME NEW m \in Content PROVE Len(Append(q, m)) = Len(q) + 1
  BY AppendProperties
<1>3. ASSUME q # <<>> PROVE Len(Tail(q)) = Len(q) - 1 /\ Len(q) > 0
  BY <1>1, <1>3, HeadTailProperties, EmptySeq
<1> QED
  BY <1>1, <1>2, <1>3

\* counting is the same in the service and here
LEMMA SameCount ==
    \A S : (Svc!IsFiniteSet(S) <=> IsFiniteSet(S)) /\ Svc!Cardinality(S) = Cardinality(S)
  BY DEF Svc!IsFiniteSet, IsFiniteSet, Svc!Cardinality, Cardinality

\* what the driver's pool and the DSP's are accounted for
HostPool == free \in Nat /\ HostPoolConserved
DspPool  == dspFree \in Nat /\ DspPoolConserved

LEMMA HostPoolKept ==
    ASSUME HostPool, UNCHANGED <<free, command, clientQ>>,
           rspCons'.pc = "taken" <=> rspCons.pc = "taken"
    PROVE  HostPool'
  BY DEF HostPool, HostPoolConserved

LEMMA DspPoolKept ==
    ASSUME DspPool, UNCHANGED <<dspFree, local, executing, remote>>,
           cmdCons'.pc = "taken" <=> cmdCons.pc = "taken"
    PROVE  DspPool'
  BY DEF DspPool, DspPoolConserved

\* A descriptor of the driver's pool goes from the free list to a queue with
\* a command or a response, and back.
LEMMA HostPoolStep ==
    ASSUME IInv, [Next]_vars
    PROVE  HostPool'
<1> USE DEF IInv
<1>1. HostPool
  BY DEF PoolsInv, HostPool
<1>2. /\ Len(command) \in Nat /\ \A m \in Content : Len(Append(command, m)) = Len(command) + 1
      /\ command # <<>> => Len(Tail(command)) = Len(command) - 1 /\ Len(command) > 0
  BY QueueFacts, QueueLengths
<1>3. /\ Len(clientQ) \in Nat /\ \A m \in Content : Len(Append(clientQ, m)) = Len(clientQ) + 1
      /\ clientQ # <<>> => Len(Tail(clientQ)) = Len(clientQ) - 1 /\ Len(clientQ) > 0
  BY QueueFacts, QueueLengths
<1>4. Message \subseteq Content /\ Len(<<>>) = 0
  BY DEF Content
<1>5. CASE Open
  <2>1. clientQ = <<>>
    <3>1. outstanding = {}
      BY <1>5, OpenStep
    <3> QED
      BY <3>1, Contents, OnTheWay, QueueFacts, ChainType
  <2> QED
    BY <1>1, <1>5, <2>1, HostPoolKept DEF Open, ringVars
<1>6. CASE Setup \/ Clear
  BY <1>1, <1>6, SetupStep, HostPoolKept
     DEF Setup, Clear, ZeroCmdRead, ZeroCmdWrite, ZeroRspRead, ZeroRspWrite, ringVars
<1>7. CASE Write
  <2>1. /\ free' = free - 1 /\ free > 0 /\ Len(command') = Len(command) + 1
        /\ UNCHANGED <<clientQ, rspCons>>
    BY <1>2, <1>4, <1>7, WriteStep DEF Write, ringVars
  <2> QED
    BY <1>1, <1>2, <1>3, <2>1 DEF HostPool, HostPoolConserved
<1>8. CASE Read
  <2>1. CASE clientQ = <<>>
    BY <1>1, <1>8, <2>1, HostPoolKept DEF Read, ringVars
  <2>2. CASE clientQ # <<>>
    <3>1. /\ free' = free + 1 /\ Len(clientQ') = Len(clientQ) - 1
          /\ UNCHANGED <<command, rspCons>>
      BY <1>3, <1>8, <2>2 DEF Read, ringVars
    <3> QED
      BY <1>1, <1>2, <1>3, <3>1 DEF HostPool, HostPoolConserved
  <2> QED
    BY <2>1, <2>2
<1>9. CASE Release
  <2>1. clientQ = <<>> /\ clientQ' = <<>> /\ free' = free + 0 /\ UNCHANGED <<command, rspCons>>
    BY <1>4, <1>9, ReleaseStep DEF Release, ringVars
  <2> QED
    BY <1>1, <2>1, HostPoolKept DEF HostPool
<1>10. CASE WorkPutCommand
  <2>1. /\ free' = free + 1 /\ Len(command') = Len(command) - 1
        /\ UNCHANGED <<clientQ, rspCons>>
    BY <1>2, <1>10 DEF WorkPutCommand
  <2> QED
    BY <1>1, <1>2, <1>3, <2>1 DEF HostPool, HostPoolConserved
<1>11. CASE WorkSyncResponses
  BY <1>1, <1>11, HostPoolKept DEF WorkSyncResponses, Rsp!ConsumerSync
<1>12. CASE WorkTakeResponse
  <2>1. /\ free' = free - 1 /\ free > 0 /\ UNCHANGED <<command, clientQ>>
        /\ rspCons.pc # "taken" /\ rspCons'.pc = "taken"
    BY <1>12, TakeResponseStep DEF WorkTakeResponse
  <2> QED
    BY <1>1, <1>2, <1>3, <2>1 DEF HostPool, HostPoolConserved
<1>13. CASE WorkGiveResponse
  <2>1. /\ free' = free /\ command' = command /\ Len(clientQ') = Len(clientQ) + 1
        /\ rspCons.pc = "taken" /\ rspCons'.pc # "taken"
    BY <1>3, <1>4, <1>13, GiveResponseStep DEF WorkGiveResponse
  <2> QED
    BY <1>1, <1>2, <1>3, <2>1 DEF HostPool, HostPoolConserved
<1>14. CASE WorkEnd
  BY <1>1, <1>14, WorkEndStep, HostPoolKept DEF WorkEnd
<1>15. CASE Close \/ Poll \/ KthreadHello \/ KthreadSync \/ KthreadPoll \/ WorkStart
  BY <1>1, <1>15, HostPoolKept
     DEF Close, Poll, KthreadHello, KthreadSync, KthreadPoll, WorkStart, ringVars, driverVars
<1>16. CASE WorkSyncCommands \/ WorkReadCommandsPeer \/ WorkPublishCommand
  BY <1>1, <1>16, HostPoolKept
     DEF WorkSyncCommands, WorkReadCommandsPeer, WorkPublishCommand, driverVars
<1>19. CASE WorkReadResponsesPeer
  BY <1>1, <1>19, ReadResponsesPeerStep, HostPoolKept DEF WorkReadResponsesPeer, driverVars
<1>17. CASE Dsp \/ DspComplete
  <2>1. UNCHANGED <<driverVars, rspCons>>
    BY <1>17
       DEF Dsp, DspBoot, DspAck, DspClear, DspWake, DspSyncOutput, DspReadOutputPeer,
           DspPutResponse, DspPublishResponse, DspSyncInput, DspReadInputPeer, DspTakeCommand,
           DspSubmitCommand, DspEndInput, DspDispatch, DspEndService, DspComplete, ringVars,
           Rsp!ProducerSync, Rsp!ProducerReadPeer, Rsp!ProducerFill, Rsp!ProducerPublish, Rsp!ProducerStop
  <2> QED
    BY <1>1, <2>1, HostPoolKept DEF driverVars
<1>18. CASE UNCHANGED vars
  BY <1>1, <1>18, HostPoolKept DEF vars, ringVars, driverVars
<1> QED
  BY <1>5, <1>6, <1>7, <1>8, <1>9, <1>10, <1>11, <1>12, <1>13, <1>14, <1>15, <1>16, <1>17, <1>18,
     <1>19 DEF Next, App, Work

\* A descriptor of the DSP's pool goes with a message from the command ring
\* to the response ring.  That dispatching and completing a message neither
\* add nor lose one is what the service counts.
LEMMA DspPoolStep ==
    ASSUME IInv, MessagesInv', [Next]_vars
    PROVE  DspPool'
<1> USE DEF IInv
<1>1. DspPool
  BY DEF PoolsInv, DspPool
<1>2. /\ Len(local) \in Nat /\ \A m \in Content : Len(Append(local, m)) = Len(local) + 1
      /\ local # <<>> => Len(Tail(local)) = Len(local) - 1 /\ Len(local) > 0
  BY QueueFacts, QueueLengths
<1>3. /\ Len(remote) \in Nat /\ \A m \in Content : Len(Append(remote, m)) = Len(remote) + 1
      /\ remote # <<>> => Len(Tail(remote)) = Len(remote) - 1 /\ Len(remote) > 0
  BY QueueFacts, QueueLengths
<1>4. /\ IsFiniteSet(executing)
      /\ Len(CommandsOnTheWay) + Cardinality(executing) + Len(ResponsesOnTheWay)
            = Cardinality(outstanding)
  BY SameCount DEF MessagesInv, Svc!SInv, Svc!Counted
<1>5. /\ IsFiniteSet(executing')
      /\ Len(CommandsOnTheWay') + Cardinality(executing') + Len(ResponsesOnTheWay')
            = Cardinality(outstanding')
  BY SameCount DEF MessagesInv, Svc!SInv, Svc!Counted
<1>6. Cardinality(executing) \in Nat /\ Cardinality(executing') \in Nat
  BY <1>4, <1>5, FS_CardinalityType
<1>7. /\ CommandsOnTheWay \in Seq(Content) /\ ResponsesOnTheWay \in Seq(Content)
      /\ Len(CommandsOnTheWay) \in Nat /\ Len(ResponsesOnTheWay) \in Nat
  BY OnTheWay, QueueFacts, ChainType, LenProperties
<1>8. CASE DspBoot
  <2>1. /\ dspFree' = DspPoolSize /\ local' = <<>> /\ executing' = {} /\ remote' = <<>>
        /\ cmdCons'.pc # "taken"
    BY <1>8 DEF DspBoot, PhasesInv, ringVars
  <2>2. Cardinality(executing') = 0 /\ Len(local') = 0 /\ Len(remote') = 0
    BY <2>1, FS_EmptySet
  <2>3. DspPoolSize \in Nat
    BY IpcAssumption
  <2> QED
    BY <2>1, <2>2, <2>3 DEF DspPool, DspPoolConserved
<1>9. CASE DspPutResponse
  <2>1. /\ dspFree' = dspFree + 1 /\ Len(remote') = Len(remote) - 1
        /\ UNCHANGED <<local, executing, cmdCons>>
    BY <1>3, <1>9 DEF DspPutResponse
  <2> QED
    BY <1>1, <1>2, <1>3, <1>6, <2>1 DEF DspPool, DspPoolConserved
<1>10. CASE DspSyncInput
  BY <1>1, <1>10, DspPoolKept DEF DspSyncInput, Cmd!ConsumerSync
<1>11. CASE DspTakeCommand
  <2>1. /\ dspFree' = dspFree - 1 /\ dspFree > 0 /\ UNCHANGED <<local, executing, remote>>
        /\ cmdCons.pc # "taken" /\ cmdCons'.pc = "taken"
    BY <1>11, TakeCommandStep DEF DspTakeCommand
  <2> QED
    BY <1>1, <1>2, <1>3, <1>6, <2>1 DEF DspPool, DspPoolConserved
<1>12. CASE DspSubmitCommand
  <2>1. /\ Len(local') = Len(local) + 1 /\ UNCHANGED <<dspFree, executing, remote>>
        /\ cmdCons.pc = "taken" /\ cmdCons'.pc # "taken"
    BY <1>2, <1>12, SubmitCommandStep DEF DspSubmitCommand
  <2> QED
    BY <1>1, <1>2, <1>3, <1>6, <2>1 DEF DspPool, DspPoolConserved
<1>13. CASE DspEndInput
  BY <1>1, <1>13, EndInputStep, DspPoolKept DEF DspEndInput
<1>14. CASE DspDispatch
  <2>1. /\ Len(local') = Len(local) - 1 /\ UNCHANGED <<dspFree, remote, cmdCons>>
    BY <1>2, <1>14 DEF DspDispatch, ringVars
  <2>2. /\ outstanding' = outstanding /\ CommandsOnTheWay # <<>>
        /\ CommandsOnTheWay' = Tail(CommandsOnTheWay) /\ ResponsesOnTheWay' = ResponsesOnTheWay
    BY <1>14, DispatchStep DEF Svc!Start
  <2>3. Len(CommandsOnTheWay') = Len(CommandsOnTheWay) - 1
    BY <1>7, <2>2, QueueLengths
  <2>4. Cardinality(executing') = Cardinality(executing) + 1
    BY <1>4, <1>5, <1>6, <1>7, <2>2, <2>3
  <2> QED
    BY <1>1, <1>2, <1>3, <1>6, <2>1, <2>4 DEF DspPool, DspPoolConserved
<1>15. CASE DspComplete
  <2>1. PICK m \in executing : remote' = Append(remote, m)
    BY <1>15 DEF DspComplete
  <2>2. m \in Content
    BY Contents DEF Content
  <2>3. Len(remote') = Len(remote) + 1 /\ UNCHANGED <<dspFree, local, cmdCons>>
    BY <1>3, <1>15, <2>1, <2>2 DEF DspComplete, ringVars
  <2>4. /\ outstanding' = outstanding /\ CommandsOnTheWay' = CommandsOnTheWay
        /\ \E x \in executing : ResponsesOnTheWay' = Append(ResponsesOnTheWay, x)
    BY <1>15, CompletionStep DEF Svc!Complete
  <2>5. Len(ResponsesOnTheWay') = Len(ResponsesOnTheWay) + 1
    <3>1. PICK x \in executing : ResponsesOnTheWay' = Append(ResponsesOnTheWay, x)
      BY <2>4
    <3>2. x \in Content
      BY Contents DEF Content
    <3> QED
      BY <1>7, <3>1, <3>2, QueueLengths
  <2>6. Cardinality(executing') = Cardinality(executing) - 1
    BY <1>4, <1>5, <1>6, <1>7, <2>4, <2>5
  <2> QED
    BY <1>1, <1>2, <1>3, <1>6, <2>3, <2>6 DEF DspPool, DspPoolConserved
<1>16. CASE DspAck \/ DspClear \/ DspWake \/ DspEndService
  BY <1>1, <1>16, DspPoolKept DEF DspAck, DspClear, DspWake, DspEndService, ringVars
<1>17. CASE DspSyncOutput \/ DspReadOutputPeer \/ DspPublishResponse
  BY <1>1, <1>17, DspPoolKept
     DEF DspSyncOutput, DspReadOutputPeer, DspPublishResponse, dspVars
<1>20. CASE DspReadInputPeer
  BY <1>1, <1>20, ReadInputPeerStep, DspPoolKept DEF DspReadInputPeer, dspVars
<1>18. CASE App \/ Poll \/ Read \/ KthreadHello \/ KthreadSync \/ KthreadPoll \/ Work
  <2>1. UNCHANGED <<dspFree, local, executing, remote, cmdCons>>
    BY <1>18
       DEF App, Open, Setup, Clear, ZeroCmdRead, ZeroCmdWrite, ZeroRspRead, ZeroRspWrite, Write,
           Close, Release, Poll, Read, KthreadHello, KthreadSync, KthreadPoll, Work, WorkStart,
           WorkSyncCommands, WorkReadCommandsPeer, WorkPutCommand, WorkPublishCommand,
           WorkSyncResponses, WorkReadResponsesPeer, WorkTakeResponse, WorkGiveResponse, WorkEnd,
           ringVars, dspVars, Cmd!ProducerSync, Cmd!ProducerReadPeer, Cmd!ProducerFill, Cmd!ProducerPublish, Cmd!ProducerStop
  <2> QED
    BY <1>1, <2>1, DspPoolKept
<1>19. CASE UNCHANGED vars
  BY <1>1, <1>19, DspPoolKept DEF vars, ringVars, dspVars
<1> QED
  BY <1>8, <1>9, <1>10, <1>11, <1>12, <1>13, <1>14, <1>15, <1>16, <1>17, <1>18, <1>19, <1>20
     DEF Next, Dsp

-----------------------------------------------------------------------------
(* The types                                                               *)

\* an instance of it for each queue
LEMMA QueueSteps ==
    ASSUME NEW E, NEW q \in Seq(E)
    PROVE  /\ \A m \in E : Append(q, m) \in Seq(E)
           /\ q # <<>> => Head(q) \in E /\ Tail(q) \in Seq(E)
<1>1. \A m \in E : Append(q, m) \in Seq(E)
  BY AppendProperties
<1> QED
  BY <1>1, HeadAndTail

LEMMA TypesStep ==
    ASSUME OrderlyUse, IInv, [Next]_vars
    PROVE  TypesInv'
<1> USE DEF IInv
<1>1. /\ \A m \in Message : Append(command, m) \in Seq(Message)
      /\ command # <<>> => Tail(command) \in Seq(Message)
      /\ \A m \in Content : /\ Append(clientQ, m) \in Seq(Content)
                            /\ Append(local, m) \in Seq(Content)
                            /\ Append(remote, m) \in Seq(Content)
      /\ clientQ # <<>> => Tail(clientQ) \in Seq(Content)
      /\ local # <<>> => Tail(local) \in Seq(Content)
      /\ remote # <<>> => Tail(remote) \in Seq(Content)
  BY QueueFacts, QueueSteps DEF TypesInv
<1>2. /\ TypesInv /\ Content = Message \cup {Garbage}
      /\ MaxSessions \in Nat /\ MaxCommands \in Nat
      /\ <<>> \in Seq(Content) /\ <<>> \in Seq(Message)
  BY IpcAssumption DEF Content
<1>3. CASE Open
  BY <1>2, <1>3 DEF TypesInv, Opened, Open, byteVars, dspVars
<1>4. CASE Setup
  BY <1>2, <1>4 DEF TypesInv, Opened, Setup, byteVars, appVars, dspVars
<1>36. CASE Clear
  <2>1. /\ UNCHANGED <<clientQ, command, worker, kthread, workPending, syncFrom, byteVars, session,
                      written, dspVars>>
        /\ client' \in Opened \cup {"registered"} /\ receiver' \in {receiver, "poll"}
    BY <1>36 DEF Clear, ZeroCmdRead, ZeroCmdWrite, ZeroRspRead, ZeroRspWrite, Opened, appVars
  <2> QED
    BY <1>2, <2>1 DEF TypesInv, byteVars, dspVars
<1>5. CASE Write
  <2>1. <<session, written + 1>> \in Message
    BY <1>5, WriteStep
  <2> QED
    BY <1>1, <1>2, <1>5, <2>1 DEF TypesInv, Write, byteVars, dspVars
<1>6. CASE Close
  <2>1. /\ client' = "closing" /\ kthread' = "none" /\ syncFrom' = FALSE
        /\ hostPattern' = 0 /\ dspPattern' = 0 /\ receiver' = "none"
    BY <1>6 DEF Close, OrderlyUse
  <2>2. UNCHANGED <<clientQ, command, workPending, worker, notified, session, written, dspVars>>
    BY <1>6 DEF Close
  <2> QED
    <3>1. {hostPattern', dspPattern', session'} \subseteq 0 .. MaxSessions
      BY <1>2, <2>1, <2>2 DEF TypesInv
    <3>2. {workPending', syncFrom', notified', dspEvent'} \subseteq BOOLEAN
      BY <2>1, <2>2 DEF TypesInv, dspVars
    <3>3. {local', remote'} \subseteq Seq(Message \cup {Garbage})
      BY <2>2 DEF TypesInv, dspVars
    <3> QED
      BY <2>1, <2>2, <3>1, <3>2, <3>3 DEF TypesInv, dspVars
<1>7. CASE Release
  BY <1>2, <1>7 DEF TypesInv, Release, byteVars, appVars, dspVars
<1>8. CASE Poll
  BY <1>2, <1>8 DEF TypesInv, Poll, byteVars, dspVars
<1>9. CASE Read
  BY <1>1, <1>2, <1>9 DEF TypesInv, Read, byteVars, dspVars
<1>10. CASE KthreadHello
  BY <1>2, <1>10 DEF TypesInv, KthreadHello, appVars
<1>11. CASE KthreadSync
  BY <1>2, <1>11 DEF TypesInv, KthreadSync, byteVars, appVars, dspVars
<1>12. CASE KthreadPoll
  BY <1>2, <1>12 DEF TypesInv, KthreadPoll, Woken, driverVars, byteVars, dspVars
<1>13. CASE WorkStart
  <2>1. worker' \in WorkerType
    BY <1>13 DEF TypesInv, WorkStart, WorkerType
  <2> QED
    BY <1>2, <1>13, <2>1 DEF TypesInv, WorkStart, byteVars, appVars, dspVars
<1>14. CASE WorkSyncCommands
  <2>1. worker' \in WorkerType
    BY <1>14 DEF TypesInv, WorkSyncCommands, WorkerType
  <2> QED
    BY <1>2, <1>14, <2>1 DEF TypesInv, WorkSyncCommands, byteVars, appVars, dspVars
<1>15. CASE WorkPutCommand
  <2>1. worker' \in WorkerType
    BY <1>15 DEF TypesInv, WorkPutCommand, WorkerType
  <2> QED
    BY <1>1, <1>2, <1>15, <2>1 DEF TypesInv, WorkPutCommand, byteVars, appVars, dspVars
<1>16. CASE WorkPublishCommand
  BY <1>2, <1>16 DEF TypesInv, WorkPublishCommand, driverVars, byteVars, appVars, dspVars
<1>37. CASE WorkReadCommandsPeer \/ WorkReadResponsesPeer
  BY <1>2, <1>37
     DEF TypesInv, WorkReadCommandsPeer, WorkReadResponsesPeer, driverVars, byteVars, appVars,
         dspVars
<1>17. CASE WorkSyncResponses
  <2>1. worker' \in WorkerType
    BY <1>17 DEF TypesInv, WorkSyncResponses, WorkerType
  <2> QED
    BY <1>2, <1>17, <2>1 DEF TypesInv, WorkSyncResponses, byteVars, appVars, dspVars
<1>18. CASE WorkTakeResponse
  <2>1. worker'.remote \in BOOLEAN
    BY <1>18 DEF TypesInv, WorkerType, WorkTakeResponse, Rsp!Full
  <2>2. worker' \in WorkerType
    BY <1>18, <2>1 DEF TypesInv, WorkerType, WorkTakeResponse
  <2> QED
    BY <1>2, <1>18, <2>1, <2>2 DEF TypesInv, WorkTakeResponse, byteVars, appVars, dspVars
<1>19. CASE WorkGiveResponse
  <2>1. clientQ' \in Seq(Content) /\ receiver' \in {receiver, Woken}
    BY <1>1, <1>2, <1>19, GiveResponseStep
  <2> QED
    BY <1>2, <1>19, <2>1 DEF TypesInv, WorkGiveResponse, Woken, byteVars, dspVars
<1>20. CASE WorkEnd
  <2>1. worker' \in WorkerType
    BY <1>20 DEF TypesInv, WorkEnd, WorkerType
  <2> QED
    BY <1>2, <1>20, <2>1 DEF TypesInv, WorkEnd, byteVars, appVars
<1>21. CASE DspBoot
  <2>1. dsp' \in DspType
    BY <1>21 DEF TypesInv, DspBoot, DspType
  <2> QED
    BY <1>2, <1>21, <2>1 DEF TypesInv, DspBoot, driverVars, byteVars, appVars
<1>22. CASE DspAck
  <2>1. dsp' \in DspType
    BY <1>22 DEF TypesInv, DspAck, DspType
  <2>2. dsp.seen \in 0 .. MaxSessions
    BY DEF TypesInv, DspType
  <2> QED
    BY <1>2, <1>22, <2>1, <2>2 DEF TypesInv, DspAck, driverVars, appVars
<1>23. CASE DspClear
  <2>1. dsp' \in DspType
    <3>1. dsp' = [dsp EXCEPT !.pc = "wait", !.fresh = FALSE, !.seen = 0] /\ dsp \in DspType
      BY <1>23 DEF TypesInv, DspClear
    <3>2. 0 \in 0 .. MaxSessions
      BY <1>2
    <3> QED
      BY <3>1, <3>2 DEF DspType
  <2> QED
    BY <1>2, <1>23, <2>1 DEF TypesInv, DspClear, driverVars, appVars
<1>24. CASE DspWake
  <2>1. dsp' \in DspType
    BY <1>24 DEF TypesInv, DspWake, DspType
  <2> QED
    BY <1>2, <1>24, <2>1 DEF TypesInv, DspWake, driverVars, byteVars, appVars
<1>25. CASE DspSyncOutput
  <2>1. dsp' \in DspType
    BY <1>25 DEF TypesInv, DspSyncOutput, DspType
  <2> QED
    BY <1>2, <1>25, <2>1 DEF TypesInv, DspSyncOutput, driverVars, byteVars, appVars
<1>26. CASE DspPutResponse
  <2>1. dsp' \in DspType
    BY <1>26 DEF TypesInv, DspPutResponse, DspType
  <2> QED
    BY <1>1, <1>2, <1>26, <2>1 DEF TypesInv, DspPutResponse, driverVars, byteVars, appVars
<1>27. CASE DspPublishResponse
  BY <1>2, <1>27 DEF TypesInv, DspPublishResponse, driverVars, byteVars, appVars, dspVars
<1>38. CASE DspReadOutputPeer \/ DspReadInputPeer
  BY <1>2, <1>38
     DEF TypesInv, DspReadOutputPeer, DspReadInputPeer, driverVars, byteVars, appVars, dspVars
<1>28. CASE DspSyncInput
  <2>1. dsp' \in DspType
    BY <1>28 DEF TypesInv, DspSyncInput, DspType
  <2> QED
    BY <1>2, <1>28, <2>1 DEF TypesInv, DspSyncInput, driverVars, byteVars, appVars
<1>29. CASE DspTakeCommand
  <2>1. dsp'.remote \in BOOLEAN
    BY <1>29 DEF TypesInv, DspType, DspTakeCommand, Cmd!Full
  <2>2. dsp' \in DspType
    BY <1>29, <2>1 DEF TypesInv, DspType, DspTakeCommand
  <2> QED
    BY <1>2, <1>29, <2>1, <2>2 DEF TypesInv, DspTakeCommand, driverVars, byteVars, appVars
<1>30. CASE DspSubmitCommand
  <2>1. local' \in Seq(Content)
    BY <1>1, <1>30, SubmitCommandStep DEF DspSubmitCommand
  <2> QED
    BY <1>2, <1>30, <2>1 DEF TypesInv, DspSubmitCommand, driverVars, byteVars, appVars
<1>31. CASE DspEndInput
  <2>1. dsp' \in DspType
    BY <1>31 DEF TypesInv, DspEndInput, DspType
  <2> QED
    BY <1>2, <1>31, <2>1 DEF TypesInv, DspEndInput, driverVars, appVars
<1>32. CASE DspDispatch
  <2>1. dsp' \in DspType
    BY <1>32 DEF TypesInv, DspDispatch, DspType
  <2> QED
    BY <1>1, <1>2, <1>32, <2>1 DEF TypesInv, DspDispatch, driverVars, byteVars, appVars
<1>33. CASE DspEndService
  <2>1. dsp' \in DspType
    BY <1>33 DEF TypesInv, DspEndService, DspType
  <2> QED
    BY <1>2, <1>33, <2>1 DEF TypesInv, DspEndService, driverVars, byteVars, appVars
<1>34. CASE DspComplete
  <2>1. executing \subseteq Content
    BY Contents DEF Content
  <2>2. remote' \in Seq(Content)
    BY <1>1, <1>34, <2>1 DEF DspComplete
  <2> QED
    BY <1>2, <1>34, <2>2 DEF TypesInv, DspComplete, driverVars, byteVars, appVars
<1>35. CASE UNCHANGED vars
  BY <1>2, <1>35 DEF TypesInv, vars, driverVars, byteVars, appVars, dspVars
<1> QED
  BY <1>3, <1>4, <1>5, <1>6, <1>7, <1>8, <1>9, <1>10, <1>11, <1>12, <1>13, <1>14, <1>15, <1>16,
     <1>17, <1>18, <1>19, <1>20, <1>21, <1>22, <1>23, <1>24, <1>25, <1>26, <1>27, <1>28, <1>29,
     <1>30, <1>31, <1>32, <1>33, <1>34, <1>35, <1>36, <1>37, <1>38 DEF Next, App, Work, Dsp

-----------------------------------------------------------------------------
(* The invariant                                                           *)

LEMMA StepIInv ==
    ASSUME OrderlyUse, IInv, [Next]_vars
    PROVE  IInv' /\ ServiceStep
<1>1. RingsInv' /\ PhasesInv' /\ ServiceStep
  BY EveryStep
<1>2. MessagesInv'
  BY <1>1, MessagesStep
<1>3. HandshakeInv' /\ AwaitInv'
  <2>1. CASE UNCHANGED vars
    <3>1. Silent
      BY <2>1, NothingMoves DEF IInv, vars, driverVars, dspVars, appVars
    <3> QED
      BY <2>1, <3>1, HandshakeKept DEF vars, driverVars, byteVars, dspVars
  <2> QED
    BY <2>1, WorkHandshake, DspHandshake, CompletionHandshake, KthreadHandshake, AppHandshake
       DEF Next
<1>4. PoolsInv'
  BY <1>2, HostPoolStep, DspPoolStep DEF PoolsInv, HostPool, DspPool
<1>5. TypesInv'
  BY TypesStep
<1> QED
  BY <1>1, <1>2, <1>3, <1>4, <1>5 DEF IInv

\* The DSP has not run: both rings are empty, and so is every queue.
LEMMA InitIInv ==
    ASSUME Init
    PROVE  IInv /\ Svc!Init
<1>1. CmdR!Init /\ RspR!Init
  BY DEF Init, CmdMem, RspMem, CmdR!Init, RspR!Init, Cmd!Start, Cmd!Slot, CmdR!Start, CmdR!Slot,
         RspR!Start, RspR!Slot
<1>2. CmdR!SidesInv /\ CmdR!ProducerInv /\ CmdR!Pending = <<>> /\ CmdR!Unpublished = <<>>
  BY <1>1, IpcAssumption, CmdR!InitSides
<1>3. RspR!SidesInv /\ RspR!ProducerInv /\ RspR!Pending = <<>> /\ RspR!Unpublished = <<>>
  BY <1>1, IpcAssumption, RspR!InitSides
<1>4. RingsInv
  <2>1. Cmd!Start \in Cmd!Index
    BY IpcAssumption DEF Cmd!Start, Cmd!Index, Cmd!Slot
  <2>2. {cmdRing, rspRing} \subseteq RingType
    BY <2>1 DEF Init, RingType, Content
  <2> QED
    BY <1>2, <1>3, <2>2 DEF RingsInv, Init
<1>5. PhasesInv
  BY DEF Init, PhasesInv
<1>6. CommandsOnTheWay = <<>> /\ ResponsesOnTheWay = <<>>
  <2>1. /\ local \in Seq(Content) /\ command \in Seq(Content)
        /\ clientQ \in Seq(Content) /\ remote \in Seq(Content)
        /\ CmdR!Pending \in Seq(Content) /\ CmdR!Unpublished \in Seq(Content)
        /\ RspR!Pending \in Seq(Content) /\ RspR!Unpublished \in Seq(Content)
    BY <1>2, <1>3 DEF Init
  <2> QED
    BY <1>2, <1>3, <2>1, OnTheWay, ChainType DEF Init
<1>7. Svc!Init
  BY <1>6 DEF Init, Svc!Init
<1>8. MessagesInv
  BY <1>7, Svc!InitSInv DEF Init, MessagesInv
<1>9. HandshakeInv
  BY DEF Init, HandshakeInv, Cold
<1>10. AwaitInv
  BY <1>6 DEF Init, AwaitInv, NothingSent
<1>11. PoolsInv
  <2>1. Len(<<>>) = 0 /\ Cardinality({}) = 0
    BY FS_EmptySet
  <2> QED
    BY <2>1, IpcAssumption DEF Init, PoolsInv, HostPoolConserved, DspPoolConserved
<1>12. TypesInv
  <2>1. worker \in WorkerType
    BY DEF Init, WorkerType
  <2>2. 0 \in 0 .. MaxSessions /\ 0 \in 0 .. MaxCommands
    BY IpcAssumption
  <2>3. dsp \in DspType
    BY <2>2 DEF Init, DspType
  <2>4. {local, remote} \subseteq Seq(Message \cup {Garbage})
    BY DEF Init
  <2> QED
    <3>1. {hostPattern, dspPattern, session} \subseteq 0 .. MaxSessions /\ written \in 0 .. MaxCommands
      BY <2>2 DEF Init
    <3>2. {workPending, syncFrom, notified, dspEvent} \subseteq BOOLEAN
      BY DEF Init
    <3>3. /\ client = "none" /\ kthread = "none" /\ receiver = "none"
          /\ clientQ = <<>> /\ command = <<>>
      BY DEF Init
    <3> QED
      BY <2>1, <2>3, <2>4, <3>1, <3>2, <3>3 DEF TypesInv
<1> QED
  BY <1>4, <1>5, <1>7, <1>8, <1>9, <1>10, <1>11, <1>12 DEF IInv

\* The invariant holds in every state of an orderly use.
THEOREM Invariance == OrderlyUse => (Spec => []IInv)
<1> SUFFICES ASSUME OrderlyUse PROVE Spec => []IInv
  OBVIOUS
<1>1. Init => IInv
  BY InitIInv
<1>2. IInv /\ [Next]_vars => IInv'
  BY StepIInv
<1> QED
  BY <1>1, <1>2, PTL DEF Spec

-----------------------------------------------------------------------------
(* What follows from it                                                    *)

\* The driver's polling thread takes the DSP as synchronised only on the
\* answer to the handshake of this opening of the device (thread_function,
\* xf_core_loop), however the two bytes, the interrupts and the DSP's restart
\* interleave.
THEOREM FreshHandshake == OrderlyUse => (Spec => []SyncIsFresh)
<1>1. IInv => SyncIsFresh
  BY DEF IInv, HandshakeInv, Acked, Synced, SyncIsFresh
<1> QED
  BY <1>1, Invariance, PTL

\* Until then every command written is still in the driver's command queue
\* (xf_proxy_process), and a DSP that starts over has nothing to forget.
THEOREM CommandsWait == OrderlyUse => (Spec => []CommandsAwaitSync)
<1>1. ASSUME IInv, client = "registered", ~syncFrom
      PROVE  outstanding \subseteq ToSet(command)
  <2>1. CommandsOnTheWay = command /\ executing = {} /\ ResponsesOnTheWay = <<>>
    BY <1>1 DEF IInv, AwaitInv, NothingSent
  <2>2. ToSet(<<>>) = {}
    BY DEF ToSet
  <2> QED
    BY <1>1, <2>1, <2>2, Contents
<1>2. IInv => CommandsAwaitSync
  BY <1>1 DEF CommandsAwaitSync
<1> QED
  BY <1>2, Invariance, PTL

\* What is in a client's queue are responses to commands of its own session:
\* xf_cmap and xf_release leave nothing behind for the next opening.
THEOREM NoLeftovers == OrderlyUse => (Spec => []FreshStart)
<1>1. ASSUME IInv PROVE ToSet(clientQ) \subseteq {session} \X (1 .. MaxCommands)
  <2>1. ToSet(clientQ) \subseteq ToSet(ResponsesOnTheWay)
    BY <1>1, OnTheWay, QueueFacts, ChainElements
  <2>2. ToSet(clientQ) \subseteq {session} \X (1 .. written)
    BY <1>1, <2>1, Contents
  <2>3. 1 .. written \subseteq 1 .. MaxCommands
    BY <1>1, IpcAssumption DEF IInv, TypesInv
  <2> QED
    BY <2>2, <2>3
<1>2. IInv => FreshStart
  BY <1>1 DEF FreshStart
<1> QED
  BY <1>2, Invariance, PTL

\* Every command written and not yet answered is in exactly one of the
\* driver's queues, the two rings, the DSP's queues and its components, and
\* nothing else is.
THEOREM MessagesOnce == OrderlyUse => (Spec => []EveryMessageOnce)
<1>1. ASSUME IInv PROVE EveryMessageOnce
  <2>1. CommandsOnTheWay \in Seq(Content) /\ ResponsesOnTheWay \in Seq(Content)
    BY <1>1, OnTheWay, QueueFacts, ChainType
  <2>2. ToSet(CommandsOnTheWay \o ResponsesOnTheWay)
            = ToSet(CommandsOnTheWay) \cup ToSet(ResponsesOnTheWay)
    BY <2>1, ToSetConcat
  <2>3. Len(CommandsOnTheWay \o ResponsesOnTheWay)
            = Len(CommandsOnTheWay) + Len(ResponsesOnTheWay)
    BY <2>1, ConcatProperties
  <2>4. Len(CommandsOnTheWay) \in Nat /\ Len(ResponsesOnTheWay) \in Nat
    BY <2>1, LenProperties
  <2>5. /\ IsFiniteSet(executing)
        /\ Len(CommandsOnTheWay) + Cardinality(executing) + Len(ResponsesOnTheWay)
              = Cardinality(outstanding)
    BY <1>1, SameCount DEF IInv, MessagesInv, Svc!SInv, Svc!Counted
  <2>6. Cardinality(executing) \in Nat
    BY <2>5, FS_CardinalityType
  <2>7. ToSet(CommandsOnTheWay \o ResponsesOnTheWay) \cup executing = outstanding
    BY <1>1, <2>2, Contents
  <2>8. Len(CommandsOnTheWay \o ResponsesOnTheWay) + Cardinality(executing)
            = Cardinality(outstanding)
    BY <2>3, <2>4, <2>5, <2>6
  <2> QED
    BY <2>7, <2>8 DEF EveryMessageOnce
<1>2. IInv => EveryMessageOnce
  BY <1>1
<1> QED
  BY <1>2, Invariance, PTL

\* No descriptor of the driver's pool is lost or used twice (xf_msg_alloc and
\* xf_msg_free of the driver, through every queue).
THEOREM HostDescriptors == OrderlyUse => (Spec => []HostPoolConserved)
<1>1. IInv => HostPoolConserved
  BY DEF IInv, PoolsInv
<1> QED
  BY <1>1, Invariance, PTL

\* The same of the DSP's pool (xf_msg_pool_get and xf_msg_pool_put).
THEOREM DspDescriptors == OrderlyUse => (Spec => []DspPoolConserved)
<1>1. IInv => DspPoolConserved
  BY DEF IInv, PoolsInv
<1> QED
  BY <1>1, Invariance, PTL

\* Type correctness; that neither pool is ever overfilled follows from the
\* account of its descriptors.
THEOREM TypeCorrect == OrderlyUse => (Spec => []TypeOK)
<1>1. ASSUME IInv PROVE TypeOK
  <2>1. CmdR!TypeOK /\ RspR!TypeOK
    BY <1>1, RingFacts DEF IInv
  <2>2. Cmd!TypeOK
    BY <1>1, <2>1 DEF IInv, RingsInv, RingType, Content,
                      Cmd!TypeOK, Cmd!Index, Cmd!Slot, CmdR!TypeOK, CmdR!Index, CmdR!Slot
  <2>3. Rsp!TypeOK
    BY <1>1, <2>1 DEF IInv, RingsInv, RingType, Content, Cmd!Index, Cmd!Slot,
                      Rsp!TypeOK, Rsp!Index, Rsp!Slot, RspR!TypeOK, RspR!Index, RspR!Slot
  <2>4. /\ Len(command) \in Nat /\ Len(clientQ) \in Nat /\ Len(local) \in Nat
        /\ Len(remote) \in Nat
    BY <1>1, QueueFacts, LenProperties
  <2>5. Cardinality(executing) \in Nat
    BY <1>1, SameCount, FS_CardinalityType DEF IInv, MessagesInv, Svc!SInv, Svc!Counted
  <2>6. free \in 0 .. HostPoolSize
    BY <1>1, <2>4, IpcAssumption DEF IInv, PoolsInv, HostPoolConserved
  <2>7. dspFree \in 0 .. DspPoolSize
    BY <1>1, <2>4, <2>5, IpcAssumption DEF IInv, PoolsInv, DspPoolConserved
  <2>8. outstanding \subseteq Message /\ executing \subseteq Message \cup {Garbage}
    BY <1>1, Contents
  <2>9. TypesInv
    BY <1>1 DEF IInv
  <2> QED
    BY <2>2, <2>3, <2>6, <2>7, <2>8, <2>9 DEF TypeOK, TypesInv, WorkerType, DspType,
       Opened, Attached
<1>2. IInv => TypeOK
  BY <1>1
<1> QED
  BY <1>2, Invariance, PTL

\* The whole path, from XF_PROXY_SETUP_IOCTL and write through the driver,
\* the rings and the DSP's core loop and back to read, is the service of
\* CommandService: every step of any of its threads is a step of the service
\* or one it does not see.
THEOREM Refinement == OrderlyUse => (Spec => ImplementsService)
<1> SUFFICES ASSUME OrderlyUse PROVE Spec => ImplementsService
  OBVIOUS
<1>1. Init => Service!Init
  BY InitIInv DEF Svc!Init, Service!Init
<1>2. IInv /\ [Next]_vars => [Service!Next]_Service!vars
  <2> SUFFICES ASSUME IInv, [Next]_vars PROVE [Service!Next]_Service!vars
    OBVIOUS
  <2>1. ServiceStep
    BY StepIInv
  <2>2. CASE Silent
    BY <2>2 DEF Silent, Service!vars
  <2>3. CASE Svc!Begin
    BY <2>3 DEF Svc!Begin, Service!Begin, Service!Next
  <2>4. CASE Svc!Submit
    BY <2>4 DEF Svc!Submit, Service!Submit, Service!Next
  <2>5. CASE Svc!Start
    BY <2>5 DEF Svc!Start, Service!Start, Service!Next
  <2>6. CASE Svc!Complete
    BY <2>6 DEF Svc!Complete, Service!Complete, Service!Next
  <2>7. CASE Svc!Deliver
    BY <2>7 DEF Svc!Deliver, Service!Deliver, Service!Next
  <2> QED
    BY <2>1, <2>2, <2>3, <2>4, <2>5, <2>6, <2>7 DEF ServiceStep
<1> QED
  BY <1>1, <1>2, Invariance, PTL DEF Spec, ImplementsService, Service!Spec
=============================================================================
