------------------------- MODULE CommandService_proofs -------------------------
(***************************************************************************)
(* What the service of the hosted path means: the commands of a session    *)
(* are numbered as they are written, those not yet started are the last of *)
(* them in order, and every one is waiting, in execution or answered, once.*)
(***************************************************************************)
EXTENDS CommandService, Integers, SequencesExt, SequenceTheorems, FiniteSetTheorems, TLAPS

\* the commands written whose answer has not been read
Outstanding == ToSet(queue) \cup executing \cup ToSet(answers)

\* how many commands of the session have been started
Started == written - Len(queue)

\* The commands not yet started are the last written, in the order of writing.
InOrder ==
    /\ queue \in Seq({session} \X (1 .. written)) /\ Len(queue) <= written
    /\ \A i \in 1 .. Len(queue) : queue[i] = <<session, Started + i>>

\* Those in execution and those answered are different ones of the started.
StartedOnce ==
    /\ executing \subseteq {session} \X (1 .. Started)
    /\ answers \in Seq({session} \X (1 .. Started))
    /\ \A i \in 1 .. Len(answers) : answers[i] \notin executing
    /\ \A i, j \in 1 .. Len(answers) : answers[i] = answers[j] => i = j

\* Nothing is counted twice.
Counted ==
    /\ IsFiniteSet(executing) /\ IsFiniteSet(Outstanding)
    /\ Len(queue) + Cardinality(executing) + Len(answers) = Cardinality(Outstanding)

SInv ==
    /\ session \in Nat /\ written \in Nat
    /\ InOrder /\ StartedOnce /\ Counted
-----------------------------------------------------------------------------
(* Sequences                                                               *)

\* The elements of a sequence are those of its head and its tail.
LEMMA ToSetTail ==
    ASSUME NEW S, NEW s \in Seq(S), s # <<>>
    PROVE  /\ ToSet(s) = {Head(s)} \cup ToSet(Tail(s))
           /\ ToSet(s) \subseteq S
<1>1. /\ Len(s) \in Nat \ {0} /\ DOMAIN s = 1 .. Len(s)
      /\ Tail(s) \in Seq(S) /\ Len(Tail(s)) = Len(s) - 1
      /\ DOMAIN Tail(s) = 1 .. Len(s) - 1
      /\ \A i \in 1 .. Len(s) - 1 : Tail(s)[i] = s[i + 1]
      /\ Head(s) = s[1] /\ \A i \in 1 .. Len(s) : s[i] \in S
  BY HeadTailProperties, EmptySeq, LenProperties, ElementOfSeq
<1>2. \A i \in 2 .. Len(s) : i - 1 \in 1 .. Len(s) - 1 /\ Tail(s)[i - 1] = s[i]
  BY <1>1
<1>3. ToSet(s) \subseteq {Head(s)} \cup ToSet(Tail(s))
  <2> SUFFICES ASSUME NEW i \in 1 .. Len(s) PROVE s[i] \in {Head(s)} \cup ToSet(Tail(s))
    BY <1>1 DEF ToSet
  <2>1. CASE i = 1
    BY <1>1, <2>1
  <2>2. CASE i # 1
    <3>1. i \in 2 .. Len(s)
      BY <1>1, <2>2
    <3>2. i - 1 \in DOMAIN Tail(s) /\ Tail(s)[i - 1] = s[i]
      BY <1>1, <1>2, <3>1
    <3> QED
      BY <3>2 DEF ToSet
  <2> QED
    BY <2>1, <2>2
<1>4. {Head(s)} \cup ToSet(Tail(s)) \subseteq ToSet(s)
  <2>1. \A i \in 1 .. Len(s) - 1 : i + 1 \in 1 .. Len(s)
    BY <1>1
  <2>2. 1 \in 1 .. Len(s)
    BY <1>1
  <2> QED
    BY <1>1, <2>1, <2>2 DEF ToSet
<1> QED
  BY <1>1, <1>3, <1>4 DEF ToSet

\* Appending adds one element.
LEMMA ToSetAppend ==
    ASSUME NEW S, NEW s \in Seq(S), NEW x \in S
    PROVE  ToSet(Append(s, x)) = ToSet(s) \cup {x}
<1>1. /\ Len(s) \in Nat /\ DOMAIN s = 1 .. Len(s)
      /\ DOMAIN Append(s, x) = 1 .. Len(s) + 1
      /\ \A i \in 1 .. Len(s) : Append(s, x)[i] = s[i]
      /\ Append(s, x)[Len(s) + 1] = x
  BY AppendProperties, LenProperties
<1>2. 1 .. Len(s) + 1 = (1 .. Len(s)) \cup {Len(s) + 1}
  BY <1>1
<1> QED
  BY <1>1, <1>2 DEF ToSet

\* An empty sequence has none, and no other.
LEMMA ToSetEmpty == ToSet(<<>>) = {}
  BY DEF ToSet

LEMMA ToSetNone ==
    ASSUME NEW S, NEW s \in Seq(S), ToSet(s) = {}
    PROVE  s = <<>>
<1>1. ASSUME s # <<>> PROVE FALSE
  <2>1. ToSet(s) = {Head(s)} \cup ToSet(Tail(s))
    BY <1>1, ToSetTail
  <2> QED
    BY <2>1
<1> QED
  BY <1>1

-----------------------------------------------------------------------------
(* The invariant, and what each step does to what is outstanding           *)

\* What is outstanding was written in this session.
LEMMA OutstandingWritten == SInv => Outstanding \subseteq {session} \X (1 .. written)
<1> SUFFICES ASSUME SInv PROVE Outstanding \subseteq {session} \X (1 .. written)
  OBVIOUS
<1>1. written \in Nat /\ Len(queue) \in Nat /\ Started \in Nat /\ Started <= written
  BY LenProperties DEF SInv, InOrder, Started
<1>2. ToSet(queue) \subseteq {session} \X (1 .. written)
  BY ElementOfSeq, LenProperties DEF SInv, InOrder, ToSet
<1>3. executing \cup ToSet(answers) \subseteq {session} \X (1 .. Started)
  BY ElementOfSeq, LenProperties DEF SInv, StartedOnce, ToSet
<1> QED
  BY <1>1, <1>2, <1>3 DEF Outstanding

\* With nothing outstanding, nothing is anywhere.
LEMMA NoneOutstanding ==
    ASSUME SInv, Outstanding = {}
    PROVE  queue = <<>> /\ executing = {} /\ answers = <<>>
<1>1. executing = {} /\ ToSet(queue) = {} /\ ToSet(answers) = {}
  BY DEF Outstanding
<1>2. queue = <<>>
  BY <1>1, ToSetNone DEF SInv, InOrder
<1>3. answers = <<>>
  BY <1>1, ToSetNone DEF SInv, StartedOnce
<1> QED
  BY <1>1, <1>2, <1>3

LEMMA InitSInv == Init => SInv /\ Outstanding = {}
<1> SUFFICES ASSUME Init PROVE SInv /\ Outstanding = {}
  OBVIOUS
<1>1. queue = <<>> /\ answers = <<>> /\ executing = {} /\ session = 0 /\ written = 0
  BY DEF Init
<1>2. Outstanding = {}
  BY <1>1, ToSetEmpty DEF Outstanding
<1>3. InOrder /\ StartedOnce
  BY <1>1 DEF InOrder, StartedOnce, Started
<1>4. Counted
  BY <1>1, <1>2, FS_EmptySet DEF Counted
<1> QED
  BY <1>1, <1>2, <1>3, <1>4 DEF SInv

\* Opening the device anew, with nothing outstanding.
LEMMA BeginStep ==
    ASSUME SInv, Begin
    PROVE  SInv' /\ Outstanding = {} /\ Outstanding' = {}
<1>1. /\ queue = <<>> /\ answers = <<>> /\ executing = {} /\ session < MaxSessions
      /\ queue' = <<>> /\ answers' = <<>> /\ executing' = {}
      /\ session' = session + 1 /\ written' = 0
  BY DEF Begin
<1>2. Outstanding = {} /\ Outstanding' = {}
  BY <1>1, ToSetEmpty DEF Outstanding
<1>3. InOrder' /\ StartedOnce'
  BY <1>1 DEF InOrder, StartedOnce, Started
<1>4. Counted'
  BY <1>1, <1>2, FS_EmptySet DEF Counted
<1> QED
  BY <1>1, <1>2, <1>3, <1>4 DEF SInv

\* Writing a command numbers it and puts it behind the others.
LEMMA SubmitStep ==
    ASSUME SInv, Submit
    PROVE  SInv' /\ Outstanding' = Outstanding \cup {<<session, written + 1>>}
<1> DEFINE new == <<session, written + 1>>
           S   == {session} \X (1 .. written)
           T   == {session} \X (1 .. written + 1)
<1>1. /\ session \in Nat /\ written \in Nat
      /\ queue \in Seq(S) /\ Len(queue) \in Nat /\ Len(queue) <= written
      /\ \A i \in 1 .. Len(queue) : queue[i] = <<session, Started + i>>
      /\ Started \in 0 .. written
      /\ session' = session /\ written' = written + 1
      /\ queue' = Append(queue, new) /\ executing' = executing /\ answers' = answers
  BY LenProperties DEF SInv, InOrder, Submit, Started
<1>2. /\ S \subseteq T /\ new \in T /\ new \notin S /\ queue \in Seq(T)
  BY <1>1, SeqMonotonic
<1>3. /\ queue' \in Seq(T) /\ Len(queue') = Len(queue) + 1 /\ Started' = Started
      /\ \A i \in 1 .. Len(queue) : queue'[i] = queue[i]
      /\ queue'[Len(queue) + 1] = new
      /\ ToSet(queue') = ToSet(queue) \cup {new}
  BY <1>1, <1>2, AppendProperties, ToSetAppend DEF Started
<1>4. \A i \in 1 .. Len(queue) + 1 : queue'[i] = <<session, Started + i>>
  <2> TAKE i \in 1 .. Len(queue) + 1
  <2>1. CASE i \in 1 .. Len(queue)
    BY <1>1, <1>3, <2>1
  <2>2. CASE i = Len(queue) + 1
    BY <1>1, <1>3, <2>2 DEF Started
  <2> QED
    BY <1>1, <2>1, <2>2
<1>5. InOrder'
  BY <1>1, <1>3, <1>4 DEF InOrder
<1>6. StartedOnce'
  BY <1>1, <1>3 DEF StartedOnce, SInv
<1>7. Outstanding' = Outstanding \cup {new}
  BY <1>1, <1>3 DEF Outstanding
<1>8. Outstanding \subseteq S
  BY OutstandingWritten
<1>9. Counted'
  <2>1. new \notin Outstanding
    BY <1>2, <1>8
  <2>2. IsFiniteSet(Outstanding') /\ Cardinality(Outstanding') = Cardinality(Outstanding) + 1
    BY <1>7, <2>1, FS_AddElement DEF SInv, Counted
  <2>3. /\ Cardinality(executing) \in Nat /\ Len(answers) \in Nat
        /\ Cardinality(Outstanding) \in Nat
    BY FS_CardinalityType, LenProperties DEF SInv, Counted, StartedOnce
  <2> QED
    BY <1>1, <1>3, <2>2, <2>3 DEF SInv, Counted
<1> QED
  BY <1>1, <1>5, <1>6, <1>7, <1>9 DEF SInv

\* Starting a command starts the oldest one.
LEMMA StartStep ==
    ASSUME SInv, Start
    PROVE  SInv' /\ Outstanding' = Outstanding
<1> DEFINE S == {session} \X (1 .. written)
           h == <<session, Started + 1>>
<1>1. /\ session \in Nat /\ written \in Nat
      /\ queue \in Seq(S) /\ Len(queue) \in Nat \ {0} /\ Len(queue) <= written
      /\ \A i \in 1 .. Len(queue) : queue[i] = <<session, Started + i>>
      /\ Started \in Nat /\ Started < written
      /\ session' = session /\ written' = written /\ answers' = answers
      /\ queue # <<>> /\ queue' = Tail(queue) /\ executing' = executing \cup {Head(queue)}
  BY LenProperties, EmptySeq DEF SInv, InOrder, Start, Started
<1>2. /\ queue' \in Seq(S) /\ Len(queue') = Len(queue) - 1 /\ Started' = Started + 1
      /\ \A i \in 1 .. Len(queue) - 1 : queue'[i] = queue[i + 1]
      /\ Head(queue) = h
      /\ ToSet(queue) = {h} \cup ToSet(queue')
  <2>1. /\ Tail(queue) \in Seq(S) /\ Len(Tail(queue)) = Len(queue) - 1
        /\ \A i \in 1 .. Len(queue) - 1 : Tail(queue)[i] = queue[i + 1]
    BY <1>1, HeadTailProperties
  <2>2. Head(queue) = queue[1] /\ 1 \in 1 .. Len(queue)
    BY <1>1
  <2>3. ToSet(queue) = {Head(queue)} \cup ToSet(Tail(queue))
    BY <1>1, ToSetTail
  <2>4. Started' = Started + 1
    BY <1>1, <2>1 DEF Started
  <2> QED
    BY <1>1, <2>1, <2>2, <2>3, <2>4
<1>3. InOrder'
  <2>1. \A i \in 1 .. Len(queue) - 1 : queue'[i] = <<session, Started + 1 + i>>
    BY <1>1, <1>2
  <2> QED
    BY <1>1, <1>2, <2>1 DEF InOrder
<1>4. {session} \X (1 .. Started) \subseteq {session} \X (1 .. Started + 1)
  BY <1>1
<1>5. h \notin executing /\ \A i \in 1 .. Len(answers) : answers[i] # h
  <2>1. h \notin {session} \X (1 .. Started)
    BY <1>1
  <2> QED
    BY <2>1, ElementOfSeq DEF SInv, StartedOnce
<1>6. StartedOnce'
  <2>1. executing' \subseteq {session} \X (1 .. Started + 1)
    BY <1>1, <1>2, <1>4 DEF SInv, StartedOnce
  <2>2. answers \in Seq({session} \X (1 .. Started + 1))
    BY <1>4, SeqMonotonic DEF SInv, StartedOnce
  <2> QED
    BY <1>1, <1>2, <1>5, <2>1, <2>2 DEF SInv, StartedOnce
<1>7. Outstanding' = Outstanding
  BY <1>1, <1>2 DEF Outstanding
<1>8. Counted'
  <2>1. IsFiniteSet(executing') /\ Cardinality(executing') = Cardinality(executing) + 1
    BY <1>1, <1>2, <1>5, FS_AddElement DEF SInv, Counted
  <2>2. Cardinality(executing) \in Nat /\ Len(answers) \in Nat
    BY FS_CardinalityType, LenProperties DEF SInv, Counted, StartedOnce
  <2> QED
    BY <1>1, <1>2, <1>7, <2>1, <2>2 DEF SInv, Counted
<1> QED
  BY <1>1, <1>3, <1>6, <1>7, <1>8 DEF SInv

\* A completed command is answered and no longer in execution.
LEMMA CompleteStep ==
    ASSUME SInv, Complete
    PROVE  SInv' /\ Outstanding' = Outstanding
<1> DEFINE S == {session} \X (1 .. Started)
<1>1. PICK m \in executing : executing' = executing \ {m} /\ answers' = Append(answers, m)
  BY DEF Complete
<1>2. /\ session' = session /\ written' = written /\ queue' = queue /\ Started' = Started
      /\ m \in S /\ answers \in Seq(S) /\ executing \subseteq S
      /\ \A i \in 1 .. Len(answers) : answers[i] \notin executing
      /\ \A i, j \in 1 .. Len(answers) : answers[i] = answers[j] => i = j
      /\ Len(answers) \in Nat
  BY <1>1, LenProperties DEF Complete, Started, SInv, StartedOnce
<1>3. /\ answers' \in Seq(S) /\ Len(answers') = Len(answers) + 1
      /\ \A i \in 1 .. Len(answers) : answers'[i] = answers[i]
      /\ answers'[Len(answers) + 1] = m
      /\ ToSet(answers') = ToSet(answers) \cup {m}
  BY <1>1, <1>2, AppendProperties, ToSetAppend
<1>4. \A i \in 1 .. Len(answers') : i \in 1 .. Len(answers) \/ i = Len(answers) + 1
  BY <1>2, <1>3
<1>5. StartedOnce'
  <2>1. \A i \in 1 .. Len(answers') : answers'[i] \notin executing'
    BY <1>1, <1>2, <1>3, <1>4
  <2>2. \A i, j \in 1 .. Len(answers') : answers'[i] = answers'[j] => i = j
    BY <1>2, <1>3, <1>4
  <2> QED
    BY <1>1, <1>2, <1>3, <2>1, <2>2 DEF StartedOnce
<1>6. InOrder'
  BY <1>2 DEF SInv, InOrder
<1>7. Outstanding' = Outstanding
  BY <1>1, <1>2, <1>3 DEF Outstanding
<1>8. Counted'
  <2>1. IsFiniteSet(executing') /\ Cardinality(executing') = Cardinality(executing) - 1
    BY <1>1, FS_RemoveElement DEF SInv, Counted
  <2>2. /\ Cardinality(executing) \in Nat /\ Len(queue) \in Nat
        /\ Cardinality(Outstanding) \in Nat
    BY FS_CardinalityType, LenProperties DEF SInv, Counted, InOrder
  <2>3. Len(queue') + Cardinality(executing') + Len(answers') = Cardinality(Outstanding')
    <3>1. Len(queue) + Cardinality(executing) + Len(answers) = Cardinality(Outstanding)
      BY DEF SInv, Counted
    <3>2. /\ Len(queue') = Len(queue) /\ Len(answers') = Len(answers) + 1
          /\ Len(answers) \in Nat
      BY <1>2, <1>3
    <3>3. Cardinality(Outstanding') = Cardinality(Outstanding)
      BY <1>7
    <3> QED
      BY <2>1, <2>2, <3>1, <3>2, <3>3
  <2> QED
    BY <1>7, <2>1, <2>3 DEF SInv, Counted
<1> QED
  BY <1>2, <1>5, <1>6, <1>7, <1>8 DEF SInv

\* An answer is read once: what is read is no longer outstanding.
LEMMA DeliverStep ==
    ASSUME SInv, Deliver
    PROVE  SInv' /\ Outstanding' = Outstanding \ {Head(answers)}
<1> DEFINE S == {session} \X (1 .. Started)
           h == Head(answers)
<1>1. /\ session' = session /\ written' = written /\ queue' = queue /\ Started' = Started
      /\ executing' = executing
      /\ answers # <<>> /\ answers' = Tail(answers)
      /\ answers \in Seq(S) /\ executing \subseteq S
      /\ \A i \in 1 .. Len(answers) : answers[i] \notin executing
      /\ \A i, j \in 1 .. Len(answers) : answers[i] = answers[j] => i = j
      /\ Len(answers) \in Nat \ {0}
  BY EmptySeq DEF Deliver, Started, SInv, StartedOnce
<1>2. /\ answers' \in Seq(S) /\ Len(answers') = Len(answers) - 1 /\ h = answers[1]
      /\ \A i \in 1 .. Len(answers') : answers'[i] = answers[i + 1]
      /\ ToSet(answers) = {h} \cup ToSet(answers')
  BY <1>1, HeadTailProperties, ToSetTail
<1>3. \A i \in 1 .. Len(answers') : i + 1 \in 1 .. Len(answers) /\ answers'[i] # h
  BY <1>1, <1>2
<1>4. h \notin ToSet(answers') /\ h \notin executing
  BY <1>1, <1>2, <1>3, LenProperties DEF ToSet
<1>5. h \notin ToSet(queue)
  <2>1. h \in {session} \X (1 .. Started)
    BY <1>1, <1>2, ElementOfSeq
  <2>2. \A i \in 1 .. Len(queue) : queue[i] # h
    BY <2>1, LenProperties DEF SInv, InOrder, Started
  <2> QED
    BY <2>2, LenProperties DEF ToSet, SInv, InOrder
<1>6. Outstanding' = Outstanding \ {h}
  BY <1>1, <1>2, <1>4, <1>5 DEF Outstanding
<1>7. StartedOnce'
  <2>1. \A i \in 1 .. Len(answers') : answers'[i] \notin executing'
    BY <1>1, <1>2, <1>3
  <2>2. \A i, j \in 1 .. Len(answers') : answers'[i] = answers'[j] => i = j
    BY <1>1, <1>2, <1>3
  <2> QED
    BY <1>1, <1>2, <2>1, <2>2 DEF StartedOnce
<1>8. InOrder'
  BY <1>1 DEF SInv, InOrder
<1>9. Counted'
  <2>1. h \in Outstanding
    BY <1>2 DEF Outstanding
  <2>2. IsFiniteSet(Outstanding') /\ Cardinality(Outstanding') = Cardinality(Outstanding) - 1
    BY <1>6, <2>1, FS_RemoveElement DEF SInv, Counted
  <2>3. /\ Cardinality(executing) \in Nat /\ Len(queue) \in Nat
        /\ Cardinality(Outstanding) \in Nat
    BY FS_CardinalityType, LenProperties DEF SInv, Counted, InOrder
  <2> QED
    BY <1>1, <1>2, <2>2, <2>3 DEF SInv, Counted
<1> QED
  BY <1>1, <1>6, <1>7, <1>8, <1>9 DEF SInv

LEMMA StepSInv == SInv /\ [Next]_vars => SInv'
<1> SUFFICES ASSUME SInv, [Next]_vars PROVE SInv'
  OBVIOUS
<1>1. CASE UNCHANGED vars
  BY <1>1 DEF vars, SInv, InOrder, StartedOnce, Counted, Started, Outstanding
<1> QED
  BY <1>1, BeginStep, SubmitStep, StartStep, CompleteStep, DeliverStep DEF Next

\* The promise of the service: the commands of a session are started in the
\* order of writing, each once, and answered at most once.
THEOREM ServiceInOrder == Spec => [](InOrder /\ StartedOnce)
<1>1. SInv => InOrder /\ StartedOnce
  BY DEF SInv
<1> QED
  BY <1>1, InitSInv, StepSInv, PTL DEF Spec
=============================================================================
