----------------------------- MODULE DspCore_proofs -----------------------------
(***************************************************************************)
(* What the core of the DSP keeps an account of.                           *)
(*                                                                         *)
(* The client table, for any number of workers, ids, components and        *)
(* messages, and whatever goes wrong: what is in the table, in the queues  *)
(* and in the threads' hands names a component by its id and by itself,    *)
(* and the two are shown to agree.                                         *)
(*                                                                         *)
(* The memory, for a pool of any size: what is given out never overlaps,   *)
(* free memory is never split where it could be in one piece, and so an    *)
(* allocation fails only if there is no room.                              *)
(*                                                                         *)
(* The scheduler's queue, for any tasks and delays: what is taken next is  *)
(* due first, and nobody is overtaken.                                     *)
(***************************************************************************)
EXTENDS Workers, Extents, SequenceTheorems, FiniteSetTheorems, TLAPS

Addresses == Clients \cup {Proxy}

Operations == {"none", "PRIORITIES", "REGISTER", "SET_PARAM", "ROUTE", "COMMAND", "UNREGISTER",
               "EMPTY", "FILL", "FLUSH"}

AnyMessage ==
    {m \in [op : Operations, src : Addresses, dst : Addresses, owner : Nat, serial : Nat,
            arg : Nat \cup {Keep}, error : BOOLEAN, gone : BOOLEAN, meant : Nat] :
        m.op = "ROUTE" => m.arg \in Clients}

ToClient == {m \in AnyMessage : m.dst \in Clients}

Entries == {Marker} \cup [comp : Objects, msg : ToClient]

Components ==
    [life : {"none", "live", "dead"}, id : Addresses, priority : Pool, ready : BOOLEAN,
     scheduled : BOOLEAN, terminating : BOOLEAN, cause : AnyMessage, held : Seq(AnyMessage),
     peer : Addresses, mate : Nat, home : Int, filled : Nat, lost : BOOLEAN, seen : Nat, heard : Nat]

Stages == {"idle", "waiting", "submit", "changed", "send", "freed", "mark", "purge", "drain", "exited"}

ThreadStates ==
    [pc : Stages, comp : Objects \cup {None}, todo : Seq(AnyMessage),
     then : {"drain", "exit", "purge", "move"},
     item : Entries, q : Pool, to : Pool, client : Addresses, target : Pool,
     rescheds : BOOLEAN, raised : BOOLEAN]

Applications ==
    [asked : Nat, open : SUBSET Nat, known : [Clients -> Nat], registering : BOOLEAN,
     plain : Nat, changes : Nat, fails : Nat]

Typed ==
    /\ n_workers \in {0, NWorkers}
    /\ interim \in Seq(AnyMessage)
    /\ queue \in [Pool -> Seq(Entries)] /\ local \in [Pool -> Seq(ToClient)]
    /\ sched \in [Threads -> SUBSET Objects]
    /\ cmap \in [Clients -> Objects \cup {None}] /\ free \in Seq(Clients)
    /\ comp \in [Objects -> Components]
    /\ th \in [Threads -> ThreadStates]
    /\ app \in Applications

\* what the table names is, or was, a component with that id
Named ==
    /\ \A i \in Clients : cmap[i] # None => /\ comp[cmap[i]].life # "none"
                                            /\ Alive(cmap[i]) => comp[cmap[i]].id = i
    /\ \A o \in Objects : Alive(o) => comp[o].id \in Clients

\* components are numbered in the order of their creation
Created  == {o \in Objects : comp[o].life # "none"}
Numbered == \E n \in 0 .. MaxObjects : Created = 1 .. n

\* at most one component is asked for, and there is room for it
Creates(m) == m.dst = Proxy /\ m.op # "PRIORITIES"

Requests(s, registering) ==
    /\ \A j \in 1 .. Len(s) : Creates(s[j]) => registering
    /\ \A j, k \in 1 .. Len(s) : Creates(s[j]) /\ Creates(s[k]) => j = k

Registering == Requests(interim, app.registering) /\ (app.registering => NextObject <= MaxObjects)

\* what waits for a worker was sent with the component that has its id, or is
\* no more
Addressed(e) ==
    e # Marker => /\ comp[e.comp].life # "none"
                  /\ Alive(e.comp) => comp[e.comp].id = e.msg.dst

AllAddressed(s) == \A k \in 1 .. Len(s) : Addressed(s[k])

\* a thread that ends a component has its id in hand, which is in use until
\* the queue is purged
Sound(s) ==
    /\ Addressed(s.item)
    /\ s.then # "drain" => s.comp \in Objects /\ s.pc # "changed"
    /\ s.then \in {"exit", "purge"} => s.client \in Clients /\ cmap[s.client] = s.comp
    /\ s.then = "purge" => comp[s.comp].life = "dead"

IInv ==
    /\ Typed /\ TableSound /\ Named /\ Numbered /\ Registering
    /\ \A w \in Pool : AllAddressed(queue[w])
    /\ \A t \in Threads : Sound(th[t])
-----------------------------------------------------------------------------
(* Messages and components *)

\* What is completed is a message, and so is what answers one with an error
\* (xf_msg_complete, xf_response_err, xf_response_failure).
LEMMA Answers ==
    ASSUME NEW m \in AnyMessage
    PROVE  /\ Completed(m) \in AnyMessage
           /\ ResponseErr(m) \in AnyMessage
           /\ ResponseFailure(m) \in AnyMessage
           /\ [m EXCEPT !.error = TRUE] \in AnyMessage
<1> DEFINE Records == [op : Operations, src : Addresses, dst : Addresses, owner : Nat, serial : Nat,
                       arg : Nat \cup {Keep}, error : BOOLEAN, gone : BOOLEAN, meant : Nat]
<1>0. \A x : x \in AnyMessage <=> x \in Records /\ (x.op = "ROUTE" => x.arg \in Clients)
  BY DEF AnyMessage
<1>1. ASSUME NEW x \in AnyMessage PROVE Completed(x) \in AnyMessage
  <2>1. PICK op : /\ op \in {"FILL", "EMPTY", x.op}
                  /\ Completed(x) = [x EXCEPT !.src = x.dst, !.dst = x.src, !.op = op]
    BY Zenon DEF Completed
  <2>2. x \in Records /\ (x.op = "ROUTE" => x.arg \in Clients)
    BY <1>0
  <2>3. op \in Operations /\ (op = "ROUTE" => x.op = "ROUTE")
    BY <2>1, <2>2 DEF Operations
  <2>4. Completed(x) \in Records /\ Completed(x).op = op /\ Completed(x).arg = x.arg
    BY <2>1, <2>2, <2>3
  <2> QED
    BY <1>0, <2>2, <2>3, <2>4
<1>2. [m EXCEPT !.op = "UNREGISTER"] \in AnyMessage
  <2> DEFINE x == [m EXCEPT !.op = "UNREGISTER"]
  <2>1. m \in Records
    BY <1>0
  <2>2. x \in Records /\ x.op = "UNREGISTER"
    BY <2>1 DEF Operations
  <2> QED
    BY <1>0, <2>2
<1>3. [m EXCEPT !.gone = TRUE] \in AnyMessage /\ [m EXCEPT !.error = TRUE] \in AnyMessage
  <2> DEFINE x == [m EXCEPT !.gone = TRUE]
             y == [m EXCEPT !.error = TRUE]
  <2>1. m \in Records /\ (m.op = "ROUTE" => m.arg \in Clients)
    BY <1>0
  <2>2. x \in Records /\ x.op = m.op /\ x.arg = m.arg
    BY <2>1
  <2>3. y \in Records /\ y.op = m.op /\ y.arg = m.arg
    BY <2>1
  <2> QED
    BY <1>0, <2>1, <2>2, <2>3
<1> QED
  BY <1>1, <1>2, <1>3 DEF ResponseErr, ResponseFailure

\* A new message is one.
LEMMA NewMessage ==
    ASSUME NEW op \in Operations \ {"ROUTE"}, NEW src \in Addresses, NEW dst \in Addresses,
           NEW owner \in Nat, NEW serial \in Nat
    PROVE  Message(op, src, dst, owner, serial) \in AnyMessage
  BY DEF Message, AnyMessage, Keep, None

\* No component and no message is none of those there are.
LEMMA Nothing ==
    /\ NoMsg \in AnyMessage /\ Marker \in Entries /\ None \notin Objects
    /\ Proxy \in Addresses /\ None \in Addresses /\ Objects \subseteq Nat /\ Addresses \subseteq Nat
<1>1. /\ None \notin Objects /\ Proxy \in Addresses /\ None \in Addresses
      /\ Objects \subseteq Nat /\ Addresses \subseteq Nat
  BY WorkersAssumption DEF None, Proxy, Addresses, Objects, Clients
<1>2. NoMsg \in AnyMessage
  <2>1. None \in Nat /\ 0 \in Nat
    BY DEF None
  <2>2. "none" \in Operations \ {"ROUTE"}
    BY DEF Operations
  <2> QED
    BY <1>1, <2>1, <2>2, NewMessage DEF NoMsg
<1>3. Marker \in Entries
  BY DEF Entries
<1> QED
  BY <1>1, <1>2, <1>3

\* What is put behind a sequence, or taken from its front.
LEMMA Sequences ==
    ASSUME NEW S, NEW s \in Seq(S)
    PROVE  /\ \A x \in S : Append(s, x) \in Seq(S) /\ <<x>> \o s \in Seq(S)
           /\ \A q \in Seq(S) : s \o q \in Seq(S)
           /\ s # <<>> => Head(s) \in S /\ Tail(s) \in Seq(S)
           /\ <<>> \in Seq(S)
           /\ \A x \in S : <<x>> \in Seq(S)
  OBVIOUS

\* d is c later on
Later(c, d) == d \in Components /\ d.life = c.life /\ d.id = c.id

\* A component remains one, with its id, whichever of its fields changes.
LEMMA Fields ==
    ASSUME NEW c \in Components
    PROVE  /\ Later(c, c)
           /\ \A v \in BOOLEAN : /\ Later(c, [c EXCEPT !.scheduled = v])
                                 /\ Later(c, [c EXCEPT !.ready = v])
                                 /\ Later(c, [c EXCEPT !.lost = v])
                                 /\ Later(c, [c EXCEPT !.terminating = v])
           /\ \A v \in Pool : Later(c, [c EXCEPT !.priority = v])
           /\ \A v \in AnyMessage : Later(c, [c EXCEPT !.cause = v])
           /\ \A v \in Seq(AnyMessage) : Later(c, [c EXCEPT !.held = v])
           /\ \A v \in Addresses : Later(c, [c EXCEPT !.peer = v])
           /\ \A v \in Int : Later(c, [c EXCEPT !.home = v])
           /\ \A v \in Nat : /\ Later(c, [c EXCEPT !.mate = v])
                             /\ Later(c, [c EXCEPT !.filled = v])
                             /\ Later(c, [c EXCEPT !.seen = v])
                             /\ Later(c, [c EXCEPT !.heard = v])
<1>1. Later(c, c)
  BY DEF Later
<1>2. \A v \in BOOLEAN : /\ Later(c, [c EXCEPT !.scheduled = v])
                         /\ Later(c, [c EXCEPT !.ready = v])
                         /\ Later(c, [c EXCEPT !.lost = v])
                         /\ Later(c, [c EXCEPT !.terminating = v])
  BY DEF Components, Later
<1>3. \A v \in Pool : Later(c, [c EXCEPT !.priority = v])
  BY DEF Components, Later
<1>4. \A v \in AnyMessage : Later(c, [c EXCEPT !.cause = v])
  BY DEF Components, Later
<1>5. \A v \in Seq(AnyMessage) : Later(c, [c EXCEPT !.held = v])
  BY DEF Components, Later
<1>6. \A v \in Addresses : Later(c, [c EXCEPT !.peer = v])
  BY DEF Components, Later
<1>7. \A v \in Int : Later(c, [c EXCEPT !.home = v])
  BY DEF Components, Later
<1>8. \A v \in Nat : /\ Later(c, [c EXCEPT !.mate = v])
                     /\ Later(c, [c EXCEPT !.filled = v])
                     /\ Later(c, [c EXCEPT !.seen = v])
                     /\ Later(c, [c EXCEPT !.heard = v])
  BY DEF Components, Later
<1> QED
  BY <1>1, <1>2, <1>3, <1>4, <1>5, <1>6, <1>7, <1>8

\* What the fields of a component are.
LEMMA FieldTypes ==
    ASSUME NEW c \in Components
    PROVE  /\ c.life \in {"none", "live", "dead"} /\ c.id \in Addresses /\ c.priority \in Pool
           /\ c.ready \in BOOLEAN /\ c.scheduled \in BOOLEAN /\ c.terminating \in BOOLEAN
           /\ c.cause \in AnyMessage /\ c.held \in Seq(AnyMessage) /\ c.peer \in Addresses
           /\ c.mate \in Nat /\ c.home \in Int /\ c.filled \in Nat /\ c.seen \in Nat /\ c.heard \in Nat
  BY DEF Components

\* What the fields of a message are.
LEMMA MessageTypes ==
    ASSUME NEW m \in AnyMessage
    PROVE  /\ m.op \in Operations /\ m.src \in Addresses /\ m.dst \in Addresses
           /\ m.owner \in Nat /\ m.serial \in Nat /\ m.arg \in Nat \cup {Keep}
           /\ m.meant \in Nat /\ (m.op = "ROUTE" => m.arg \in Clients)
  BY DEF AnyMessage

\* what a handler makes of c
Handles(c, r) == Later(c, r.c) /\ r.out \in Seq(AnyMessage)

\* What makes up a result.
LEMMA ResultParts ==
    ASSUME NEW d, NEW out, NEW ret
    PROVE  /\ Result(d, out, ret).c = d /\ Result(d, out, ret).out = out /\ Result(d, out, ret).ret = ret
  BY DEF Result

\* A purged input sends back what it held.
LEMMA Purging ==
    ASSUME NEW c \in Components
    PROVE  Purged(c) \in Seq(AnyMessage)
<1>1. c.held \in Seq(AnyMessage)
  BY FieldTypes
<1>2. ASSUME NEW k \in 1 .. Len(c.held) PROVE Completed(c.held[k]) \in AnyMessage
  <2>1. c.held[k] \in AnyMessage
    BY <1>1
  <2> QED
    BY <2>1, Answers
<1> QED
  BY <1>1, <1>2 DEF Purged

\* Processing sends what was held and what is filled (xa_base_process).
LEMMA Processing ==
    ASSUME NEW o \in Objects, NEW c \in Components
    PROVE  Handles(c, Process(o, c))
<1> DEFINE d == [c EXCEPT !.scheduled = FALSE,
                          !.held = IF @ = <<>> THEN @ ELSE Tail(@),
                          !.home = IF CanFill(c) THEN @ - 1 ELSE @,
                          !.filled = IF CanFill(c) THEN @ + 1 ELSE @]
           back == IF c.held = <<>> THEN <<>> ELSE <<Completed(Head(c.held))>>
           sent == IF CanFill(c) THEN <<Filled(o, c)>> ELSE <<>>
           v == d.held # <<>> \/ CanFill(d)
           e == [d EXCEPT !.scheduled = v]
<1>1. Later(c, d)
  <2> DEFINE h == IF c.held = <<>> THEN c.held ELSE Tail(c.held)
             n == IF CanFill(c) THEN c.home - 1 ELSE c.home
             f == IF CanFill(c) THEN c.filled + 1 ELSE c.filled
  <2>1. h \in Seq(AnyMessage) /\ n \in Int /\ f \in Nat
    BY FieldTypes
  <2>2. d = [c EXCEPT !.scheduled = FALSE, !.held = h, !.home = n, !.filled = f]
    OBVIOUS
  <2> HIDE DEF h, n, f
  <2> QED
    BY <2>1, <2>2 DEF Components, Later
<1>2. back \in Seq(AnyMessage)
  <2>1. ASSUME c.held # <<>> PROVE Completed(Head(c.held)) \in AnyMessage
    <3>1. Head(c.held) \in AnyMessage
      BY <2>1, FieldTypes
    <3> QED
      BY <3>1, Answers
  <2> DEFINE a == Completed(Head(c.held))
  <2> HIDE DEF a
  <2>2. CASE c.held = <<>>
    BY <2>2
  <2>3. CASE c.held # <<>>
    BY <2>1, <2>3 DEF a
  <2> QED
    BY <2>2, <2>3
<1>3. sent \in Seq(AnyMessage)
  <2>1. Filled(o, c) \in AnyMessage
    <3>1. c.id \in Addresses /\ c.peer \in Addresses /\ c.filled + 1 \in Nat /\ o \in Nat
      BY FieldTypes, Nothing
    <3>2. "EMPTY" \in Operations \ {"ROUTE"}
      BY DEF Operations
    <3> QED
      BY <3>1, <3>2, NewMessage DEF Filled
  <2> HIDE DEF Filled
  <2> QED
    BY <2>1
<1>4. v \in BOOLEAN
  BY DEF CanFill
<1> HIDE DEF d, back, sent
<1> HIDE DEF v
<1>5. Later(c, e) /\ Later(c, Cancel(c))
  BY <1>1, <1>4, Fields DEF Later, Cancel
<1> DEFINE out == back \o sent
<1> HIDE DEF e
<1>6. out \in Seq(AnyMessage) /\ <<>> \in Seq(AnyMessage)
  BY <1>2, <1>3
<1> HIDE DEF out
<1>7. Process(o, c) = IF c.terminating THEN Result(Cancel(c), <<>>, "ok")
                      ELSE Result(e, out, "ok")
  BY DEF Process, d, back, sent, v, e, out
<1>8. CASE c.terminating
  <2>1. Process(o, c) = Result(Cancel(c), <<>>, "ok")
    BY <1>7, <1>8
  <2>2. Process(o, c).c = Cancel(c) /\ Process(o, c).out = <<>>
    BY <2>1, ResultParts
  <2> QED
    BY <1>5, <1>6, <2>2 DEF Handles
<1>9. CASE ~c.terminating
  <2>1. Process(o, c) = Result(e, out, "ok")
    BY <1>7, <1>9
  <2>2. Process(o, c).c = e /\ Process(o, c).out = out
    BY <2>1, ResultParts
  <2> QED
    BY <1>5, <1>6, <2>2 DEF Handles
<1> QED
  BY <1>8, <1>9

\* A result made of a component and messages is one.
LEMMA Handled ==
    ASSUME NEW c, NEW d, NEW out \in Seq(AnyMessage), NEW ret, Later(c, d)
    PROVE  Handles(c, Result(d, out, ret))
  BY ResultParts DEF Handles

\* One message, or none, to be sent.
LEMMA Singly ==
    /\ <<>> \in Seq(AnyMessage)
    /\ \A m \in AnyMessage : <<m>> \in Seq(AnyMessage)
    /\ \A s \in Seq(AnyMessage), m \in AnyMessage : Append(s, m) \in Seq(AnyMessage)
    /\ \A s, q \in Seq(AnyMessage) : s \o q \in Seq(AnyMessage)
  OBVIOUS

\* The workers there are are some.
LEMMA SomeWorkers == 0 \in Pool /\ NWorkers - 1 \in Pool /\ Pool \subseteq Nat
  BY WorkersAssumption DEF Pool

\* The first of the parameters of a component (xa_base_command).
LEMMA SettingParam ==
    ASSUME NEW c \in Components, NEW m \in AnyMessage
    PROVE  Handles(c, SetParam(c, m))
<1> DEFINE d == [c EXCEPT !.priority = BasePriority(c)]
           e == [d EXCEPT !.ready = TRUE]
           out == <<Completed(m)>>
<1>1. Later(c, d)
  <2>1. BasePriority(c) \in Pool
    BY FieldTypes, SomeWorkers DEF BasePriority
  <2> QED
    BY <2>1, Fields
<1>2. Later(c, e)
  <2> HIDE DEF d
  <2> QED
    BY <1>1, Fields DEF Later
<1>3. out \in Seq(AnyMessage) /\ <<>> \in Seq(AnyMessage)
  BY Singly, Answers
<1>4. SetParam(c, m) = IF m.arg = Keep THEN Result(e, out, "ok") ELSE Result(d, <<>>, "error")
  BY DEF SetParam
<1> HIDE DEF d, e, out
<1>5. Handles(c, Result(e, out, "ok")) /\ Handles(c, Result(d, <<>>, "error"))
  BY <1>1, <1>2, <1>3, Handled
<1> QED
  BY <1>4, <1>5

\* A route is set up.
LEMMA Routing ==
    ASSUME cmap \in [Clients -> Objects \cup {None}], NEW c \in Components, NEW m \in AnyMessage,
           m.op = "ROUTE"
    PROVE  Later(c, Schedule([c EXCEPT !.peer = m.arg, !.mate = cmap[m.arg], !.home = Buffers]))
<1> DEFINE p == m.arg
           n == cmap[m.arg]
           d == [c EXCEPT !.peer = p, !.mate = n, !.home = Buffers]
<1>1. p \in Addresses /\ n \in Nat
  <2>1. p \in Clients /\ None \in Nat
    BY MessageTypes DEF None
  <2> QED
    BY <2>1, Nothing DEF Addresses
<1>2. Buffers \in Int
  BY WorkersAssumption
<1> HIDE DEF p, n
<1>3. Later(c, d)
  BY <1>1, <1>2 DEF Later, Components
<1> HIDE DEF d
<1>4. Later(c, Schedule(d))
  BY <1>3, Fields DEF Later, Schedule
<1> QED
  BY <1>4 DEF d, p, n

\* Every command leaves a component and messages (xa_base_command).
LEMMA Commanding ==
    ASSUME cmap \in [Clients -> Objects \cup {None}], NEW o \in Objects, NEW c \in Components,
           NEW m \in AnyMessage
    PROVE  Handles(c, Command(o, c, m))
<1> DEFINE route == Schedule([c EXCEPT !.peer = m.arg, !.mate = cmap[m.arg], !.home = Buffers])
           more  == Append(c.held, m)
           empty == Schedule([c EXCEPT !.held = more, !.heard = m.serial])
           home  == c.home + 1
           lost  == [c EXCEPT !.home = home, !.lost = TRUE]
           fill  == Schedule([c EXCEPT !.home = home])
           flush == [c EXCEPT !.held = <<>>]
           back  == Completed(m)
           purge == Append(Purged(c), back)
           one   == <<back>>
<1>1. Later(c, c)
  BY Fields
<1>2. m.op = "ROUTE" => Later(c, route)
  BY Routing
<1>3. Later(c, empty)
  <2>1. more \in Seq(AnyMessage) /\ m.serial \in Nat
    BY FieldTypes, MessageTypes
  <2> HIDE DEF more
  <2> DEFINE d == [c EXCEPT !.held = more, !.heard = m.serial]
  <2>2. Later(c, d)
    BY <2>1 DEF Later, Components
  <2> HIDE DEF d
  <2>3. Later(c, Schedule(d))
    BY <2>2, Fields DEF Later, Schedule
  <2> QED
    BY <2>3 DEF d
<1>4. home \in Int
  BY FieldTypes
<1>5. Later(c, lost) /\ Later(c, fill)
  <2> HIDE DEF home
  <2> DEFINE d == [c EXCEPT !.home = home]
  <2>1. Later(c, lost)
    BY <1>4 DEF Later, Components
  <2>2. Later(c, d)
    BY <1>4, Fields
  <2> HIDE DEF d
  <2>3. Later(c, Schedule(d))
    BY <2>2, Fields DEF Later, Schedule
  <2> QED
    BY <2>1, <2>3 DEF d
<1>6. Later(c, flush)
  BY Singly, Fields
<1>7. back \in AnyMessage
  BY Answers
<1>8. purge \in Seq(AnyMessage) /\ one \in Seq(AnyMessage) /\ <<>> \in Seq(AnyMessage)
  <2> HIDE DEF back
  <2> QED
    BY <1>7, Singly, Purging
<1>9. Command(o, c, m) =
        CASE m.op = "UNREGISTER" -> Result(c, <<>>, "unregister")
          [] m.op = "SET_PARAM" -> SetParam(c, m)
          [] m.op = "ROUTE" -> Result(route, one, "ok")
          [] m.op = "EMPTY" -> Result(empty, <<>>, "ok")
          [] m.op = "FILL"  -> IF m.gone \/ m.error THEN Result(lost, <<>>, "ok")
                               ELSE Result(fill, <<>>, "ok")
          [] m.op = "FLUSH" -> Result(flush, purge, "ok")
          [] OTHER -> Result(c, one, "ok")
  BY DEF Command
<1> HIDE DEF route, empty, lost, fill, flush, purge, one, back, home, more
<1>10. /\ Handles(c, Result(c, <<>>, "unregister")) /\ Handles(c, SetParam(c, m))
       /\ m.op = "ROUTE" => Handles(c, Result(route, one, "ok"))
       /\ Handles(c, Result(empty, <<>>, "ok"))
       /\ Handles(c, Result(lost, <<>>, "ok")) /\ Handles(c, Result(fill, <<>>, "ok"))
       /\ Handles(c, Result(flush, purge, "ok")) /\ Handles(c, Result(c, one, "ok"))
  BY <1>1, <1>2, <1>3, <1>5, <1>6, <1>8, Handled, SettingParam
<1>11. CASE m.op \in {"UNREGISTER", "SET_PARAM", "ROUTE", "EMPTY", "FILL", "FLUSH"}
  BY <1>9, <1>10, <1>11
<1>12. CASE m.op \notin {"UNREGISTER", "SET_PARAM", "ROUTE", "EMPTY", "FILL", "FLUSH"}
  <2>1. Command(o, c, m) = Result(c, one, "ok")
    BY <1>9, <1>12
  <2> QED
    BY <1>10, <2>1
<1> QED
  BY <1>11, <1>12

\* So does every message that comes while a component waits for its flush
\* (xa_audio_codec_terminate).
LEMMA Terminating ==
    ASSUME NEW o \in Objects, NEW c \in Components, NEW m \in AnyMessage
    PROVE  Handles(c, Terminate(o, c, m))
<1> DEFINE home == c.home + 1
           fill == [c EXCEPT !.home = home]
           back == IF m.src = Proxy THEN ResponseErr(m) ELSE ResponseFailure(m)
           one  == <<back>>
<1>1. Later(c, c) /\ Later(c, fill)
  <2>1. home \in Int
    BY FieldTypes
  <2> HIDE DEF home
  <2> QED
    BY <2>1, Fields
<1>2. back \in AnyMessage
  BY Answers
<1> HIDE DEF back
<1>3. one \in Seq(AnyMessage) /\ <<>> \in Seq(AnyMessage)
  BY <1>2, Singly
<1>4. \/ Terminate(o, c, m) = Result(c, <<>>, "unregister")
      \/ Terminate(o, c, m) = Result(fill, <<>>, "ok")
      \/ Terminate(o, c, m) = Result(c, one, "ok")
  BY DEF Terminate, back
<1> HIDE DEF one, fill
<1> QED
  BY <1>1, <1>3, <1>4, Handled

\* Whatever its entry point is.
LEMMA Entering ==
    ASSUME cmap \in [Clients -> Objects \cup {None}], NEW o \in Objects, NEW c \in Components,
           NEW m \in AnyMessage, NEW fails \in BOOLEAN
    PROVE  Handles(c, Entry(o, c, m, fails))
<1> DEFINE h == Heard(c, m)
           home == IF m.op = "FILL" THEN c.home + 1 ELSE c.home
           d == [c EXCEPT !.home = home]
<1>1. Later(c, h)
  <2>1. Later(c, c) /\ Later(c, [c EXCEPT !.seen = m.serial])
    BY MessageTypes, Fields
  <2> QED
    BY <2>1 DEF Heard
<1>2. Later(c, d)
  <2>1. home \in Int
    BY FieldTypes
  <2> HIDE DEF home
  <2> QED
    BY <2>1, Fields
<1>3. \/ Entry(o, c, m, fails) = Terminate(o, h, m)
      \/ Entry(o, c, m, fails) = Result(d, <<>>, "error")
      \/ Entry(o, c, m, fails) = Command(o, h, m)
  BY DEF Entry
<1> HIDE DEF h, d
<1>4. Handles(h, Terminate(o, h, m)) /\ Handles(h, Command(o, h, m))
  BY <1>1, Terminating, Commanding DEF Later
<1>5. Handles(c, Terminate(o, h, m)) /\ Handles(c, Command(o, h, m))
  BY <1>1, <1>4 DEF Handles, Later
<1>6. Handles(c, Result(d, <<>>, "error"))
  BY <1>2, Handled, Singly
<1> QED
  BY <1>3, <1>5, <1>6

\* What a component does before its end.
LEMMA Exiting ==
    ASSUME NEW o \in Objects, NEW c \in Components, NEW cause \in AnyMessage
    PROVE  Handles(c, Exit(o, c, cause))
<1> DEFINE b == [c EXCEPT !.held = <<>>, !.cause = cause]
           d == Cancel(b)
           e == [d EXCEPT !.terminating = TRUE]
           f == Message("FLUSH", c.id, c.peer, o, 0)
           out == Append(Purged(c), f)
<1>1. Later(c, b)
  <2>1. <<>> \in Seq(AnyMessage)
    BY Singly
  <2> QED
    BY <2>1 DEF Later, Components
<1> HIDE DEF b
<1>2. Later(c, d)
  BY <1>1, Fields DEF Later, Cancel
<1> HIDE DEF d
<1>3. Later(c, e)
  BY <1>2, Fields DEF Later
<1>4. f \in AnyMessage
  <2>1. /\ c.id \in Addresses /\ c.peer \in Addresses /\ o \in Nat /\ 0 \in Nat
        /\ "FLUSH" \in Operations \ {"ROUTE"}
    BY FieldTypes, Nothing DEF Operations
  <2> QED
    BY <2>1, NewMessage
<1> HIDE DEF f
<1>5. Purged(c) \in Seq(AnyMessage) /\ out \in Seq(AnyMessage) /\ <<>> \in Seq(AnyMessage)
  BY <1>4, Purging, Singly
<1>6. \/ Exit(o, c, cause).c = c /\ Exit(o, c, cause).out = <<>>
      \/ Exit(o, c, cause).c = e /\ Exit(o, c, cause).out = out
      \/ Exit(o, c, cause).c = d /\ Exit(o, c, cause).out = Purged(c)
  BY DEF Exit, b, d, f
<1> HIDE DEF e, out
<1> QED
  BY <1>2, <1>3, <1>5, <1>6, Fields DEF Handles

\* A component has been given a message (xf_core_process_message).
LEMMA GivenMessage ==
    ASSUME cmap \in [Clients -> Objects \cup {None}], NEW o \in Objects, NEW c \in Components,
           NEW m \in AnyMessage, NEW fails \in BOOLEAN
    PROVE  Handles(c, ProcessMessage(o, c, m, fails))
<1> DEFINE r == Entry(o, c, m, fails)
           n == [m EXCEPT !.error = TRUE]
           cause == IF r.ret = "unregister" THEN m ELSE NoMsg
           e == Exit(o, r.c, cause)
           refused == IF r.ret = "error" /\ m.op # "FILL" THEN <<ResponseFailure(n)>> ELSE <<>>
           failed == Append(r.out, ResponseErr(n))
           ended == r.out \o refused \o e.out
           p == ProcessMessage(o, c, m, fails)
<1>1. Handles(c, r)
  BY Entering
<1>2. ResponseErr(n) \in AnyMessage /\ ResponseFailure(n) \in AnyMessage
  <2>1. n \in AnyMessage
    BY Answers
  <2> HIDE DEF n
  <2> QED
    BY <2>1, Answers
<1>3. cause \in AnyMessage
  BY Nothing
<1>4. \/ p.c = r.c /\ p.out = r.out
      \/ p.c = r.c /\ p.out = failed
      \/ p.c = e.c /\ p.out = ended
  <2>1. p = CASE r.ret = "ok" -> [c |-> r.c, out |-> r.out, destroyed |-> FALSE]
              [] r.ret = "error" /\ m.src = Proxy ->
                    [c |-> r.c, out |-> failed, destroyed |-> FALSE]
              [] OTHER -> [c |-> e.c, out |-> ended, destroyed |-> e.destroyed]
    BY DEF ProcessMessage
  <2> HIDE DEF p, r, e, failed, ended
  <2>2. \/ p = [c |-> r.c, out |-> r.out, destroyed |-> FALSE]
        \/ p = [c |-> r.c, out |-> failed, destroyed |-> FALSE]
        \/ p = [c |-> e.c, out |-> ended, destroyed |-> e.destroyed]
    BY <2>1, Zenon
  <2> QED
    BY <2>2
<1> HIDE DEF r, cause, n
<1>5. Handles(r.c, e)
  BY <1>1, <1>3, Exiting DEF Handles, Later
<1> HIDE DEF e
<1>6. refused \in Seq(AnyMessage) /\ failed \in Seq(AnyMessage)
  BY <1>1, <1>2, Singly DEF Handles
<1> HIDE DEF refused
<1>7. ended \in Seq(AnyMessage)
  BY <1>1, <1>5, <1>6, Singly DEF Handles
<1> HIDE DEF p, failed, ended
<1>8. Handles(c, p)
  BY <1>1, <1>4, <1>5, <1>6, <1>7 DEF Handles, Later
<1> QED
  BY <1>8 DEF p

-----------------------------------------------------------------------------
(* Steps that leave the table as it is, and create no component *)

NoNewLives ==
    \A o \in Objects :
        /\ comp'[o].life = "none" <=> comp[o].life = "none"
        /\ comp[o].life = "dead" => comp'[o].life = "dead"
        /\ comp'[o].life = "live" => comp[o].life = "live" /\ comp'[o].id = comp[o].id

\* Then the table is as sound as before.
LEMMA SameTable ==
    ASSUME IInv, NoNewLives, UNCHANGED <<cmap, free>>
    PROVE  /\ TableSound' /\ Named' /\ Numbered'
           /\ NextObject' = NextObject
           /\ \A e \in Entries : Addressed(e) => Addressed(e)'
           /\ \A s \in ThreadStates : Sound(s) => Sound(s)'
<1>1. cmap \in [Clients -> Objects \cup {None}] /\ cmap' = cmap /\ free' = free
  BY DEF IInv, Typed
<1>2. \A o \in Objects : Alive(o)' => Alive(o) /\ comp'[o].id = comp[o].id
  BY DEF NoNewLives, Alive
<1>3. TableSound'
  BY <1>1, <1>2 DEF IInv, TableSound
<1>4. Created' = Created
  BY DEF NoNewLives, Created
<1>5. Numbered' /\ NextObject' = NextObject
  BY <1>4 DEF IInv, Numbered, NextObject, Created
<1>6. Named'
  <2>1. ASSUME NEW i \in Clients, cmap'[i] # None
        PROVE  comp'[cmap'[i]].life # "none" /\ (Alive(cmap[i])' => comp'[cmap'[i]].id = i)
    BY <1>1, <1>2, <2>1 DEF IInv, Named, NoNewLives
  <2>2. \A o \in Objects : Alive(o)' => comp'[o].id \in Clients
    BY <1>2 DEF IInv, Named
  <2> QED
    BY <2>1, <2>2 DEF Named
<1>7. \A e \in Entries : Addressed(e) => Addressed(e)'
  <2>1. ASSUME NEW e \in Entries, e # Marker PROVE e.comp \in Objects
    BY <2>1 DEF Entries
  <2> QED
    BY <1>2, <2>1 DEF Addressed, NoNewLives
<1>8. \A s \in ThreadStates : Sound(s) => Sound(s)'
  <2>1. ASSUME NEW s \in ThreadStates, Sound(s) PROVE Sound(s)'
    <3>1. Addressed(s.item)'
      BY <1>7, <2>1 DEF ThreadStates, Sound
    <3>2. s.then = "purge" => comp'[s.comp].life = "dead"
      BY <2>1 DEF Sound, NoNewLives
    <3> QED
      BY <1>1, <2>1, <3>1, <3>2 DEF Sound
  <2> QED
    BY <2>1
<1> QED
  BY <1>3, <1>5, <1>6, <1>7, <1>8

\* what a thread makes of itself is in order, and so is what it tells of the
\* application
Goes(t) == \E s \in ThreadStates : Sound(s) /\ th' = [th EXCEPT ![t] = s]
Tells   == app' \in Applications /\ app'.registering = app.registering

\* and what is in the queues of the workers
Queues(q) == q \in [Pool -> Seq(Entries)] /\ \A w \in Pool : AllAddressed(q[w])

\* A step after which all threads are in order, whatever it is that creates a
\* component.
LEMMA TableStep ==
    ASSUME IInv, NoNewLives, UNCHANGED <<cmap, free>>,
           th' \in [Threads -> ThreadStates], \A u \in Threads : Sound(th[u])', Queues(queue'),
           n_workers' \in {0, NWorkers},
           comp' \in [Objects -> Components],
           sched' \in [Threads -> SUBSET Objects],
           local' \in [Pool -> Seq(ToClient)],
           app' \in Applications, app'.registering => NextObject <= MaxObjects,
           interim' \in Seq(AnyMessage), Requests(interim', app'.registering)
    PROVE  IInv'
<1>1. Typed'
  BY DEF IInv, Typed, Queues
<1>2. TableSound' /\ Named' /\ Numbered' /\ NextObject' = NextObject
  BY SameTable
<1>3. Registering'
  BY <1>2 DEF Registering, Requests, Creates
<1>4. ASSUME NEW w \in Pool PROVE AllAddressed(queue[w])'
  <2>1. ASSUME NEW k \in 1 .. Len(queue'[w]) PROVE Addressed(queue[w][k])'
    <3> DEFINE e == queue'[w][k]
    <3>1. e \in Entries /\ Addressed(e)
      BY DEF AllAddressed, Queues
    <3> QED
      BY <3>1, SameTable
  <2> QED
    BY <2>1 DEF AllAddressed
<1> QED
  BY <1>1, <1>2, <1>3, <1>4 DEF IInv

\* A step of a thread that is in order after it by what was before.
LEMMA ThreadStep ==
    ASSUME IInv, NoNewLives, UNCHANGED <<cmap, free>>,
           NEW t \in Threads, Goes(t), Tells, Queues(queue'),
           n_workers' \in {0, NWorkers},
           comp' \in [Objects -> Components],
           sched' \in [Threads -> SUBSET Objects],
           local' \in [Pool -> Seq(ToClient)],
           interim' \in Seq(AnyMessage), Requests(interim', app.registering)
    PROVE  IInv'
<1>1. th' \in [Threads -> ThreadStates] /\ \A u \in Threads : Sound(th'[u])
  <2>1. PICK s \in ThreadStates : Sound(s) /\ th' = [th EXCEPT ![t] = s]
    BY DEF Goes
  <2> QED
    BY <2>1 DEF IInv, Typed
<1>2. ASSUME NEW u \in Threads PROVE Sound(th[u])'
  <2>1. th'[u] \in ThreadStates /\ Sound(th'[u])
    BY <1>1
  <2> QED
    BY <2>1, SameTable
<1>3. app' \in Applications /\ (app'.registering => NextObject <= MaxObjects) /\ Requests(interim', app'.registering)
  BY DEF IInv, Registering, Tells
<1> QED
  BY <1>1, <1>2, <1>3, TableStep

\* A thread that only goes on.
LEMMA Going ==
    ASSUME IInv, NEW t \in Threads, Goes(t),
           UNCHANGED <<n_workers, interim, queue, local, sched, cmap, free, comp, app>>
    PROVE  IInv'
<1>1. Tells /\ Queues(queue') /\ NoNewLives
  BY DEF IInv, Typed, Tells, Queues, NoNewLives
<1>2. Requests(interim', app.registering)
  BY DEF IInv, Registering
<1> QED
  BY <1>1, <1>2, ThreadStep DEF IInv, Typed

\* An answer changes what is open, and a failure is counted.
LEMMA Answering ==
    ASSUME IInv
    PROVE  /\ \A m \in AnyMessage : app' = Answered(m) => Tells
           /\ app' = app => Tells
           /\ app' = [app EXCEPT !.fails = @ + 1] => Tells
<1>1. app \in Applications
  BY DEF IInv, Typed
<1>2. ASSUME NEW S \in SUBSET Nat, app' = [app EXCEPT !.open = S] PROVE Tells
  BY <1>1, <1>2 DEF Applications, Tells
<1>3. ASSUME NEW n \in Nat, app' = [app EXCEPT !.fails = n] PROVE Tells
  BY <1>1, <1>3 DEF Applications, Tells
<1>4. app.open \in SUBSET Nat /\ app.fails + 1 \in Nat
  BY <1>1 DEF Applications
<1>5. \A m : app.open \ {m.serial} \in SUBSET Nat
  BY <1>4
<1> QED
  BY <1>1, <1>2, <1>3, <1>4, <1>5 DEF Answered, Tells

\* Entries are added to a queue, taken from it, and put behind.
LEMMA Queueing ==
    ASSUME IInv, NEW w
    PROVE  /\ Queues(queue) /\ Queues(Dropped(w))
           /\ \A e \in Entries : Addressed(e) => Queues([queue EXCEPT ![w] = Append(@, e)])
           /\ w \in Pool /\ queue[w] # <<>> =>
                Head(queue[w]) \in Entries /\ Addressed(Head(queue[w])) /\ Queues(Rotated(w, Head(queue[w])))
<1>1. Queues(queue)
  BY DEF IInv, Typed, Queues
<1>2. ASSUME NEW s \in Seq(Entries), AllAddressed(s), NEW v \in Pool
      PROVE  Queues([queue EXCEPT ![v] = s])
  BY <1>1, <1>2 DEF Queues
<1>3. ASSUME NEW s \in Seq(Entries), AllAddressed(s)
      PROVE  /\ \A e \in Entries : Addressed(e) => Append(s, e) \in Seq(Entries) /\ AllAddressed(Append(s, e))
             /\ s # <<>> => /\ Head(s) \in Entries /\ Addressed(Head(s))
                            /\ Tail(s) \in Seq(Entries) /\ AllAddressed(Tail(s))
  BY <1>3 DEF AllAddressed
<1>4. \A v : v \notin Pool => \A s : [queue EXCEPT ![v] = s] = queue
  BY DEF IInv, Typed
<1>5. CASE w \notin Pool
  BY <1>1, <1>4, <1>5 DEF Dropped
<1>6. CASE w \in Pool
  <2>1. queue[w] \in Seq(Entries) /\ AllAddressed(queue[w])
    BY <1>1, <1>6 DEF Queues
  <2>2. Queues(Dropped(w))
    BY <1>1, <1>2, <1>3, <1>6, <2>1 DEF Dropped
  <2>3. ASSUME NEW e \in Entries, Addressed(e) PROVE Queues([queue EXCEPT ![w] = Append(@, e)])
    BY <1>2, <1>3, <1>6, <2>1, <2>3
  <2>4. ASSUME queue[w] # <<>>
        PROVE  Head(queue[w]) \in Entries /\ Addressed(Head(queue[w])) /\ Queues(Rotated(w, Head(queue[w])))
    <3> DEFINE e == Head(queue[w])
               r == Tail(queue[w])
    <3>1. e \in Entries /\ Addressed(e) /\ r \in Seq(Entries) /\ AllAddressed(r)
      BY <1>3, <2>1, <2>4
    <3>2. Rotated(w, e) = [queue EXCEPT ![w] = Append(r, e)]
      BY DEF Rotated
    <3> HIDE DEF e, r
    <3>3. Append(r, e) \in Seq(Entries) /\ AllAddressed(Append(r, e))
      BY <1>3, <3>1
    <3>4. Queues(Rotated(w, e))
      BY <1>2, <1>6, <3>2, <3>3
    <3> QED
      BY <3>1, <3>4 DEF e
  <2> QED
    BY <1>1, <2>2, <2>3, <2>4
<1> QED
  BY <1>5, <1>6

\* What a thread is, and what it has to send.
LEMMA ThreadTypes ==
    ASSUME IInv, NEW t \in Threads
    PROVE  /\ th[t] \in ThreadStates /\ Sound(th[t])
           /\ th[t].comp \in Objects \cup {None} /\ th[t].todo \in Seq(AnyMessage)
           /\ th[t].then \in {"drain", "exit", "purge", "move"} /\ th[t].item \in Entries
           /\ th[t].q \in Pool /\ th[t].to \in Pool /\ th[t].target \in Pool
           /\ th[t].rescheds \in BOOLEAN /\ th[t].raised \in BOOLEAN
           /\ th[t].todo # <<>> => Head(th[t].todo) \in AnyMessage /\ Tail(th[t].todo) \in Seq(AnyMessage)
<1>1. th[t] \in ThreadStates /\ Sound(th[t])
  BY DEF IInv, Typed
<1>2. /\ th[t].comp \in Objects \cup {None} /\ th[t].todo \in Seq(AnyMessage)
      /\ th[t].then \in {"drain", "exit", "purge", "move"} /\ th[t].item \in Entries
      /\ th[t].q \in Pool /\ th[t].to \in Pool /\ th[t].target \in Pool
      /\ th[t].rescheds \in BOOLEAN /\ th[t].raised \in BOOLEAN
  BY <1>1 DEF ThreadStates
<1> QED
  BY <1>1, <1>2

\* An idle thread, or one that begins something, is in order.
LEMMA Beginning ==
    Idle \in ThreadStates /\ Idle.then = "drain" /\ Idle.item = Marker /\ Idle.comp = None
<1>1. Marker = NoItem /\ <<>> \in Seq(AnyMessage) /\ 0 \in Pool /\ None \in Addresses /\ NoItem \in Entries
  BY Nothing, Singly, SomeWorkers DEF Marker
<1> QED
  BY <1>1 DEF Idle, ThreadStates, Stages

\* A thread that rests.
LEMMA Resting ==
    ASSUME IInv, NEW t \in Threads, NEW v \in BOOLEAN,
           \/ th' = [th EXCEPT ![t] = Rest(t)]
           \/ th' = [th EXCEPT ![t] = [Rest(t) EXCEPT !.raised = v]]
    PROVE  Goes(t) /\ th'[t].then = "drain"
<1> DEFINE pc == After(t)
           d(x) == [Idle EXCEPT !.pc = pc, !.raised = x]
<1>1. pc \in Stages \ {"changed"}
  BY DEF After, Stages
<1>2. PICK x \in BOOLEAN : th' = [th EXCEPT ![t] = d(x)]
  <2>1. th[t].raised \in BOOLEAN /\ Rest(t) = d(th[t].raised)
    BY ThreadTypes DEF Rest
  <2>2. [Rest(t) EXCEPT !.raised = v] = d(v)
    <3>1. Idle \in ThreadStates
      BY Beginning
    <3> HIDE DEF pc
    <3>2. Rest(t) = d(th[t].raised)
      BY <2>1
    <3> QED
      BY <3>1, <3>2 DEF ThreadStates
  <2> HIDE DEF d
  <2> QED
    BY <2>1, <2>2
<1> HIDE DEF pc
<1>3. d(x) \in ThreadStates /\ d(x).then = "drain" /\ d(x).item = Marker
  BY <1>1, Beginning DEF ThreadStates
<1> HIDE DEF d
<1>4. Sound(d(x))
  BY <1>3 DEF Sound, Addressed
<1>5. th'[t] = d(x)
  BY <1>2 DEF IInv, Typed
<1> QED
  BY <1>2, <1>3, <1>4, <1>5 DEF Goes

\* A thread that goes on with what it does, or is done with it: it may have
\* other messages to send, or an entry for another queue.
LEMMA Onward ==
    ASSUME IInv, NEW t \in Threads, NEW s \in ThreadStates, th' = [th EXCEPT ![t] = s],
           s.comp = th[t].comp, s.client = th[t].client, s.then \in {"drain", th[t].then},
           s.pc = "changed" => th[t].pc = "changed", Addressed(s.item)
    PROVE  Goes(t)
<1>1. Sound(th[t])
  BY ThreadTypes
<1>2. Sound(s)
  BY <1>1 DEF Sound
<1> QED
  BY <1>2 DEF Goes

\* A message that has nobody to go to.
LEMMA Bouncing ==
    ASSUME IInv, NEW t \in Threads, NEW m \in AnyMessage, NEW returns, NEW rest \in Seq(AnyMessage),
           NEW then \in {"drain", th[t].then}, Bounce(t, m, returns, rest, then)
    PROVE  Goes(t) /\ Tells
<1> DEFINE back == IF returns THEN <<ResponseFailure(m)>> ELSE <<>>
           todo == back \o rest
<1>1. ResponseFailure(m) \in AnyMessage
  BY Answers
<1>2. todo \in Seq(AnyMessage)
  BY <1>1, Singly
<1>3. Tells
  <2>1. app' = Answered(m) \/ app' = app
    BY DEF Bounce
  <2> QED
    BY <2>1, Answering
<1> DEFINE s == [th[t] EXCEPT !.pc = "submit", !.todo = todo, !.then = then]
<1>4. th' = [th EXCEPT ![t] = s]
  BY DEF Bounce, IInv, Typed
<1> HIDE DEF todo
<1>5. th[t] \in ThreadStates /\ Addressed(th[t].item) /\ then \in {"drain", "exit", "purge", "move"}
  BY ThreadTypes DEF Sound
<1>6. /\ s \in ThreadStates /\ s.comp = th[t].comp /\ s.client = th[t].client /\ s.then = then
      /\ s.item = th[t].item /\ s.pc = "submit"
  BY <1>2, <1>5 DEF ThreadStates, Stages
<1> HIDE DEF s
<1>7. Goes(t)
  BY <1>4, <1>5, <1>6, Onward
<1> QED
  BY <1>3, <1>7

\* What the table names for a message is what it is sent with.
LEMMA Addressing ==
    ASSUME IInv, NEW m \in AnyMessage, m.dst # Proxy, cmap[m.dst] # None
    PROVE  /\ m \in ToClient /\ cmap[m.dst] \in Objects
           /\ comp[cmap[m.dst]] \in Components /\ comp[cmap[m.dst]].priority \in Pool
           /\ [comp |-> cmap[m.dst], msg |-> m] \in Entries
           /\ Addressed([comp |-> cmap[m.dst], msg |-> m])
<1> DEFINE o == cmap[m.dst]
           e == [comp |-> o, msg |-> m]
<1>1. m \in ToClient
  BY MessageTypes DEF ToClient, Addresses
<1>2. m.dst \in Clients
  BY <1>1 DEF ToClient
<1>3. o \in Objects
  BY <1>2 DEF IInv, Typed
<1>4. comp[o] \in Components /\ comp[o].priority \in Pool
  BY <1>3, FieldTypes DEF IInv, Typed
<1>5. comp[o].life # "none" /\ (Alive(o) => comp[o].id = m.dst)
  BY <1>2 DEF IInv, Named
<1> HIDE DEF o
<1>6. e \in Entries /\ e.comp = o /\ e.msg = m
  BY <1>1, <1>3 DEF Entries
<1> HIDE DEF e
<1>7. Addressed(e)
  BY <1>5, <1>6 DEF Addressed
<1> QED
  BY <1>1, <1>3, <1>4, <1>6, <1>7 DEF e, o

\* A message is sent on, to the application, another component or nobody.
LEMMA Submitting ==
    ASSUME IInv, NEW t \in Threads, Submit(t)
    PROVE  IInv'
<1> DEFINE m == Head(th[t].todo)
           rest == Tail(th[t].todo)
<1>1. m \in AnyMessage /\ rest \in Seq(AnyMessage) /\ th[t].todo # <<>>
  BY ThreadTypes DEF Submit
<1>2. /\ \/ ToApplication(t, m, rest) \/ ToInterim(t, m, rest) \/ ToLocal(t, m, rest)
         \/ ToWorker(t, m, rest) \/ ToNobody(t, m, rest)
      /\ UNCHANGED <<n_workers, queue, cmap, free>>
  BY DEF Submit
<1> HIDE DEF m, rest
<1>3. /\ th[t] \in ThreadStates /\ th[t].then \in {"drain", th[t].then} /\ Addressed(th[t].item)
      /\ th \in [Threads -> ThreadStates]
  BY ThreadTypes DEF Sound, IInv, Typed
<1>4. ASSUME th' = [th EXCEPT ![t].todo = rest] PROVE Goes(t)
  <2> DEFINE s == [th[t] EXCEPT !.todo = rest]
  <2>1. th' = [th EXCEPT ![t] = s]
    BY <1>3, <1>4
  <2>2. /\ s \in ThreadStates /\ s.comp = th[t].comp /\ s.client = th[t].client /\ s.then = th[t].then
        /\ s.item = th[t].item /\ s.pc = th[t].pc
    BY <1>1, <1>3 DEF ThreadStates
  <2> HIDE DEF s
  <2> QED
    BY <1>3, <2>1, <2>2, Onward
<1>5. comp' = comp /\ sched' = sched
  BY <1>2 DEF ToApplication, ToInterim, ToLocal, ToWorker, Address, ToNobody
<1>6. Goes(t) /\ Tells
  <2>1. CASE ToApplication(t, m, rest)
    BY <1>1, <1>4, <2>1, Answering DEF ToApplication
  <2>2. CASE ToInterim(t, m, rest) \/ ToLocal(t, m, rest)
    BY <1>4, <2>2, Answering DEF ToInterim, ToLocal
  <2>3. CASE ToWorker(t, m, rest)
    <3> DEFINE o == cmap[m.dst]
               e == [comp |-> o, msg |-> m]
               s == [th[t] EXCEPT !.pc = "send", !.item = e, !.to = comp[o].priority, !.todo = rest]
    <3>1. m.dst # Proxy /\ cmap[m.dst] # None
      BY <2>3 DEF ToWorker
    <3>2. e \in Entries /\ Addressed(e) /\ comp[o].priority \in Pool
      BY <1>1, <3>1, Addressing
    <3>5. th' = [th EXCEPT ![t] = s]
      BY <1>3, <2>3 DEF ToWorker, Address
    <3> HIDE DEF e, o
    <3>6. /\ s \in ThreadStates /\ s.comp = th[t].comp /\ s.client = th[t].client /\ s.then = th[t].then
          /\ s.item = e /\ s.pc = "send"
      BY <1>1, <1>3, <3>2 DEF ThreadStates, Stages
    <3> HIDE DEF s
    <3>7. Goes(t)
      BY <1>3, <3>2, <3>5, <3>6, Onward
    <3>8. Tells
      BY <2>3, Answering DEF ToWorker, Address
    <3> QED
      BY <3>7, <3>8
  <2>4. CASE ToNobody(t, m, rest)
    BY <1>1, <1>3, <2>4, Bouncing DEF ToNobody
  <2> QED
    BY <1>2, <2>1, <2>2, <2>3, <2>4
<1>7. local' \in [Pool -> Seq(ToClient)]
  <2>1. CASE ToLocal(t, m, rest)
    <3> DEFINE w == comp[cmap[m.dst]].priority
    <3>1. m \in ToClient
      BY <1>1, <2>1, MessageTypes DEF ToLocal, ToClient, Addresses
    <3>2. local' = [local EXCEPT ![w] = Append(@, m)]
      BY <2>1 DEF ToLocal
    <3> HIDE DEF w
    <3>3. local \in [Pool -> Seq(ToClient)]
      BY DEF IInv, Typed
    <3>4. ASSUME w \in Pool PROVE Append(local[w], m) \in Seq(ToClient)
      BY <3>1, <3>3, <3>4
    <3> QED
      BY <3>2, <3>3, <3>4
  <2>2. CASE ~ToLocal(t, m, rest)
    BY <1>2, <2>2 DEF ToApplication, ToInterim, ToWorker, Address, ToNobody, IInv, Typed
  <2> QED
    BY <2>1, <2>2
<1>8. interim' \in Seq(AnyMessage) /\ Requests(interim', app.registering)
  <2>1. interim \in Seq(AnyMessage) /\ Requests(interim, app.registering)
    BY DEF IInv, Typed, Registering
  <2>2. CASE ToInterim(t, m, rest)
    BY <1>1, <2>1, <2>2 DEF ToInterim, Requests, Creates
  <2>3. CASE ~ToInterim(t, m, rest)
    BY <1>2, <2>1, <2>3 DEF ToApplication, ToLocal, ToWorker, Address, ToNobody
  <2> QED
    BY <2>2, <2>3
<1>9. Queues(queue') /\ NoNewLives
  BY <1>2, <1>5, Queueing DEF NoNewLives
<1> QED
  BY <1>2, <1>5, <1>6, <1>7, <1>8, <1>9, ThreadStep DEF IInv, Typed

\* A thread that touches the queues of the workers only, and maybe tells the
\* application.
LEMMA QueueStep ==
    ASSUME IInv, NEW t \in Threads, Goes(t), Tells, Queues(queue'),
           UNCHANGED <<n_workers, interim, local, sched, cmap, free, comp>>
    PROVE  IInv'
<1>1. NoNewLives /\ Requests(interim', app.registering)
  BY DEF NoNewLives, IInv, Registering
<1> QED
  BY <1>1, ThreadStep DEF IInv, Typed

\* An entry gets its place in a worker's queue.
LEMMA Sending ==
    ASSUME IInv, NEW t \in Threads, Send(t)
    PROVE  IInv'
<1> DEFINE pc == IF th[t].then = "move" THEN "purge" ELSE "submit"
           s  == [th[t] EXCEPT !.item = NoItem, !.pc = pc]
<1>1. /\ th[t] \in ThreadStates /\ th[t].item \in Entries /\ Addressed(th[t].item)
      /\ th \in [Threads -> ThreadStates]
  BY ThreadTypes DEF Sound, IInv, Typed
<1>2. th' = [th EXCEPT ![t] = s]
  BY <1>1 DEF Send
<1>3. NoItem \in Entries /\ Addressed(NoItem) /\ pc \in Stages \ {"changed"}
  BY Nothing DEF Marker, Addressed, Stages
<1> HIDE DEF pc
<1>4. /\ s \in ThreadStates /\ s.comp = th[t].comp /\ s.client = th[t].client /\ s.then = th[t].then
      /\ s.item = NoItem /\ s.pc = pc
  BY <1>1, <1>3 DEF ThreadStates
<1> HIDE DEF s
<1>5. Goes(t)
  BY <1>2, <1>3, <1>4, Onward
<1>6. Queues(queue')
  <2> DEFINE w == th[t].to
             e == th[t].item
  <2>1. queue' = [queue EXCEPT ![w] = Append(@, e)]
    BY DEF Send
  <2> HIDE DEF w, e
  <2>2. e \in Entries /\ Addressed(e)
    BY <1>1 DEF e
  <2> QED
    BY <2>1, <2>2, Queueing
<1>7. Tells
  BY Answering DEF Send
<1> QED
  BY <1>5, <1>6, <1>7, QueueStep DEF Send

\* A thread that is raised, or goes to the next of its stages.
LEMMA Staging ==
    ASSUME IInv, NEW t \in Threads, NEW pc \in Stages \ {"changed"}, NEW raised \in BOOLEAN,
           \/ th' = [th EXCEPT ![t].pc = pc]
           \/ th' = [th EXCEPT ![t].pc = pc, ![t].raised = raised]
    PROVE  Goes(t)
<1> DEFINE s(r) == [th[t] EXCEPT !.pc = pc, !.raised = r]
<1>1. /\ th[t] \in ThreadStates /\ Addressed(th[t].item) /\ th \in [Threads -> ThreadStates]
      /\ th[t].raised \in BOOLEAN
  BY ThreadTypes DEF Sound, IInv, Typed
<1>2. PICK r \in BOOLEAN : th' = [th EXCEPT ![t] = s(r)]
  <2>1. [th[t] EXCEPT !.pc = pc] = s(th[t].raised)
    BY <1>1 DEF ThreadStates
  <2>2. th' = [th EXCEPT ![t] = [th[t] EXCEPT !.pc = pc]] \/ th' = [th EXCEPT ![t] = s(raised)]
    BY <1>1
  <2> HIDE DEF s
  <2> QED
    BY <1>1, <2>1, <2>2
<1>3. /\ s(r) \in ThreadStates /\ s(r).comp = th[t].comp /\ s(r).client = th[t].client
      /\ s(r).then = th[t].then /\ s(r).item = th[t].item /\ s(r).pc = pc
  BY <1>1 DEF ThreadStates
<1> HIDE DEF s
<1> QED
  BY <1>1, <1>2, <1>3, Onward

\* A raised thread, and one that has put its marker behind the queue.
LEMMA RaisingAndMarking ==
    ASSUME IInv, NEW t \in Threads, Raise(t) \/ Mark(t)
    PROVE  IInv'
<1>1. "mark" \in Stages \ {"changed"} /\ "purge" \in Stages \ {"changed"}
  BY DEF Stages
<1>2. CASE Raise(t)
  <2>1. Goes(t)
    BY <1>1, <1>2, Staging DEF Raise
  <2> QED
    BY <1>2, <2>1, Going DEF Raise
<1>3. CASE Mark(t)
  <2>1. Goes(t)
    BY <1>1, <1>3, Staging DEF Mark
  <2>2. Queues(queue')
    <3> DEFINE w == th[t].q
    <3>1. queue' = [queue EXCEPT ![w] = Append(@, Marker)]
      BY <1>3 DEF Mark
    <3> HIDE DEF w
    <3>2. Marker \in Entries /\ Addressed(Marker)
      BY Nothing DEF Addressed
    <3> QED
      BY <3>1, <3>2, Queueing
  <2>3. Tells
    BY <1>3, Answering DEF Mark
  <2> QED
    BY <1>3, <2>1, <2>2, <2>3, QueueStep DEF Mark
<1> QED
  BY <1>2, <1>3

\* The head of the queue a thread goes through is for a component.
LEMMA PassingOn ==
    ASSUME IInv, NEW t \in Threads, ~PassOver(th[t].q)
    PROVE  LET e == Head(queue[th[t].q])
           IN  /\ e \in Entries /\ Addressed(e) /\ e.msg \in AnyMessage
               /\ Queues(Rotated(th[t].q, e)) /\ Queues(Dropped(th[t].q))
<1>1. queue[th[t].q] # <<>> /\ Head(queue[th[t].q]) # Marker /\ th[t].q \in Pool
  BY ThreadTypes DEF PassOver
<1> DEFINE w == th[t].q
           e == Head(queue[w])
<1> HIDE DEF w
<1>2. e \in Entries /\ Addressed(e) /\ Queues(Rotated(w, e)) /\ Queues(Dropped(w)) /\ e # Marker
  BY <1>1, Queueing DEF w
<1> HIDE DEF e
<1>3. e.msg \in AnyMessage
  BY <1>2 DEF Entries, ToClient
<1> QED
  BY <1>2, <1>3 DEF e, w

\* What was for a component that ends is sent back (xf_worker_queue_purge).
LEMMA PurgingQueue ==
    ASSUME IInv, NEW t \in Threads, Purge(t)
    PROVE  IInv'
<1> DEFINE e == Head(queue[th[t].q])
           m == e.msg
<1>1. /\ m \in AnyMessage /\ Queues(Rotated(th[t].q, e)) /\ Queues(Dropped(th[t].q))
      /\ th[t].then = "purge" /\ th[t] \in ThreadStates
  BY PassingOn, ThreadTypes DEF Purge
<1>2. IF m.dst = th[t].client
      THEN queue' = Dropped(th[t].q) /\ Bounce(t, m, SourceAlive(m), <<>>, "purge")
      ELSE queue' = Rotated(th[t].q, e) /\ UNCHANGED <<th, app>>
  BY DEF Purge, PurgeOne
<1> HIDE DEF e, m
<1>3. CASE m.dst = th[t].client
  <2>1. Goes(t) /\ Tells
    BY <1>1, <1>2, <1>3, Bouncing, Singly
  <2> QED
    BY <1>1, <1>2, <1>3, <2>1, QueueStep DEF Purge
<1>4. CASE m.dst # th[t].client
  <2>1. Goes(t) /\ Tells
    <3>1. th' = [th EXCEPT ![t] = th[t]]
      BY <1>2, <1>4 DEF IInv, Typed
    <3> QED
      BY <1>2, <1>4, <3>1, ThreadTypes, Answering DEF Goes
  <2> QED
    BY <1>1, <1>2, <1>4, <2>1, QueueStep DEF Purge
<1> QED
  BY <1>3, <1>4

\* What is for a component that changes its worker is moved there.
LEMMA MovingOne ==
    ASSUME IInv, NEW t \in Threads, Move(t)
    PROVE  IInv'
<1> DEFINE e == Head(queue[th[t].q])
           s == [th[t] EXCEPT !.pc = "send", !.item = e, !.to = th[t].target]
<1>1. /\ e \in Entries /\ Addressed(e) /\ Queues(Rotated(th[t].q, e)) /\ Queues(Dropped(th[t].q))
      /\ th[t] \in ThreadStates /\ th[t].target \in Pool /\ th \in [Threads -> ThreadStates]
  BY PassingOn, ThreadTypes DEF Move, IInv, Typed
<1>2. \/ queue' = Dropped(th[t].q) /\ th' = [th EXCEPT ![t] = s]
      \/ queue' = Rotated(th[t].q, e) /\ th' = th
  BY <1>1 DEF Move, MoveOne
<1> HIDE DEF e
<1>3. /\ s \in ThreadStates /\ s.comp = th[t].comp /\ s.client = th[t].client /\ s.then = th[t].then
      /\ s.item = e /\ s.pc = "send"
  BY <1>1 DEF ThreadStates, Stages
<1> HIDE DEF s
<1>4. Goes(t)
  <2>1. CASE th' = [th EXCEPT ![t] = s]
    BY <1>1, <1>3, <2>1, Onward
  <2>2. CASE th' = th
    <3>1. th' = [th EXCEPT ![t] = th[t]]
      BY <1>1, <2>2
    <3> QED
      BY <3>1, ThreadTypes DEF Goes
  <2> QED
    BY <1>2, <2>1, <2>2
<1>5. Queues(queue')
  BY <1>1, <1>2
<1>6. Tells
  BY Answering DEF Move
<1> QED
  BY <1>4, <1>5, <1>6, QueueStep DEF Move

\* A component goes on, and its task is in the tree of a worker or in none.
LEMMA Changing ==
    ASSUME IInv, NEW o \in Objects, NEW d, Later(comp[o], d)
    PROVE  /\ comp' = [comp EXCEPT ![o] = d] => NoNewLives /\ comp' \in [Objects -> Components]
           /\ Rescheduled(o, d) \in [Threads -> SUBSET Objects]
<1>1. comp \in [Objects -> Components] /\ sched \in [Threads -> SUBSET Objects]
  BY DEF IInv, Typed
<1>2. comp' = [comp EXCEPT ![o] = d] => NoNewLives /\ comp' \in [Objects -> Components]
  BY <1>1 DEF NoNewLives, Later
<1>3. Rescheduled(o, d) \in [Threads -> SUBSET Objects]
  <2> DEFINE w == TreeOf(d)
             a == [sched EXCEPT ![w] = @ \cup {o}]
             b == [sched EXCEPT ![w] = @ \ {o}]
  <2>1. Rescheduled(o, d) \in {a, b, sched}
    BY DEF Rescheduled
  <2> HIDE DEF w
  <2>2. a \in [Threads -> SUBSET Objects] /\ b \in [Threads -> SUBSET Objects]
    BY <1>1
  <2> QED
    BY <1>1, <2>1, <2>2
<1> QED
  BY <1>2, <1>3

\* A thread that changes components and trees, and not the queues.
LEMMA ComponentStep ==
    ASSUME IInv, NEW t \in Threads, Goes(t), Tells, NoNewLives,
           comp' \in [Objects -> Components], sched' \in [Threads -> SUBSET Objects],
           Queues(queue'), local' \in [Pool -> Seq(ToClient)],
           interim' \in Seq(AnyMessage), Requests(interim', app.registering),
           UNCHANGED <<n_workers, cmap, free>>
    PROVE  IInv'
  BY ThreadStep DEF IInv, Typed

\* A component that has changed its priority, or could not
\* (xa_component_setparam).
LEMMA Moved ==
    ASSUME IInv, NEW t \in Threads, MoveOver(t)
    PROVE  IInv'
<1> DEFINE o == th[t].comp
           c == comp[o]
           d == [c EXCEPT !.priority = th[t].target, !.ready = TRUE, !.scheduled = th[t].rescheds]
           s == [th[t] EXCEPT !.pc = "changed", !.then = "drain", !.raised = FALSE]
           u == [th[t] EXCEPT !.pc = "submit", !.then = "drain"]
<1>1. /\ th[t] \in ThreadStates /\ Sound(th[t]) /\ th \in [Threads -> ThreadStates]
      /\ th[t].target \in Pool /\ th[t].rescheds \in BOOLEAN /\ th[t].then = "move"
  BY ThreadTypes DEF IInv, Typed, MoveOver
<1>2. o \in Objects /\ c \in Components
  BY <1>1 DEF Sound, IInv, Typed
<1>3. Later(c, d)
  <2> HIDE DEF c
  <2> QED
    BY <1>1, <1>2 DEF Later, Components
<1>4. \/ /\ comp' = [comp EXCEPT ![o] = d] /\ sched' = Rescheduled(o, d)
         /\ th' = [th EXCEPT ![t] = s]
      \/ comp' = comp /\ sched' = sched /\ th' = [th EXCEPT ![t] = u]
  <2>1. Changed(t, o) \/ NotChanged(t)
    BY DEF MoveOver
  <2>2. CASE Changed(t, o)
    BY <1>1, <2>2 DEF Changed
  <2>3. CASE NotChanged(t)
    BY <1>1, <2>3 DEF NotChanged
  <2> QED
    BY <2>1, <2>2, <2>3
<1>5. Goes(t)
  <2>1. /\ s \in ThreadStates /\ s.then = "drain" /\ s.item = th[t].item
        /\ u \in ThreadStates /\ u.then = "drain" /\ u.item = th[t].item
    BY <1>1 DEF ThreadStates, Stages
  <2> HIDE DEF s, u
  <2>2. Sound(s) /\ Sound(u)
    BY <1>1, <2>1 DEF Sound
  <2> QED
    BY <1>4, <2>1, <2>2 DEF Goes
<1> HIDE DEF d, s, u
<1>6. NoNewLives /\ comp' \in [Objects -> Components] /\ sched' \in [Threads -> SUBSET Objects]
  <2>1. CASE comp' = [comp EXCEPT ![o] = d] /\ sched' = Rescheduled(o, d)
    BY <1>2, <1>3, <2>1, Changing
  <2>2. CASE comp' = comp /\ sched' = sched
    BY <2>2 DEF NoNewLives, IInv, Typed
  <2> QED
    BY <1>4, <2>1, <2>2
<1>7. Queues(queue')
  <2>1. queue' = Dropped(th[t].q)
    BY DEF MoveOver
  <2> QED
    BY <2>1, Queueing
<1>8. Tells /\ Requests(interim', app.registering)
  BY Answering DEF MoveOver, IInv, Registering
<1> QED
  BY <1>5, <1>6, <1>7, <1>8, ComponentStep DEF MoveOver, IInv, Typed

\* A round of processing (xf_core_process).
LEMMA Executing ==
    ASSUME IInv, NEW t \in Threads, Execute(t)
    PROVE  IInv'
<1>1. PICK o \in sched[t] :
        LET r == Process(o, comp[o])
            d == [r.c EXCEPT !.scheduled = FALSE]
        IN  /\ comp' = [comp EXCEPT ![o] = r.c]
            /\ sched' = LET left == [sched EXCEPT ![t] = @ \ {o}]
                        IN  IF r.c.scheduled THEN [left EXCEPT ![TreeOf(d)] = @ \cup {o}] ELSE left
            /\ th' = [th EXCEPT ![t] = [Rest(t) EXCEPT !.pc = "submit", !.comp = o, !.todo = r.out]]
  BY DEF Execute
<1>2. o \in Objects /\ comp[o] \in Components /\ sched \in [Threads -> SUBSET Objects]
  BY DEF IInv, Typed
<1> DEFINE r == Process(o, comp[o])
           w == TreeOf([r.c EXCEPT !.scheduled = FALSE])
           left == [sched EXCEPT ![t] = @ \ {o}]
           out == r.out
           raised == th[t].raised
           s == [Idle EXCEPT !.pc = "submit", !.raised = raised, !.comp = o, !.todo = out]
<1>3. Handles(comp[o], r)
  BY <1>2, Processing
<1>4. /\ comp' = [comp EXCEPT ![o] = r.c]
      /\ sched' \in {left, [left EXCEPT ![w] = @ \cup {o}]}
      /\ th' = [th EXCEPT ![t] = [Rest(t) EXCEPT !.pc = "submit", !.comp = o, !.todo = out]]
  BY <1>1
<1> HIDE DEF w, r
<1>5. NoNewLives /\ comp' \in [Objects -> Components]
  BY <1>2, <1>3, <1>4, Changing DEF Handles
<1>6. sched' \in [Threads -> SUBSET Objects]
  <2>1. left \in [Threads -> SUBSET Objects]
    BY <1>2
  <2> HIDE DEF left
  <2> QED
    BY <1>2, <1>4, <2>1
<1>7. Goes(t)
  <2>1. out \in Seq(AnyMessage) /\ raised \in BOOLEAN
    BY <1>3, ThreadTypes DEF Handles
  <2>2. [Rest(t) EXCEPT !.pc = "submit", !.comp = o, !.todo = out] = s
    <3> DEFINE a == After(t)
    <3>1. Rest(t) = [Idle EXCEPT !.pc = a, !.raised = raised]
      BY DEF Rest
    <3> HIDE DEF a, raised, out
    <3>2. Idle \in ThreadStates
      BY Beginning
    <3> QED
      BY <3>1, <3>2 DEF ThreadStates
  <2> HIDE DEF out, raised
  <2>3. s \in ThreadStates /\ s.then = "drain" /\ s.item = Marker
    BY <1>2, <2>1, Beginning DEF ThreadStates, Stages
  <2>4. th' = [th EXCEPT ![t] = s]
    BY <1>4, <2>2
  <2> HIDE DEF s
  <2> QED
    BY <2>3, <2>4 DEF Goes, Sound, Addressed
<1>8. Queues(queue') /\ Tells /\ Requests(interim', app.registering)
  BY Queueing, Answering DEF Execute, IInv, Registering
<1> QED
  BY <1>5, <1>6, <1>7, <1>8, ComponentStep DEF Execute, IInv, Typed

\* What a thread does with a component and a message leaves all in order, if
\* the component has the id the message is for.
Entered(t) ==
    /\ Goes(t) /\ Tells /\ NoNewLives
    /\ comp' \in [Objects -> Components] /\ sched' \in [Threads -> SUBSET Objects]

\* The component handles the message.
LEMMA Handling ==
    ASSUME IInv, NEW t \in Threads, NEW o \in Objects, NEW m \in ToClient, cmap[m.dst] = o,
           NEW fails \in BOOLEAN, Handle(t, o, m, fails)
    PROVE  Entered(t)
<1> DEFINE r == ProcessMessage(o, comp[o], m, fails)
           out == r.out
           then == IF r.destroyed THEN "exit" ELSE "drain"
           q == comp[o].priority
           client == m.dst
           raised == th[t].raised
           s == [Idle EXCEPT !.pc = "submit", !.comp = o, !.todo = out, !.then = then,
                             !.client = client, !.q = q, !.raised = raised]
<1>1. /\ cmap \in [Clients -> Objects \cup {None}] /\ comp[o] \in Components
      /\ th \in [Threads -> ThreadStates] /\ m \in AnyMessage /\ client \in Clients
  BY DEF IInv, Typed, ToClient
<1>2. Handles(comp[o], r)
  BY <1>1, GivenMessage
<1>3. comp' = [comp EXCEPT ![o] = r.c] /\ sched' = Rescheduled(o, r.c)
  BY DEF Handle
<1>4. Tells
  <2>1. app' = app \/ app' = [app EXCEPT !.fails = @ + 1]
    <3>1. app \in Applications
      BY DEF IInv, Typed
    <3>2. app' = [app EXCEPT !.fails = IF fails THEN @ + 1 ELSE @]
      BY DEF Handle
    <3> QED
      BY <3>1, <3>2 DEF Applications
  <2> QED
    BY <2>1, Answering
<1>5. th' = [th EXCEPT ![t] = s]
  BY DEF Handle
<1>6. then \in {"exit", "drain"}
  OBVIOUS
<1> HIDE DEF r, then
<1>7. NoNewLives /\ comp' \in [Objects -> Components] /\ sched' \in [Threads -> SUBSET Objects]
  BY <1>2, <1>3, Changing DEF Handles
<1>8. out \in Seq(AnyMessage) /\ q \in Pool /\ client \in Addresses /\ raised \in BOOLEAN
  BY <1>1, <1>2, FieldTypes, ThreadTypes DEF Handles, Addresses
<1> HIDE DEF out, q, raised
<1>9. /\ s \in ThreadStates /\ s.then = then /\ s.item = Marker /\ s.comp = o /\ s.client = client
      /\ s.pc = "submit"
  BY <1>6, <1>8, Beginning DEF ThreadStates, Stages
<1> HIDE DEF s
<1>10. Sound(s)
  BY <1>1, <1>6, <1>9 DEF Sound, Addressed
<1> QED
  BY <1>4, <1>5, <1>7, <1>9, <1>10 DEF Entered, Goes

\* It changes its priority.
LEMMA ChangingPriority ==
    ASSUME IInv, NEW t \in Threads, NEW o \in Objects, NEW m \in AnyMessage,
           Changes(comp[o], m), ChangePriority(t, o, m)
    PROVE  Entered(t)
<1> DEFINE c == comp[o]
           p == BasePriority(c)
           d == [c EXCEPT !.scheduled = FALSE, !.priority = p, !.seen = m.serial]
           todo == <<Completed(m)>>
           target == m.arg + 1
           rescheds == c.scheduled
           s == [Idle EXCEPT !.pc = "mark", !.comp = o, !.then = "move", !.todo = todo, !.q = p,
                             !.target = target, !.rescheds = rescheds, !.raised = TRUE]
<1>1. c \in Components /\ n_workers \in {0, NWorkers}
  BY DEF IInv, Typed
<1>2. p \in Pool /\ rescheds \in BOOLEAN
  BY <1>1, FieldTypes, SomeWorkers DEF BasePriority
<1>3. target \in Pool
  <2>1. m.arg \in Nat /\ m.arg + 1 < n_workers /\ NWorkers \in Nat
    BY MessageTypes, WorkersAssumption DEF Changes
  <2> QED
    BY <1>1, <2>1 DEF Pool
<1>4. todo \in Seq(AnyMessage)
  BY Answers, Singly
<1>5. /\ comp' = [comp EXCEPT ![o] = d] /\ sched' = Rescheduled(o, d)
      /\ th' = [th EXCEPT ![t] = s] /\ app' = app
  BY DEF ChangePriority
<1> HIDE DEF c, p, todo, target, rescheds
<1>6. Later(c, d)
  <2>1. m.serial \in Nat
    BY MessageTypes
  <2> QED
    BY <1>1, <1>2, <2>1 DEF Later, Components
<1> HIDE DEF d
<1>7. NoNewLives /\ comp' \in [Objects -> Components] /\ sched' \in [Threads -> SUBSET Objects]
  BY <1>5, <1>6, Changing DEF c
<1>8. s \in ThreadStates /\ s.then = "move" /\ s.item = Marker /\ s.comp = o /\ s.pc = "mark"
  BY <1>2, <1>3, <1>4, Beginning DEF ThreadStates, Stages
<1> HIDE DEF s
<1>9. Sound(s)
  BY <1>8 DEF Sound, Addressed
<1> QED
  BY <1>5, <1>7, <1>8, <1>9, Answering DEF Entered, Goes

\* Either of the two.
LEMMA EnteringOne ==
    ASSUME IInv, NEW t \in Threads, NEW o \in Objects, NEW m \in ToClient, cmap[m.dst] = o,
           Enter(t, o, m)
    PROVE  Entered(t)
<1>1. m \in AnyMessage
  BY DEF ToClient
<1>2. CASE Changes(comp[o], m)
  BY <1>1, <1>2, ChangingPriority DEF Enter
<1>3. CASE ~Changes(comp[o], m)
  <2>1. PICK fails \in Outcomes(m) : Handle(t, o, m, fails)
    BY <1>3 DEF Enter
  <2>2. fails \in BOOLEAN
    BY DEF Outcomes
  <2> QED
    BY <2>1, <2>2, Handling
<1> QED
  BY <1>2, <1>3

\* A message was not misused if its component is still there, and then it has
\* the id.
LEMMA NotMisused ==
    ASSUME IInv, NoMisuse', NEW t \in Threads, NEW e \in Entries, e # Marker, Addressed(e),
           Enter(t, e.comp, e.msg)
    PROVE  e.comp \in Objects /\ e.msg \in ToClient /\ cmap[e.msg.dst] = e.comp
<1>1. e.comp \in Objects /\ e.msg \in ToClient
  BY DEF Entries
<1>2. comp[e.comp].life = "live"
  <2>1. "executed after its release" \notin wrong'
    BY DEF NoMisuse
  <2>2. wrong' = wrong \cup Misuse(e.comp, e.msg)
    BY DEF Enter
  <2> QED
    BY <2>1, <2>2 DEF Misuse
<1>3. Alive(e.comp) /\ comp[e.comp].id = e.msg.dst
  BY <1>1, <1>2, Nothing DEF Addressed, Alive
<1>4. cmap[comp[e.comp].id] = e.comp
  BY <1>1, <1>3 DEF IInv, TableSound
<1> QED
  BY <1>1, <1>3, <1>4

\* A worker takes a message from its queue.
LEMMA Receiving ==
    ASSUME IInv, NoMisuse', NEW w \in Pool, w \in Threads, Runs(w), Receive(w)
    PROVE  IInv'
<1> DEFINE item == Head(queue[w])
           m == item.msg
<1>1. queue[w] # <<>>
  BY DEF Receive, Runs, Ready
<1>2. item \in Entries /\ Addressed(item)
  BY <1>1, Queueing
<1>3. Queues(queue')
  <2>1. queue' = Dropped(w)
    BY DEF Receive
  <2> QED
    BY <2>1, Queueing
<1>4. \/ item = Marker /\ th' = [th EXCEPT ![w].pc = "exited"] /\ UNCHANGED <<sched, comp, app>>
      \/ item # Marker /\ Enter(w, item.comp, m)
      \/ /\ item # Marker /\ Bounce(w, m, SourceAlive(m), <<>>, "drain")
         /\ UNCHANGED <<sched, comp>>
  BY DEF Receive
<1> HIDE DEF item
<1>5. m \in AnyMessage \/ item = Marker
  BY <1>2 DEF Entries, ToClient
<1>6. UNCHANGED <<sched, comp>> =>
        NoNewLives /\ comp' \in [Objects -> Components] /\ sched' \in [Threads -> SUBSET Objects]
  BY DEF NoNewLives, IInv, Typed
<1>7. Entered(w)
  <2>1. CASE item = Marker
    <3>1. "exited" \in Stages \ {"changed"}
      BY DEF Stages
    <3>2. CASE th' = [th EXCEPT ![w].pc = "exited"] /\ UNCHANGED <<sched, comp, app>>
      BY <1>6, <3>1, <3>2, Staging, Answering DEF Entered
    <3> QED
      BY <1>4, <2>1, <3>2
  <2>2. CASE item # Marker /\ Enter(w, item.comp, m)
    BY <1>2, <2>2, NotMisused, EnteringOne
  <2>3. CASE item # Marker /\ Bounce(w, m, SourceAlive(m), <<>>, "drain") /\ UNCHANGED <<sched, comp>>
    BY <1>5, <1>6, <2>3, Bouncing, Singly DEF Entered
  <2> QED
    BY <1>4, <2>1, <2>2, <2>3
<1>8. Requests(interim', app.registering)
  BY DEF Receive, IInv, Registering
<1> QED
  BY <1>3, <1>7, <1>8, ComponentStep DEF Entered, Receive, IInv, Typed

\* A worker takes a message from its local queue.
LEMMA Draining ==
    ASSUME IInv, NEW w \in Pool, w \in Threads, Drain(w)
    PROVE  IInv'
<1> DEFINE m == Head(local[w])
<1>1. m \in ToClient /\ local' \in [Pool -> Seq(ToClient)]
  <2>1. local \in [Pool -> Seq(ToClient)] /\ local[w] # <<>> /\ local' = [local EXCEPT ![w] = Tail(@)]
    BY DEF Drain, IInv, Typed
  <2>2. local[w] \in Seq(ToClient)
    BY <2>1
  <2>3. Tail(local[w]) \in Seq(ToClient) /\ Head(local[w]) \in ToClient
    BY <2>1, <2>2
  <2> QED
    BY <2>1, <2>3
<1>2. \/ cmap[m.dst] # None /\ Enter(w, cmap[m.dst], m)
      \/ Bounce(w, m, SourceAlive(m), <<>>, "drain") /\ UNCHANGED <<sched, comp>>
  BY DEF Drain
<1> HIDE DEF m
<1>3. Entered(w)
  <2>1. CASE cmap[m.dst] # None /\ Enter(w, cmap[m.dst], m)
    <3>1. cmap[m.dst] \in Objects
      BY <1>1, <2>1 DEF ToClient, IInv, Typed
    <3> QED
      BY <1>1, <2>1, <3>1, EnteringOne
  <2>2. CASE Bounce(w, m, SourceAlive(m), <<>>, "drain") /\ UNCHANGED <<sched, comp>>
    <3>1. NoNewLives /\ comp' \in [Objects -> Components] /\ sched' \in [Threads -> SUBSET Objects]
      BY <2>2 DEF NoNewLives, IInv, Typed
    <3>2. m \in AnyMessage
      BY <1>1 DEF ToClient
    <3> QED
      BY <2>2, <3>1, <3>2, Bouncing, Singly DEF Entered
  <2> QED
    BY <1>2, <2>1, <2>2
<1>4. Queues(queue') /\ Requests(interim', app.registering)
  BY Queueing DEF Drain, IInv, Registering
<1> QED
  BY <1>1, <1>3, <1>4, ComponentStep DEF Entered, Drain, IInv, Typed

-----------------------------------------------------------------------------
(* Steps that change the table *)

\* An id is given back by the thread that ends its component.
LEMMA FreeingClient ==
    ASSUME IInv, OneThread, NEW t \in Threads, th[t].then \in {"exit", "purge"},
           FreeClient(th[t].client),
           \A u \in Threads \ {t} : th'[u] = th[u], th' \in [Threads -> ThreadStates],
           Sound(th'[t]), th'[t].then = "drain",
           \A o \in Objects \ {th[t].comp} : comp'[o] = comp[o], comp' \in [Objects -> Components],
           comp'[th[t].comp].life = "dead",
           Queues(queue'), Tells,
           UNCHANGED <<n_workers, interim, local, sched>>
    PROVE  IInv'
<1> DEFINE i == th[t].client
           o == th[t].comp
<1>1. /\ i \in Clients /\ o \in Objects /\ cmap[i] = o /\ o # None
      /\ cmap' = [cmap EXCEPT ![i] = None] /\ free' = <<i>> \o free
      /\ cmap \in [Clients -> Objects \cup {None}] /\ free \in Seq(Clients)
  BY ThreadTypes, Nothing DEF Sound, FreeClient, IInv, Typed
<1> HIDE DEF i, o
<1>2. Typed'
  BY <1>1 DEF IInv, Typed, Queues, Tells
<1>3. /\ comp'[o].life = "dead" /\ \A x \in Objects \ {o} : comp'[x] = comp[x]
      /\ comp \in [Objects -> Components] /\ comp[o].life # "none"
  BY <1>1 DEF IInv, Typed, Named, o
<1>4. \A x \in Objects : /\ Alive(x)' <=> Alive(x) /\ x # o
                         /\ x # o => comp'[x] = comp[x]
  BY <1>3, Nothing DEF Alive
<1>5. TableSound'
  <2>1. IsInjective(free) /\ \A j \in Clients : (\E k \in DOMAIN free : free[k] = j) <=> cmap[j] = None
    BY DEF IInv, TableSound
  <2>2. /\ Len(free') = Len(free) + 1 /\ free'[1] = i
        /\ \A k \in 2 .. Len(free) + 1 : free'[k] = free[k - 1]
    BY <1>1
  <2>3. DOMAIN free = 1 .. Len(free) /\ DOMAIN free' = 1 .. Len(free) + 1 /\ Len(free) \in Nat
    BY <1>1, <2>2
  <2>4. \A k \in DOMAIN free : free[k] # i
    BY <1>1, <2>1
  <2>5. IsInjective(free)'
    <3>1. ASSUME NEW a \in DOMAIN free', NEW b \in DOMAIN free', free'[a] = free'[b] PROVE a = b
      <4>1. CASE a = 1 \/ b = 1
        BY <2>2, <2>3, <2>4, <3>1, <4>1
      <4>2. CASE a # 1 /\ b # 1
        <5>1. /\ a - 1 \in DOMAIN free /\ b - 1 \in DOMAIN free
              /\ free'[a] = free[a - 1] /\ free'[b] = free[b - 1]
          BY <2>2, <2>3, <4>2
        <5>2. a - 1 = b - 1
          BY <2>1, <3>1, <5>1 DEF IsInjective
        <5> QED
          BY <2>3, <5>2
      <4> QED
        BY <4>1, <4>2
    <3> QED
      BY <3>1 DEF IsInjective
  <2>6. ASSUME NEW j \in Clients PROVE (\E k \in DOMAIN free' : free'[k] = j) <=> cmap'[j] = None
    <3>1. CASE j = i
      <4>1. 1 \in DOMAIN free' /\ free'[1] = j
        BY <2>2, <2>3, <3>1
      <4>2. cmap'[j] = None
        BY <1>1, <3>1
      <4> QED
        BY <4>1, <4>2
    <3>2. CASE j # i
      <4>1. cmap'[j] = cmap[j]
        BY <1>1, <3>2
      <4>2. ASSUME NEW k \in DOMAIN free, free[k] = j PROVE \E l \in DOMAIN free' : free'[l] = j
        <5>1. k + 1 \in DOMAIN free' /\ k + 1 \in 2 .. Len(free) + 1 /\ (k + 1) - 1 = k
          BY <2>3
        <5> QED
          BY <2>2, <4>2, <5>1
      <4>3. ASSUME NEW l \in DOMAIN free', free'[l] = j PROVE \E k \in DOMAIN free : free[k] = j
        <5>1. l \in 2 .. Len(free) + 1 /\ l - 1 \in DOMAIN free
          BY <2>2, <2>3, <3>2, <4>3
        <5> QED
          BY <2>2, <4>3, <5>1
      <4> QED
        BY <2>1, <4>1, <4>2, <4>3
    <3> QED
      BY <3>1, <3>2
  <2>7. ASSUME NEW x \in Objects, Alive(x)' PROVE cmap'[comp'[x].id] = x
    <3>1. Alive(x) /\ x # o /\ comp'[x] = comp[x]
      BY <1>4, <2>7
    <3>2. cmap[comp[x].id] = x /\ comp[x].id \in Clients
      BY <3>1 DEF IInv, TableSound, Named
    <3> QED
      BY <1>1, <3>1, <3>2
  <2> QED
    BY <2>5, <2>6, <2>7 DEF TableSound
<1>6. Named'
  <2>1. ASSUME NEW j \in Clients, cmap'[j] # None
        PROVE  comp'[cmap'[j]].life # "none" /\ (Alive(cmap[j])' => comp'[cmap'[j]].id = j)
    <3>1. cmap'[j] = cmap[j] /\ cmap[j] \in Objects
      BY <1>1, <2>1
    <3>2. comp[cmap[j]].life # "none" /\ (Alive(cmap[j]) => comp[cmap[j]].id = j)
      BY <2>1, <3>1 DEF IInv, Named
    <3>3. CASE cmap[j] = o
      BY <1>3, <1>4, <3>1, <3>3 DEF Alive
    <3>4. CASE cmap[j] # o
      <4>1. comp'[cmap[j]] = comp[cmap[j]]
        BY <1>3, <3>1, <3>4
      <4>2. Alive(cmap[j])' => comp'[cmap'[j]].life = "live"
        BY DEF Alive
      <4>3. Alive(cmap[j])' => Alive(cmap[j])
        BY <3>1, <4>1, <4>2, Nothing DEF Alive
      <4> QED
        BY <3>1, <3>2, <4>1, <4>3
    <3> QED
      BY <3>3, <3>4
  <2>2. \A x \in Objects : Alive(x)' => comp'[x].id \in Clients
    BY <1>4 DEF IInv, Named
  <2> QED
    BY <2>1, <2>2 DEF Named
<1>7. Created' = Created
  BY <1>3 DEF Created
<1>8. Numbered' /\ Registering'
  BY <1>7 DEF IInv, Numbered, Registering, NextObject, Created, Requests, Creates, Tells
<1>9. \A e \in Entries : Addressed(e) => Addressed(e)'
  <2>1. ASSUME NEW e \in Entries, e # Marker PROVE e.comp \in Objects
    BY <2>1 DEF Entries
  <2> QED
    BY <1>3, <1>4, <2>1 DEF Addressed
<1>10. ASSUME NEW w \in Pool PROVE AllAddressed(queue[w])'
  <2>1. ASSUME NEW k \in 1 .. Len(queue'[w]) PROVE Addressed(queue[w][k])'
    <3> DEFINE e == queue'[w][k]
    <3>1. e \in Entries /\ Addressed(e)
      BY DEF AllAddressed, Queues
    <3> QED
      BY <1>9, <3>1
  <2> QED
    BY <2>1 DEF AllAddressed
<1>11. ASSUME NEW s \in ThreadStates, Sound(s), s.then \in {"exit", "purge"} => s.comp # o
       PROVE  Sound(s)'
  <2>1. Addressed(s.item)'
    BY <1>9, <1>11 DEF Sound, ThreadStates
  <2>2. s.then \in {"exit", "purge"} => /\ s.comp \in Objects \ {o} /\ s.client \in Clients \ {i}
                                        /\ cmap'[s.client] = s.comp
    BY <1>1, <1>11 DEF Sound
  <2>3. s.then = "purge" => comp'[s.comp].life = "dead"
    BY <1>3, <1>11, <2>2 DEF Sound
  <2> QED
    BY <1>11, <2>1, <2>2, <2>3 DEF Sound
<1>12. ASSUME NEW u \in Threads PROVE Sound(th[u])'
  <2>1. th'[u] \in ThreadStates
    OBVIOUS
  <2>2. Sound(th'[u]) /\ (th'[u].then \in {"exit", "purge"} => th'[u].comp # o)
    <3>1. CASE u = t
      BY <3>1
    <3>2. CASE u # t
      <4>1. th'[u] = th[u] /\ Sound(th[u]) /\ Sound(th[t])
        BY <3>2, ThreadTypes
      <4>2. ASSUME th[u].then \in {"exit", "purge"} PROVE th[u].comp # o
        <5>1. th[t].pc # "changed" /\ th[u].pc # "changed"
          BY <4>1, <4>2 DEF Sound
        <5>2. Inside(t) = o /\ Inside(u) = th[u].comp
          BY <5>1 DEF Inside, o
        <5> QED
          BY <1>1, <3>2, <5>2 DEF OneThread
      <4> QED
        BY <4>1, <4>2
    <3> QED
      BY <3>1, <3>2
  <2> QED
    BY <1>11, <2>1, <2>2
<1> QED
  BY <1>2, <1>5, <1>6, <1>8, <1>10, <1>12 DEF IInv

\* What there is after a thread has gone on.
LEMMA Gone ==
    ASSUME IInv, NEW t \in Threads, Goes(t)
    PROVE  /\ th' \in [Threads -> ThreadStates] /\ Sound(th'[t])
           /\ \A u \in Threads \ {t} : th'[u] = th[u]
<1>1. PICK s \in ThreadStates : Sound(s) /\ th' = [th EXCEPT ![t] = s]
  BY DEF Goes
<1>2. th \in [Threads -> ThreadStates]
  BY DEF IInv, Typed
<1>3. th'[t] = s
  BY <1>1, <1>2
<1> QED
  BY <1>1, <1>2, <1>3

\* A new component is one, and so is one that is released.
LEMMA NewComponents ==
    /\ \A i \in Addresses, p \in Pool :
        NewComponent(i, p) \in Components /\ NewComponent(i, p).life = "live" /\ NewComponent(i, p).id = i
    /\ \A d \in Components : Released(d) \in Components /\ Released(d).life = "dead"
    /\ NotYet \in Components /\ NotYet.life = "none"
<1>1. NoMsg \in AnyMessage /\ <<>> \in Seq(AnyMessage) /\ None \in Addresses /\ None \in Nat /\ 0 \in Pool
  BY Nothing, Singly, SomeWorkers DEF None
<1>2. ASSUME NEW i \in Addresses, NEW p \in Pool
      PROVE  NewComponent(i, p) \in Components /\ NewComponent(i, p).life = "live" /\ NewComponent(i, p).id = i
  BY <1>1 DEF NewComponent, Components
<1>3. ASSUME NEW c \in Components
      PROVE  /\ [c EXCEPT !.life = "dead"] \in Components /\ [c EXCEPT !.life = "dead"].life = "dead"
             /\ [c EXCEPT !.life = "none"] \in Components /\ [c EXCEPT !.life = "none"].life = "none"
  BY DEF Components
<1>4. ASSUME NEW d \in Components PROVE Released(d) \in Components /\ Released(d).life = "dead"
  <2>1. d.priority \in Pool
    BY DEF Components
  <2>2. NewComponent(None, d.priority) \in Components
    BY <1>1, <1>2, <2>1
  <2> QED
    BY <1>3, <2>2 DEF Released
<1>5. NotYet \in Components /\ NotYet.life = "none"
  BY <1>1, <1>2, <1>3 DEF NotYet
<1> QED
  BY <1>2, <1>4, <1>5

\* A thread releases its component, without workers with its id, with them
\* before the queue is purged (xf-core.c:846).
LEMMA Ending ==
    ASSUME IInv, OneThread, NEW t \in Threads, FinishComponent(t),
           UNCHANGED <<n_workers, interim, queue, local, sched>>
    PROVE  IInv'
<1> DEFINE o == th[t].comp
           i == th[t].client
           s == [th[t] EXCEPT !.pc = "freed", !.then = "purge"]
<1>1. /\ th[t].then = "exit" /\ Sound(th[t]) /\ th[t] \in ThreadStates
      /\ o \in Objects /\ i \in Clients /\ cmap[i] = o
      /\ th \in [Threads -> ThreadStates] /\ comp \in [Objects -> Components]
  BY ThreadTypes DEF FinishComponent, Sound, IInv, Typed
<1>2. comp[o].life # "none"
  BY <1>1, Nothing DEF IInv, Named
<1>3. comp' = [comp EXCEPT ![o] = Released(comp[o])] /\ Tells
  <2>1. comp[o].cause \in AnyMessage
    BY <1>1, FieldTypes
  <2>2. app' = app \/ app' = Answered(comp[o].cause)
    BY DEF FinishComponent, Release
  <2> QED
    BY <2>1, <2>2, Answering DEF FinishComponent, Release
<1>4. comp' \in [Objects -> Components] /\ comp'[o].life = "dead" /\ \A x \in Objects \ {o} : comp'[x] = comp[x]
  <2> DEFINE r == Released(comp[o])
  <2>1. r \in Components /\ r.life = "dead"
    BY <1>1, NewComponents
  <2> HIDE DEF r
  <2>2. comp' = [comp EXCEPT ![o] = r]
    BY <1>3 DEF r
  <2> HIDE DEF o
  <2> QED
    BY <1>1, <2>1, <2>2
<1>5. Queues(queue')
  BY Queueing
<1>6. CASE n_workers = 0
  <2>1. FreeClient(i) /\ th' = [th EXCEPT ![t] = Rest(t)]
    BY <1>6 DEF FinishComponent
  <2>2. Goes(t) /\ th'[t].then = "drain"
    <3>1. TRUE \in BOOLEAN
      OBVIOUS
    <3> QED
      BY <2>1, <3>1, Resting
  <2>3. /\ th' \in [Threads -> ThreadStates] /\ Sound(th'[t])
        /\ \A u \in Threads \ {t} : th'[u] = th[u]
    BY <2>2, Gone
  <2> QED
    BY <1>1, <1>3, <1>4, <1>5, <2>1, <2>2, <2>3, FreeingClient
<1>7. CASE n_workers # 0
  <2>1. UNCHANGED <<cmap, free>> /\ th' = [th EXCEPT ![t] = s]
    BY <1>1, <1>7 DEF FinishComponent
  <2>2. NoNewLives
    <3>1. ASSUME NEW x \in Objects
          PROVE  /\ comp'[x].life = "none" <=> comp[x].life = "none"
                 /\ comp[x].life = "dead" => comp'[x].life = "dead"
                 /\ comp'[x].life = "live" => comp[x].life = "live" /\ comp'[x].id = comp[x].id
      <4>1. CASE x = o
        BY <1>2, <1>4, <4>1
      <4>2. CASE x # o
        BY <1>4, <4>2
      <4> QED
        BY <4>1, <4>2
    <3> QED
      BY <3>1 DEF NoNewLives
  <2>3. /\ s \in ThreadStates /\ s.pc = "freed" /\ s.then = "purge" /\ s.comp = o /\ s.client = i
        /\ s.item = th[t].item
    BY <1>1 DEF ThreadStates, Stages
  <2> HIDE DEF s
  <2>4. th' \in [Threads -> ThreadStates] /\ th'[t] = s /\ \A u \in Threads \ {t} : th'[u] = th[u]
    BY <1>1, <2>1, <2>3
  <2>5. ASSUME NEW u \in Threads PROVE Sound(th[u])'
    <3>1. CASE u = t
      <4> DEFINE e == th[t].item
      <4>1. e \in Entries /\ Addressed(e)
        BY ThreadTypes DEF Sound
      <4>2. ASSUME NEW x \in ThreadStates, x.item = th[t].item, x.pc = "freed", x.then = "purge",
                   x.comp = o, x.client = i
            PROVE  Sound(x)'
        <5>1. ASSUME NEW y \in Entries, Addressed(y) PROVE Addressed(y)'
          BY <2>1, <2>2, <5>1, SameTable
        <5>2. Addressed(x.item)'
          BY <4>1, <4>2, <5>1
        <5> QED
          BY <1>1, <1>4, <2>1, <4>2, <5>2 DEF Sound
      <4> QED
        BY <2>3, <2>4, <3>1, <4>2
    <3>2. CASE u # t
      <4>1. th'[u] = th[u] /\ th[u] \in ThreadStates /\ Sound(th[u])
        BY <2>4, <3>2, ThreadTypes
      <4>2. \A x \in ThreadStates : Sound(x) => Sound(x)'
        BY <2>1, <2>2, SameTable
      <4> QED
        BY <4>1, <4>2
    <3> QED
      BY <3>1, <3>2
  <2>6. /\ app' \in Applications /\ (app'.registering => NextObject <= MaxObjects)
        /\ Requests(interim', app'.registering)
    BY <1>3 DEF IInv, Registering, Tells
  <2> QED
    BY <1>3, <1>4, <1>5, <2>1, <2>2, <2>4, <2>5, <2>6, TableStep DEF IInv, Typed
<1> QED
  BY <1>6, <1>7

\* A thread has sent what it had to send.
LEMMA Finishing ==
    ASSUME IInv, OneThread, NEW t \in Threads, Finish(t)
    PROVE  IInv'
<1>1. CASE FinishMessage(t)
  <2>1. TRUE \in BOOLEAN
    OBVIOUS
  <2>2. Goes(t)
    BY <1>1, <2>1, Resting DEF FinishMessage
  <2> QED
    BY <1>1, <2>2, Going DEF Finish, FinishMessage
<1>2. CASE FinishAnswer(t)
  <2>1. "purge" \in Stages \ {"changed"} /\ TRUE \in BOOLEAN
    BY DEF Stages
  <2>2. Goes(t)
    BY <1>2, <2>1, Staging DEF FinishAnswer
  <2> QED
    BY <1>2, <2>2, Going DEF Finish, FinishAnswer
<1>3. CASE FinishComponent(t)
  BY <1>3, Ending DEF Finish
<1> QED
  BY <1>1, <1>2, <1>3 DEF Finish

\* The queue of a component that has ended is purged, and its id is free.
LEMMA PurgingOver ==
    ASSUME IInv, OneThread, NEW t \in Threads, PurgeOver(t)
    PROVE  IInv'
<1>1. th[t].then = "purge" /\ FreeClient(th[t].client) /\ queue' = Dropped(th[t].q)
  BY DEF PurgeOver
<1>2. Goes(t) /\ th'[t].then = "drain"
  <2>1. FALSE \in BOOLEAN /\ th' = [th EXCEPT ![t] = [Rest(t) EXCEPT !.raised = FALSE]]
    BY DEF PurgeOver
  <2> QED
    BY <2>1, Resting
<1>3. /\ th' \in [Threads -> ThreadStates] /\ Sound(th'[t])
      /\ \A u \in Threads \ {t} : th'[u] = th[u]
  BY <1>2, Gone
<1>4. comp' = comp /\ comp \in [Objects -> Components] /\ comp[th[t].comp].life = "dead"
  BY <1>1, ThreadTypes DEF PurgeOver, Sound, IInv, Typed
<1>5. Queues(queue')
  BY <1>1, Queueing
<1>6. Tells /\ UNCHANGED <<n_workers, interim, local, sched>>
  BY Answering DEF PurgeOver
<1> QED
  BY <1>1, <1>2, <1>3, <1>4, <1>5, <1>6, FreeingClient

\* Of what waits for the DSP thread, the rest asks for no more than the whole;
\* and for nothing if the first asks for a component.
LEMMA Remaining ==
    ASSUME IInv, interim # <<>>
    PROVE  /\ Head(interim) \in AnyMessage /\ Tail(interim) \in Seq(AnyMessage)
           /\ Requests(Tail(interim), app.registering)
           /\ Creates(Head(interim)) => /\ app.registering /\ NextObject <= MaxObjects
                                        /\ Requests(Tail(interim), FALSE)
<1>1. interim \in Seq(AnyMessage) /\ Requests(interim, app.registering)
  BY DEF IInv, Typed, Registering
<1> DEFINE s == Tail(interim)
<1>2. /\ Head(interim) \in AnyMessage /\ s \in Seq(AnyMessage) /\ Len(s) = Len(interim) - 1
      /\ Len(interim) \in Nat \ {0} /\ Head(interim) = interim[1]
      /\ \A k \in 1 .. Len(s) : s[k] = interim[k + 1]
  BY <1>1
<1> HIDE DEF s
<1>3. \A k \in 1 .. Len(s) : k + 1 \in 1 .. Len(interim) /\ k + 1 # 1
  BY <1>2
<1>4. \A k \in 1 .. Len(s) : Creates(s[k]) => app.registering /\ ~Creates(Head(interim))
  BY <1>1, <1>2, <1>3 DEF Requests
<1>5. \A j, k \in 1 .. Len(s) : Creates(s[j]) /\ Creates(s[k]) => j = k
  <2>1. ASSUME NEW j \in 1 .. Len(s), NEW k \in 1 .. Len(s), Creates(s[j]), Creates(s[k]) PROVE j = k
    <3>1. j + 1 = k + 1
      BY <1>1, <1>2, <1>3, <2>1 DEF Requests
    <3> QED
      BY <3>1
  <2> QED
    BY <2>1
<1>6. Creates(Head(interim)) => app.registering
  BY <1>1, <1>2 DEF Requests
<1>7. app.registering => NextObject <= MaxObjects
  BY DEF IInv, Registering
<1> QED
  BY <1>2, <1>4, <1>5, <1>6, <1>7 DEF Requests, s

\* The next component is one that is not there yet.
LEMMA NextOne ==
    ASSUME IInv, NextObject <= MaxObjects
    PROVE  NextObject \in Objects /\ comp[NextObject].life = "none" /\ Created = 1 .. NextObject - 1
<1>1. PICK n \in 0 .. MaxObjects : Created = 1 .. n
  BY DEF IInv, Numbered
<1>2. NextObject = n + 1
  <2>1. Cardinality(1 .. n) = n
    BY FS_Interval, WorkersAssumption
  <2> QED
    BY <1>1, <2>1 DEF NextObject, Created
<1>3. NextObject \in Objects /\ NextObject \notin Created /\ n = NextObject - 1
  BY <1>1, <1>2, WorkersAssumption DEF Objects
<1> QED
  BY <1>1, <1>3 DEF Created

\* A component is created with the first of the free ids (xf_proxy_register).
LEMMA Creating ==
    ASSUME IInv, NEW m \in AnyMessage, NextObject <= MaxObjects, free # <<>>, Register(m),
           interim' \in Seq(AnyMessage), Requests(interim', FALSE),
           UNCHANGED <<n_workers, queue, local, sched, th>>
    PROVE  IInv'
<1> DEFINE n == NextObject
           i == Head(free)
           c == NewComponent(i, DefaultPriority)
<1>1. /\ n \in Objects /\ comp[n].life = "none" /\ Created = 1 .. n - 1 /\ n # None
  BY NextOne, Nothing
<1>2. /\ free \in Seq(Clients) /\ cmap \in [Clients -> Objects \cup {None}] /\ comp \in [Objects -> Components]
      /\ n_workers \in {0, NWorkers} /\ app \in Applications /\ th \in [Threads -> ThreadStates]
  BY DEF IInv, Typed
<1>3. i \in Clients
  BY <1>2
<1>4. c \in Components /\ c.life = "live" /\ c.id = i
  <2>1. DefaultPriority \in Pool
    BY <1>2, SomeWorkers, WorkersAssumption DEF DefaultPriority, Pool
  <2> QED
    BY <1>3, <2>1, NewComponents DEF Addresses
<1>5. /\ comp' = [comp EXCEPT ![n] = c] /\ cmap' = [cmap EXCEPT ![i] = n] /\ free' = Tail(free)
      /\ app' = Registered(m)
  BY DEF Register
<1>6. app' \in Applications /\ app'.registering = FALSE
  <2> DEFINE open == app.open \ {m.serial}
             known == [app.known EXCEPT ![i] = n]
             a == [app EXCEPT !.open = open, !.registering = FALSE, !.known = known]
  <2>1. open \in SUBSET Nat /\ known \in [Clients -> Nat]
    <3>1. n \in Nat
      BY <1>1, Nothing
    <3> HIDE DEF n, i
    <3> QED
      BY <1>2, <3>1 DEF Applications
  <2>2. app' = a
    <3> DEFINE x == [app EXCEPT !.open = open]
    <3>1. x \in Applications /\ x.known = app.known
      BY <1>2, <2>1 DEF Applications
    <3>2. app' = [[x EXCEPT !.registering = FALSE] EXCEPT !.known[i] = n]
      BY <1>5 DEF Registered, NotRegistered, Answered
    <3> HIDE DEF open, n, i
    <3> QED
      BY <1>2, <2>1, <3>1, <3>2 DEF Applications
  <2> HIDE DEF open, known
  <2> QED
    BY <1>2, <2>1, <2>2 DEF Applications
<1> HIDE DEF n, i, c
<1>7. /\ comp' \in [Objects -> Components] /\ comp'[n] = c
      /\ \A x \in Objects \ {n} : comp'[x] = comp[x]
  BY <1>1, <1>2, <1>4, <1>5
<1>8. /\ cmap' \in [Clients -> Objects \cup {None}] /\ cmap'[i] = n
      /\ \A j \in Clients \ {i} : cmap'[j] = cmap[j]
  BY <1>1, <1>2, <1>3, <1>5
<1>9. Typed'
  BY <1>2, <1>5, <1>6, <1>7, <1>8 DEF IInv, Typed
<1>10. /\ DOMAIN free = 1 .. Len(free) /\ Len(free) \in Nat \ {0} /\ i = free[1]
       /\ DOMAIN free' = 1 .. Len(free) - 1 /\ \A k \in 1 .. Len(free) - 1 : free'[k] = free[k + 1]
  BY <1>2, <1>5 DEF i
<1>11. IsInjective(free) /\ \A j \in Clients : (\E k \in DOMAIN free : free[k] = j) <=> cmap[j] = None
  BY DEF IInv, TableSound
<1>12. cmap[i] = None
  BY <1>3, <1>10, <1>11
<1>13. TableSound'
  <2>1. IsInjective(free)'
    <3>1. ASSUME NEW a \in DOMAIN free', NEW b \in DOMAIN free', free'[a] = free'[b] PROVE a = b
      <4>1. a + 1 \in DOMAIN free /\ b + 1 \in DOMAIN free /\ free[a + 1] = free[b + 1]
        BY <1>10, <3>1
      <4>2. a + 1 = b + 1
        BY <1>11, <4>1 DEF IsInjective
      <4> QED
        BY <1>10, <4>2
    <3> QED
      BY <3>1 DEF IsInjective
  <2>2. ASSUME NEW j \in Clients PROVE (\E k \in DOMAIN free' : free'[k] = j) <=> cmap'[j] = None
    <3>1. CASE j = i
      <4>1. ASSUME NEW k \in DOMAIN free', free'[k] = j PROVE FALSE
        <5>1. k + 1 \in DOMAIN free /\ 1 \in DOMAIN free /\ free[k + 1] = free[1] /\ k + 1 # 1
          BY <1>10, <3>1, <4>1
        <5> QED
          BY <1>11, <5>1 DEF IsInjective
      <4> QED
        BY <1>1, <1>8, <3>1, <4>1
    <3>2. CASE j # i
      <4>1. ASSUME NEW k \in DOMAIN free, free[k] = j PROVE \E l \in DOMAIN free' : free'[l] = j
        <5>1. k - 1 \in DOMAIN free' /\ (k - 1) + 1 = k
          BY <1>10, <3>2, <4>1
        <5> QED
          BY <1>10, <4>1, <5>1
      <4>2. ASSUME NEW l \in DOMAIN free', free'[l] = j PROVE \E k \in DOMAIN free : free[k] = j
        <5>1. l + 1 \in DOMAIN free
          BY <1>10
        <5> QED
          BY <1>10, <4>2, <5>1
      <4> QED
        BY <1>8, <1>11, <3>2, <4>1, <4>2
    <3> QED
      BY <3>1, <3>2
  <2>3. ASSUME NEW x \in Objects, Alive(x)' PROVE cmap'[comp'[x].id] = x
    <3>1. CASE x = n
      BY <1>4, <1>7, <1>8, <3>1
    <3>2. CASE x # n
      <4>1. comp'[x] = comp[x] /\ Alive(x)
        BY <1>7, <2>3, <3>2 DEF Alive
      <4>2. cmap[comp[x].id] = x /\ comp[x].id \in Clients
        BY <4>1 DEF IInv, TableSound, Named
      <4>3. comp[x].id # i
        BY <1>12, <4>2, Nothing
      <4> QED
        BY <1>8, <4>1, <4>2, <4>3
    <3> QED
      BY <3>1, <3>2
  <2> QED
    BY <2>1, <2>2, <2>3 DEF TableSound
<1>14. Named'
  <2>1. ASSUME NEW j \in Clients, cmap'[j] # None
        PROVE  comp'[cmap'[j]].life # "none" /\ (Alive(cmap[j])' => comp'[cmap'[j]].id = j)
    <3>1. CASE j = i
      BY <1>4, <1>7, <1>8, <3>1
    <3>2. CASE j # i
      <4>1. cmap'[j] = cmap[j] /\ cmap[j] \in Objects
        BY <1>2, <1>8, <2>1, <3>2
      <4>2. comp[cmap[j]].life # "none" /\ (Alive(cmap[j]) => comp[cmap[j]].id = j)
        BY <2>1, <4>1 DEF IInv, Named
      <4>3. cmap[j] # n
        BY <1>1, <4>2
      <4>4. comp'[cmap[j]] = comp[cmap[j]]
        BY <1>7, <4>1, <4>3
      <4>5. Alive(cmap[j])' => comp'[cmap'[j]].life = "live"
        BY DEF Alive
      <4>6. Alive(cmap[j])' => Alive(cmap[j])
        BY <4>1, <4>4, <4>5, Nothing DEF Alive
      <4> QED
        BY <4>1, <4>2, <4>4, <4>6
    <3> QED
      BY <3>1, <3>2
  <2>2. ASSUME NEW x \in Objects, Alive(x)' PROVE comp'[x].id \in Clients
    <3>1. CASE x = n
      BY <1>3, <1>4, <1>7, <3>1
    <3>2. CASE x # n
      <4>1. comp'[x] = comp[x] /\ Alive(x)
        BY <1>7, <2>2, <3>2 DEF Alive
      <4> QED
        BY <4>1 DEF IInv, Named
    <3> QED
      BY <3>1, <3>2
  <2> QED
    BY <2>1, <2>2 DEF Named
<1>15. Numbered'
  <2>1. Created' = Created \cup {n}
    BY <1>1, <1>4, <1>7 DEF Created
  <2>2. n \in 0 .. MaxObjects /\ Created \cup {n} = 1 .. n
    BY <1>1, WorkersAssumption DEF Objects
  <2> QED
    BY <2>1, <2>2 DEF Numbered
<1>16. Registering'
  BY <1>6 DEF Registering, Requests, Creates
<1>17. ASSUME NEW e \in Entries, Addressed(e) PROVE Addressed(e)'
  <2>1. CASE e = Marker
    BY <2>1 DEF Addressed
  <2>2. CASE e # Marker
    <3>1. e.comp \in Objects /\ comp[e.comp].life # "none" /\ (Alive(e.comp) => comp[e.comp].id = e.msg.dst)
      BY <1>17, <2>2 DEF Entries, Addressed
    <3>2. comp'[e.comp] = comp[e.comp]
      BY <1>1, <1>7, <3>1
    <3>3. Alive(e.comp)' => Alive(e.comp)
      BY <3>2 DEF Alive
    <3> QED
      BY <3>1, <3>2, <3>3 DEF Addressed
  <2> QED
    BY <2>1, <2>2
<1>18. ASSUME NEW w \in Pool PROVE AllAddressed(queue[w])'
  <2>1. ASSUME NEW k \in 1 .. Len(queue'[w]) PROVE Addressed(queue[w][k])'
    <3> DEFINE e == queue'[w][k]
    <3>1. e \in Entries /\ Addressed(e)
      BY DEF AllAddressed, IInv, Typed
    <3> QED
      BY <1>17, <3>1
  <2> QED
    BY <2>1 DEF AllAddressed
<1>19. ASSUME NEW s \in ThreadStates, Sound(s) PROVE Sound(s)'
  <2>1. Addressed(s.item)'
    BY <1>17, <1>19 DEF Sound, ThreadStates
  <2>2. ASSUME s.then \in {"exit", "purge"} PROVE s.client \in Clients /\ cmap'[s.client] = s.comp
    <3>1. s.client \in Clients /\ cmap[s.client] = s.comp /\ s.comp \in Objects
      BY <1>19, <2>2 DEF Sound
    <3>2. s.client # i
      BY <1>12, <3>1, Nothing
    <3> QED
      BY <1>8, <3>1, <3>2
  <2>3. ASSUME s.then = "purge" PROVE comp'[s.comp].life = "dead"
    <3>1. comp[s.comp].life = "dead" /\ s.comp \in Objects
      BY <1>19, <2>3 DEF Sound
    <3> QED
      BY <1>1, <1>7, <3>1
  <2> QED
    BY <1>19, <2>1, <2>2, <2>3 DEF Sound
<1>20. ASSUME NEW t \in Threads PROVE Sound(th[t])'
  <2>1. th'[t] = th[t] /\ th[t] \in ThreadStates /\ Sound(th[t])
    BY ThreadTypes
  <2> QED
    BY <1>19, <2>1
<1> QED
  BY <1>9, <1>13, <1>14, <1>15, <1>16, <1>18, <1>20 DEF IInv

\* Threads are as they were, and in order.
LEMMA Staying ==
    ASSUME IInv, th' = th
    PROVE  \A t \in Threads : Goes(t)
<1>1. ASSUME NEW t \in Threads PROVE Goes(t)
  <2>1. th' = [th EXCEPT ![t] = th[t]]
    BY DEF IInv, Typed
  <2> QED
    BY <2>1, ThreadTypes DEF Goes
<1> QED
  BY <1>1

\* The core carries out what the application asks of it (xf_proxy_command).
LEMMA Serving ==
    ASSUME IInv, interim # <<>>, interim' = Tail(interim), ProxyCommand(Head(interim)),
           Head(interim).dst = Proxy, UNCHANGED <<queue, local, sched, th>>
    PROVE  IInv'
<1> DEFINE m == Head(interim)
<1>1. /\ m \in AnyMessage /\ interim' \in Seq(AnyMessage) /\ Requests(interim', app.registering)
      /\ Creates(m) => NextObject <= MaxObjects /\ Requests(interim', FALSE)
  BY Remaining
<1>2. m.dst = Proxy /\ ProxyCommand(m)
  OBVIOUS
<1> HIDE DEF m
<1>3. /\ Queues(queue') /\ local' \in [Pool -> Seq(ToClient)] /\ sched' \in [Threads -> SUBSET Objects]
      /\ Dsp \in Threads /\ Goes(Dsp)
  <2>1. Dsp \in Threads
    BY WorkersAssumption DEF Dsp, Threads
  <2> QED
    BY <2>1, Staying, Queueing DEF IInv, Typed
<1>4. CASE m.op = "PRIORITIES"
  <2>1. n_workers' = NWorkers /\ app' = Answered(m) /\ UNCHANGED <<cmap, free, comp>>
    BY <1>2, <1>4 DEF ProxyCommand
  <2>2. Tells /\ NoNewLives /\ comp' \in [Objects -> Components] /\ n_workers' \in {0, NWorkers}
    BY <1>1, <2>1, Answering DEF NoNewLives, IInv, Typed
  <2> QED
    BY <1>1, <1>3, <2>1, <2>2, ThreadStep
<1>5. CASE m.op # "PRIORITIES"
  <2>1. Register(m) /\ n_workers' = n_workers /\ Creates(m)
    BY <1>2, <1>5 DEF ProxyCommand, Creates
  <2>2. CASE free = <<>>
    <3>1. app' = NotRegistered(m) /\ UNCHANGED <<cmap, free, comp>>
      BY <2>1, <2>2 DEF Register
    <3>2. app' \in Applications /\ app'.registering = FALSE
      <4> DEFINE open == app.open \ {m.serial}
      <4>1. app \in Applications /\ open \in SUBSET Nat
        BY DEF IInv, Typed, Applications
      <4>2. app' = [[app EXCEPT !.open = open] EXCEPT !.registering = FALSE]
        BY <3>1 DEF NotRegistered, Answered
      <4> HIDE DEF open
      <4> QED
        BY <4>1, <4>2 DEF Applications
    <3>3. NoNewLives /\ comp' \in [Objects -> Components] /\ n_workers' \in {0, NWorkers}
      BY <2>1, <3>1 DEF NoNewLives, IInv, Typed
    <3>4. /\ th' \in [Threads -> ThreadStates]
          /\ \A u \in Threads : Sound(th[u])'
      <4>1. ASSUME NEW u \in Threads PROVE Sound(th[u])'
        <5>1. th'[u] = th[u] /\ th[u] \in ThreadStates /\ Sound(th[u])
          BY ThreadTypes
        <5>2. \A x \in ThreadStates : Sound(x) => Sound(x)'
          BY <3>1, <3>3, SameTable
        <5> QED
          BY <5>1, <5>2
      <4> QED
        BY <4>1 DEF IInv, Typed
    <3> QED
      BY <1>1, <1>3, <2>1, <3>1, <3>2, <3>3, <3>4, TableStep
  <2>3. CASE free # <<>>
    BY <1>1, <2>1, <2>3, Creating
  <2> QED
    BY <2>2, <2>3
<1> QED
  BY <1>4, <1>5

\* The DSP thread takes a message (xf_core_dispatch).
LEMMA Taking ==
    ASSUME IInv, DspTake
    PROVE  IInv'
<1> DEFINE m == Head(interim)
<1>1. interim # <<>> /\ interim' = Tail(interim) /\ UNCHANGED <<queue, local>>
  BY DEF DspTake
<1>2. m \in AnyMessage /\ interim' \in Seq(AnyMessage) /\ Requests(interim', app.registering)
  BY <1>1, Remaining
<1>3. \/ m.dst = Proxy /\ ProxyCommand(m) /\ UNCHANGED <<sched, th>>
      \/ /\ Bounce(Dsp, m, SourceAlive(m) /\ ~m.error, <<>>, "drain")
         /\ UNCHANGED <<n_workers, sched, cmap, free, comp>>
      \/ /\ m.dst # Proxy /\ cmap[m.dst] # None
         /\ Enter(Dsp, cmap[m.dst], m)
         /\ UNCHANGED <<n_workers, cmap, free>>
      \/ /\ m.dst # Proxy /\ cmap[m.dst] # None
         /\ th' = [th EXCEPT ![Dsp] =
                      [Idle EXCEPT !.pc = "send", !.to = comp[cmap[m.dst]].priority,
                                   !.item = [comp |-> cmap[m.dst], msg |-> m]]]
         /\ UNCHANGED <<n_workers, sched, cmap, free, comp, app>>
  BY DEF DspTake
<1>4. CASE m.dst = Proxy /\ ProxyCommand(m) /\ UNCHANGED <<sched, th>>
  BY <1>1, <1>4, Serving
<1> HIDE DEF m
<1>5. Dsp \in Threads /\ Queues(queue') /\ local' \in [Pool -> Seq(ToClient)]
  BY <1>1, Queueing, WorkersAssumption DEF Dsp, Threads, IInv, Typed
<1>6. UNCHANGED <<sched, comp>> =>
        NoNewLives /\ comp' \in [Objects -> Components] /\ sched' \in [Threads -> SUBSET Objects]
  BY DEF NoNewLives, IInv, Typed
<1>7. CASE /\ Bounce(Dsp, m, SourceAlive(m) /\ ~m.error, <<>>, "drain")
           /\ UNCHANGED <<n_workers, sched, cmap, free, comp>>
  <2>1. Goes(Dsp) /\ Tells
    BY <1>2, <1>5, <1>7, Bouncing, Singly
  <2> QED
    BY <1>2, <1>5, <1>6, <1>7, <2>1, ComponentStep
<1>8. CASE /\ m.dst # Proxy /\ cmap[m.dst] # None
           /\ Enter(Dsp, cmap[m.dst], m)
           /\ UNCHANGED <<n_workers, cmap, free>>
  <2>1. m \in ToClient /\ cmap[m.dst] \in Objects
    BY <1>2, <1>8, Addressing
  <2>2. Entered(Dsp)
    BY <1>5, <1>8, <2>1, EnteringOne
  <2> QED
    BY <1>2, <1>5, <1>8, <2>2, ComponentStep DEF Entered
<1>9. CASE /\ m.dst # Proxy /\ cmap[m.dst] # None
           /\ th' = [th EXCEPT ![Dsp] =
                      [Idle EXCEPT !.pc = "send", !.to = comp[cmap[m.dst]].priority,
                                   !.item = [comp |-> cmap[m.dst], msg |-> m]]]
           /\ UNCHANGED <<n_workers, sched, cmap, free, comp, app>>
  <2> DEFINE w == comp[cmap[m.dst]].priority
             e == [comp |-> cmap[m.dst], msg |-> m]
             s == [Idle EXCEPT !.pc = "send", !.to = w, !.item = e]
  <2>1. w \in Pool /\ e \in Entries /\ Addressed(e)
    BY <1>2, <1>9, Addressing
  <2>2. th' = [th EXCEPT ![Dsp] = s]
    BY <1>9
  <2> HIDE DEF w, e
  <2>3. s \in ThreadStates /\ s.then = "drain" /\ s.item = e
    BY <2>1, Beginning DEF ThreadStates, Stages
  <2> HIDE DEF s
  <2>4. Goes(Dsp)
    BY <2>1, <2>2, <2>3 DEF Goes, Sound
  <2>5. Tells
    BY <1>9, Answering
  <2> QED
    BY <1>2, <1>5, <1>6, <1>9, <2>4, <2>5, ComponentStep
<1> QED
  BY <1>3, <1>4, <1>7, <1>8, <1>9

-----------------------------------------------------------------------------
(* The application *)

\* Whatever the application asks is put behind what it has asked: for a
\* component only when there is room for one, and one at a time.
LEMMA Asking ==
    ASSUME IInv, NEW op \in Operations, NEW i \in Addresses, NEW arg \in Nat \cup {Keep},
           op = "ROUTE" => arg \in Clients, Ask(op, i, arg), app' \in Applications,
           \/ (i # Proxy \/ op = "PRIORITIES") /\ app'.registering = app.registering
           \/ ~app.registering /\ app'.registering /\ NextObject <= MaxObjects
    PROVE  IInv'
<1> DEFINE meant == IF i = Proxy THEN None ELSE app.known[i]
           serial == app.asked + 1
           m == [Message(op, Proxy, i, None, serial) EXCEPT !.arg = arg, !.meant = meant]
<1>1. interim' = Append(interim, m) /\ UNCHANGED <<n_workers, queue, local, sched, cmap, free, comp, th>>
  BY DEF Ask
<1>2. meant \in Nat /\ serial \in Nat
  <2>1. app \in Applications
    BY DEF IInv, Typed
  <2> QED
    BY <2>1 DEF Applications, Addresses, None
<1> HIDE DEF meant, serial
<1>3. m \in AnyMessage /\ m.dst = i /\ m.op = op
  BY <1>2, Nothing DEF Message, AnyMessage, None
<1> HIDE DEF m
<1>4. /\ interim \in Seq(AnyMessage) /\ Requests(interim, app.registering)
      /\ app.registering => NextObject <= MaxObjects
  BY DEF IInv, Typed, Registering
<1>5. interim' \in Seq(AnyMessage) /\ Requests(interim', app'.registering)
  <2>1. /\ interim' \in Seq(AnyMessage) /\ Len(interim') = Len(interim) + 1 /\ Len(interim) \in Nat
        /\ interim'[Len(interim) + 1] = m /\ \A k \in 1 .. Len(interim) : interim'[k] = interim[k]
    BY <1>1, <1>3, <1>4
  <2>2. CASE (i # Proxy \/ op = "PRIORITIES") /\ app'.registering = app.registering
    <3>1. ~Creates(m)
      BY <1>3, <2>2 DEF Creates
    <3> QED
      BY <1>4, <2>1, <2>2, <3>1 DEF Requests
  <2>3. CASE ~app.registering /\ app'.registering
    <3>1. \A k \in 1 .. Len(interim) : ~Creates(interim[k])
      BY <1>4, <2>3 DEF Requests
    <3>2. \A k \in 1 .. Len(interim') : Creates(interim'[k]) => k = Len(interim) + 1
      BY <2>1, <3>1
    <3> QED
      BY <2>1, <2>3, <3>2 DEF Requests
  <2> QED
    BY <2>1, <2>2, <2>3
<1>6. app'.registering => NextObject <= MaxObjects
  BY <1>4
<1>7. Queues(queue') /\ NoNewLives
  BY <1>1, Queueing DEF NoNewLives
<1>8. th' \in [Threads -> ThreadStates] /\ \A u \in Threads : Sound(th[u])'
  <2>1. ASSUME NEW u \in Threads PROVE Sound(th[u])'
    <3>1. th'[u] = th[u] /\ th[u] \in ThreadStates /\ Sound(th[u])
      BY <1>1, ThreadTypes
    <3>2. \A x \in ThreadStates : Sound(x) => Sound(x)'
      BY <1>1, <1>7, SameTable
    <3> QED
      BY <3>1, <3>2
  <2> QED
    BY <1>1, <2>1 DEF IInv, Typed
<1> QED
  BY <1>1, <1>5, <1>6, <1>7, <1>8, TableStep DEF IInv, Typed

\* What the application knows after it has asked.
LEMMA Known ==
    ASSUME app \in Applications
    PROVE  /\ Asked \in Applications /\ Asked.registering = app.registering
           /\ Asked.changes = app.changes /\ Asked.plain = app.plain /\ Asked.known = app.known
           /\ \A b \in BOOLEAN : LET a == [Asked EXCEPT !.registering = b]
                               IN  a \in Applications /\ a.registering = b
           /\ \A n \in Nat : LET a == [Asked EXCEPT !.changes = n]
                           IN  a \in Applications /\ a.registering = app.registering
           /\ \A n \in Nat : LET a == [Asked EXCEPT !.plain = n]
                           IN  a \in Applications /\ a.registering = app.registering
           /\ \A i \in Clients : LET a == [Asked EXCEPT !.known[i] = None]
                               IN  a \in Applications /\ a.registering = app.registering
<1> DEFINE n == app.asked + 1
           open == app.open \cup {n}
           a == [app EXCEPT !.asked = n, !.open = open]
<1>1. n \in Nat /\ open \in SUBSET Nat
  BY DEF Applications
<1>2. Asked = a
  BY DEF Asked
<1> HIDE DEF n, open
<1>3. /\ a \in Applications /\ a.registering = app.registering
      /\ a.changes = app.changes /\ a.plain = app.plain /\ a.known = app.known
  BY <1>1 DEF Applications
<1> HIDE DEF a
<1>4. ASSUME NEW b \in BOOLEAN
      PROVE  [a EXCEPT !.registering = b] \in Applications /\ [a EXCEPT !.registering = b].registering = b
  BY <1>3 DEF Applications
<1>5. ASSUME NEW k \in Nat
      PROVE  /\ [a EXCEPT !.changes = k] \in Applications
             /\ [a EXCEPT !.changes = k].registering = app.registering
             /\ [a EXCEPT !.plain = k] \in Applications
             /\ [a EXCEPT !.plain = k].registering = app.registering
  BY <1>3 DEF Applications
<1>6. ASSUME NEW i \in Clients
      PROVE  /\ [a EXCEPT !.known[i] = None] \in Applications
             /\ [a EXCEPT !.known[i] = None].registering = app.registering
  <2> DEFINE known == [a.known EXCEPT ![i] = None]
  <2>1. known \in [Clients -> Nat]
    BY <1>3 DEF Applications, None
  <2>2. [a EXCEPT !.known[i] = None] = [a EXCEPT !.known = known]
    BY <1>3 DEF Applications
  <2> HIDE DEF known
  <2> QED
    BY <1>3, <2>1, <2>2 DEF Applications
<1> QED
  BY <1>2, <1>3, <1>4, <1>5, <1>6

\* Every step of the application.
LEMMA Applying ==
    ASSUME IInv, Application
    PROVE  IInv'
<1>1. app \in Applications /\ app.changes + 1 \in Nat /\ app.plain + 1 \in Nat /\ app.changes \in Nat
  BY DEF IInv, Typed, Applications
<1>2. /\ {"PRIORITIES", "REGISTER", "SET_PARAM", "ROUTE", "COMMAND", "UNREGISTER"} \subseteq Operations
      /\ Keep \in Nat \cup {Keep} /\ Proxy \in Addresses /\ Clients \subseteq Addresses
      /\ \A i \in Clients : i # Proxy /\ i \in Nat
  BY Nothing DEF Operations, Addresses, Clients, Proxy
<1>3. /\ Asked \in Applications /\ Asked.registering = app.registering
      /\ Asked.changes = app.changes /\ Asked.plain = app.plain
  BY <1>1, Known
<1>4. CASE AskPriorities
  BY <1>1, <1>2, <1>3, <1>4, Asking DEF AskPriorities
<1>5. CASE AskRegister
  <2>1. /\ Ask("REGISTER", Proxy, Keep) /\ ~app.registering /\ NextObject <= MaxObjects
        /\ app' = [Asked EXCEPT !.registering = TRUE]
    BY <1>5 DEF AskRegister
  <2>2. app' \in Applications /\ app'.registering
    BY <1>1, <2>1, Known
  <2> QED
    BY <1>2, <2>1, <2>2, Asking
<1>6. ASSUME NEW i \in Clients, NEW arg \in {Keep} \cup (0 .. NWorkers - 1), AskSetParam(i, arg)
      PROVE  IInv'
  <2>1. Ask("SET_PARAM", i, arg) /\ arg \in Nat \cup {Keep}
    BY <1>6, WorkersAssumption DEF AskSetParam
  <2>2. app' \in Applications /\ app'.registering = app.registering
    <3> DEFINE n == IF Refusable(arg) THEN app.changes + 1 ELSE app.changes
    <3>1. n \in Nat /\ app' = [Asked EXCEPT !.changes = n]
      BY <1>1, <1>3, <1>6 DEF AskSetParam
    <3> HIDE DEF n
    <3> QED
      BY <1>1, <3>1, Known
  <2> QED
    BY <1>2, <2>1, <2>2, Asking
<1>7. ASSUME NEW i \in Clients, NEW arg \in 0 .. NWorkers - 2, AskChange(i, arg)
      PROVE  IInv'
  <2>1. Ask("SET_PARAM", i, arg) /\ arg \in Nat \cup {Keep}
    BY <1>7, WorkersAssumption DEF AskChange
  <2>2. app' = [Asked EXCEPT !.changes = app.changes + 1]
    BY <1>3, <1>7 DEF AskChange
  <2>3. app' \in Applications /\ app'.registering = app.registering
    BY <1>1, <2>2, Known
  <2> QED
    BY <1>2, <2>1, <2>3, Asking
<1>8. ASSUME NEW i \in Clients, NEW j \in Clients, AskRoute(i, j)
      PROVE  IInv'
  <2>1. Ask("ROUTE", i, j) /\ app' = Asked /\ j \in Nat \cup {Keep}
    BY <1>2, <1>8 DEF AskRoute
  <2> QED
    BY <1>2, <1>3, <2>1, Asking
<1>9. ASSUME NEW i \in Clients, AskCommand(i)
      PROVE  IInv'
  <2>1. Ask("COMMAND", i, Keep) /\ app' = [Asked EXCEPT !.plain = app.plain + 1]
    BY <1>3, <1>9 DEF AskCommand
  <2>2. app' \in Applications /\ app'.registering = app.registering
    BY <1>1, <2>1, Known
  <2> QED
    BY <1>2, <2>1, <2>2, Asking
<1>10. ASSUME NEW i \in Clients, AskUnregister(i)
       PROVE  IInv'
  <2>1. Ask("UNREGISTER", i, Keep) /\ app' = [Asked EXCEPT !.known[i] = None]
    BY <1>10 DEF AskUnregister
  <2>2. app' \in Applications /\ app'.registering = app.registering
    BY <1>1, <2>1, Known
  <2> QED
    BY <1>2, <2>1, <2>2, Asking
<1> QED
  BY <1>4, <1>5, <1>6, <1>7, <1>8, <1>9, <1>10 DEF Application

-----------------------------------------------------------------------------
(* The invariant *)

\* Nothing is created yet, and every id is free.
LEMMA Beginnings ==
    ASSUME Init
    PROVE  IInv
<1>1. Typed
  <2>1. comp \in [Objects -> Components]
    <3> DEFINE c == NotYet
    <3>1. c \in Components
      BY NewComponents
    <3>2. comp = [o \in Objects |-> c]
      BY DEF Init
    <3> HIDE DEF c
    <3> QED
      BY <3>1, <3>2
  <2>2. th \in [Threads -> ThreadStates]
    <3> DEFINE a == Idle
               b == Waiting
    <3>1. a \in ThreadStates
      BY Beginning
    <3>2. b \in ThreadStates
      BY <3>1 DEF Waiting, ThreadStates, Stages
    <3>3. th = [t \in Threads |-> IF t = Dsp THEN a ELSE b]
      BY DEF Init
    <3> HIDE DEF a, b
    <3> QED
      BY <3>1, <3>2, <3>3
  <2>3. app \in Applications
    BY DEF Init, Applications, None
  <2>4. /\ n_workers \in {0, NWorkers} /\ interim \in Seq(AnyMessage)
        /\ queue \in [Pool -> Seq(Entries)] /\ local \in [Pool -> Seq(ToClient)]
        /\ sched \in [Threads -> SUBSET Objects] /\ cmap \in [Clients -> Objects \cup {None}]
    BY DEF Init
  <2>5. free \in Seq(Clients)
    BY WorkersAssumption DEF Init, Clients
  <2> QED
    BY <2>1, <2>2, <2>3, <2>4, <2>5 DEF Typed
<1>2. \A o \in Objects : comp[o].life = "none"
  <2>1. NotYet.life = "none"
    BY NewComponents
  <2> QED
    BY <2>1 DEF Init
<1>3. \A o \in Objects : ~Alive(o)
  BY <1>2 DEF Alive
<1>4. TableSound
  <2>1. /\ DOMAIN free = Clients /\ \A k \in Clients : free[k] = k
        /\ \A i \in Clients : cmap[i] = None
    BY DEF Init
  <2>2. IsInjective(free)
    BY <2>1 DEF IsInjective
  <2> QED
    BY <1>3, <2>1, <2>2 DEF TableSound
<1>5. Named
  BY <1>3 DEF Named, Init
<1>6. Numbered
  <2>1. Created = 1 .. 0 /\ 0 \in 0 .. MaxObjects
    BY <1>2, WorkersAssumption DEF Created
  <2> QED
    BY <2>1 DEF Numbered
<1>7. Registering
  BY DEF Init, Registering, Requests
<1>8. \A w \in Pool : AllAddressed(queue[w])
  BY DEF Init, AllAddressed
<1>9. ASSUME NEW t \in Threads PROVE Sound(th[t])
  <2>1. th[t].then = "drain" /\ th[t].item = Marker
    <3> DEFINE a == Idle
    <3>1. a \in ThreadStates /\ a.then = "drain" /\ a.item = Marker
      BY Beginning
    <3>2. th[t] = a \/ th[t] = [a EXCEPT !.pc = "waiting"]
      BY DEF Init, Waiting
    <3> HIDE DEF a
    <3> QED
      BY <3>1, <3>2 DEF ThreadStates
  <2> QED
    BY <2>1 DEF Sound, Addressed
<1> QED
  BY <1>1, <1>4, <1>5, <1>6, <1>7, <1>8, <1>9 DEF IInv

\* Every step keeps it, as long as no message is misused and no two threads
\* are in one component.
LEMMA Keeping ==
    ASSUME IInv, OneThread, NoMisuse', [Next]_vars
    PROVE  IInv'
<1>1. Dsp \in Threads /\ Pool \subseteq Threads
  BY WorkersAssumption DEF Dsp, Threads, Pool
<1>2. CASE Application
  BY <1>2, Applying
<1>3. ASSUME NEW t \in Threads, Thread(t) PROVE IInv'
  BY <1>3, Submitting, Sending, Finishing, Executing, RaisingAndMarking, PurgingQueue, PurgingOver,
     MovingOne, Moved DEF Thread
<1>4. CASE DspTake
  BY <1>4, Taking
<1>5. ASSUME NEW w \in Pool, Runs(w), Worker(w) PROVE IInv'
  BY <1>1, <1>3, <1>5, Receiving, Draining DEF Worker
<1>6. CASE UNCHANGED vars
  <2>1. Goes(Dsp)
    BY <1>1, <1>6, Staying DEF vars
  <2> QED
    BY <1>1, <1>6, <2>1, Going DEF vars
<1> QED
  BY <1>1, <1>2, <1>3, <1>4, <1>5, <1>6 DEF Next, Running

\* The client table is sound for as long as no component is used after its
\* release, except by its own purge, or in place of another, and no two threads are in one component,
\* with any number of workers, ids, components and messages: an id is free or
\* names the one component that has it (xf-core.c:68).
THEOREM TableStaysSound == Spec /\ []NoMisuse /\ []OneThread => []TableSound
<1>1. Init => IInv
  BY Beginnings
<1>2. IInv /\ NoMisuse' /\ OneThread /\ [Next]_vars => IInv'
  BY Keeping
<1>3. IInv => TableSound
  BY DEF IInv
<1> QED
  BY <1>1, <1>2, <1>3, PTL DEF Spec

-----------------------------------------------------------------------------
(* The memory: extents that are free, and extents that are given out *)
VARIABLES avail, taken

FL == INSTANCE FreeList WITH free <- avail, used <- taken

Covers(e, u) == e.addr <= u /\ u < FL!End(e)

\* free extents are apart, and no two of them touch
FreeApart == \A d, e \in avail : d # e => FL!Apart(d, e) /\ FL!End(d) # e.addr

\* every unit of the pool is free or given out
Tiled == \A u \in 0 .. PoolSize - 1 : \E e \in avail \cup taken : Covers(e, u)

Merged == FL!NoOverlap /\ FreeApart /\ Tiled

-----------------------------------------------------------------------------
\* An extent is a record of natural numbers, ends within the pool and is
\* not empty (xf_mm_block_t).
LEMMA ExtentTypes ==
    \A e \in FL!Extent : /\ e.addr \in Nat /\ e.size \in Nat \ {0} /\ FL!End(e) \in Nat
                      /\ e.addr < FL!End(e) /\ FL!End(e) <= PoolSize
                      /\ e = [addr |-> e.addr, size |-> e.size]
  BY PoolSizeAssumption DEF FL!Extent, FL!End

\* The extent between two addresses of the pool (xf_mm_block_t).
LEMMA MakeExtent ==
    ASSUME NEW lo \in Nat, NEW hi \in Nat, lo < hi, hi <= PoolSize
    PROVE  /\ [addr |-> lo, size |-> hi - lo] \in FL!Extent
           /\ FL!End([addr |-> lo, size |-> hi - lo]) = hi
  BY PoolSizeAssumption DEF FL!Extent, FL!End

-----------------------------------------------------------------------------
\* xf_mm_init: one free extent, nothing given out.
LEMMA FreshPool == FL!Init => Merged
<1> SUFFICES ASSUME FL!Init PROVE Merged
  OBVIOUS
<1> DEFINE all == [addr |-> 0, size |-> PoolSize]
<1>1. all \in FL!Extent /\ FL!End(all) = PoolSize
  BY PoolSizeAssumption DEF FL!Extent, FL!End
<1>2. FL!NoOverlap /\ FreeApart
  BY <1>1 DEF FL!Init, FL!NoOverlap, FreeApart
<1>3. Tiled
  BY <1>1, PoolSizeAssumption DEF FL!Init, Tiled, Covers, FL!End
<1> QED
  BY <1>2, <1>3 DEF Merged

\* Giving out the tail of a free extent (xf_mm_alloc) keeps the invariant.
LEMMA GivingOut ==
    ASSUME Merged, NEW size \in 1 .. PoolSize, FL!Alloc(size)
    PROVE  Merged'
<1>1. PICK b \in avail :
        /\ b.size >= size
        /\ taken' = taken \cup {[addr |-> FL!End(b) - size, size |-> size]}
        /\ avail' = (avail \ {b}) \cup
                   (IF b.size = size THEN {} ELSE {[addr |-> b.addr, size |-> b.size - size]})
  BY DEF FL!Alloc
<1> DEFINE given == [addr |-> FL!End(b) - size, size |-> size]
           rest == [addr |-> b.addr, size |-> b.size - size]
<1>2. b \in FL!Extent /\ avail \subseteq FL!Extent /\ taken \subseteq FL!Extent
  BY DEF Merged, FL!NoOverlap
<1>3. /\ given \in FL!Extent /\ FL!End(given) = FL!End(b) /\ given.addr = FL!End(b) - size
      /\ given.addr >= b.addr
  <2>1. /\ FL!End(b) = b.addr + b.size /\ b.addr \in Nat /\ b.size \in Nat /\ FL!End(b) <= PoolSize
        /\ size \in Nat /\ size > 0
    BY <1>2, ExtentTypes, PoolSizeAssumption DEF FL!End
  <2>2. FL!End(b) - size \in Nat /\ FL!End(b) \in Nat /\ size = FL!End(b) - (FL!End(b) - size)
    BY <1>1, <2>1
  <2>3. given \in FL!Extent /\ FL!End(given) = FL!End(b)
    BY <2>1, <2>2, MakeExtent
  <2> QED
    BY <1>1, <2>1, <2>3
<1>4. b.size # size => /\ rest \in FL!Extent /\ FL!End(rest) = given.addr /\ rest.addr = b.addr
                       /\ given.addr > b.addr
  <2> SUFFICES ASSUME b.size # size
               PROVE  /\ rest \in FL!Extent /\ FL!End(rest) = given.addr /\ rest.addr = b.addr
                      /\ given.addr > b.addr
    OBVIOUS
  <2>1. /\ FL!End(b) = b.addr + b.size /\ b.addr \in Nat /\ b.size \in Nat /\ FL!End(b) <= PoolSize
        /\ size \in Nat /\ size > 0 /\ b.size > size
    BY <1>1, <1>2, ExtentTypes, PoolSizeAssumption DEF FL!End
  <2>2. /\ FL!End(b) - size \in Nat /\ b.addr < FL!End(b) - size /\ FL!End(b) - size <= PoolSize
        /\ b.size - size = (FL!End(b) - size) - b.addr
    BY <2>1, PoolSizeAssumption
  <2>3. rest \in FL!Extent /\ FL!End(rest) = FL!End(b) - size
    BY <2>1, <2>2, MakeExtent
  <2> QED
    BY <2>2, <2>3
<1>5. b.size = size => given.addr = b.addr
  BY <1>2, ExtentTypes DEF FL!End
<1> HIDE DEF given, rest
<1>6. taken' = taken \cup {given} /\ avail' = (avail \ {b}) \cup (IF b.size = size THEN {} ELSE {rest})
  BY <1>1 DEF given, rest
<1>7. \A d \in taken : FL!Apart(d, given) /\ FL!Apart(given, d) /\ (b.size # size => FL!Apart(rest, d))
  <2> SUFFICES ASSUME NEW d \in taken
               PROVE  FL!Apart(d, given) /\ FL!Apart(given, d) /\ (b.size # size => FL!Apart(rest, d))
    OBVIOUS
  <2>1. FL!Apart(b, d) /\ d \in FL!Extent
    BY <1>2 DEF Merged, FL!NoOverlap
  <2> QED
    BY <2>1, <1>2, <1>3, <1>4, ExtentTypes DEF FL!Apart
<1>8. \A d \in avail \ {b} :
        /\ FL!Apart(d, given)
        /\ b.size # size => /\ FL!Apart(d, rest) /\ FL!Apart(rest, d)
                            /\ FL!End(d) # rest.addr /\ FL!End(rest) # d.addr
  <2> SUFFICES ASSUME NEW d \in avail \ {b}
               PROVE  /\ FL!Apart(d, given)
                      /\ b.size # size => /\ FL!Apart(d, rest) /\ FL!Apart(rest, d)
                                          /\ FL!End(d) # rest.addr /\ FL!End(rest) # d.addr
    OBVIOUS
  <2>1. FL!Apart(b, d) /\ FL!Apart(d, b) /\ FL!End(d) # b.addr /\ FL!End(b) # d.addr /\ d \in FL!Extent
    BY <1>2 DEF Merged, FreeApart
  <2> QED
    BY <2>1, <1>2, <1>3, <1>4, ExtentTypes DEF FL!Apart
<1>9. b.size # size => FL!Apart(rest, given)
  BY <1>3, <1>4, ExtentTypes DEF FL!Apart
<1>10. FL!NoOverlap'
  <2>1. taken' \subseteq FL!Extent /\ avail' \subseteq FL!Extent
    BY <1>2, <1>3, <1>4, <1>6
  <2>2. \A d, e \in taken' : d # e => FL!Apart(d, e)
    BY <1>6, <1>7 DEF Merged, FL!NoOverlap
  <2>3. \A d \in avail', e \in taken' : FL!Apart(d, e)
    BY <1>6, <1>7, <1>8, <1>9 DEF Merged, FL!NoOverlap
  <2> QED
    BY <2>1, <2>2, <2>3 DEF FL!NoOverlap
<1>11. FreeApart'
  BY <1>6, <1>8 DEF Merged, FreeApart
<1>12. Tiled'
  <2> SUFFICES ASSUME NEW u \in 0 .. PoolSize - 1
               PROVE  \E e \in avail' \cup taken' : Covers(e, u)
    BY DEF Tiled
  <2>1. PICK e \in avail \cup taken : Covers(e, u)
    BY DEF Merged, Tiled
  <2>2. CASE e # b
    BY <1>6, <2>1, <2>2
  <2>3. CASE e = b
    <3>1. Covers(given, u) \/ (b.size # size /\ Covers(rest, u))
      BY <1>2, <1>3, <1>4, <1>5, <2>1, <2>3, ExtentTypes, PoolSizeAssumption DEF Covers
    <3> QED
      BY <1>6, <3>1
  <2> QED
    BY <2>2, <2>3
<1> QED
  BY <1>10, <1>11, <1>12 DEF Merged

\* What is merged with an extent released is one free extent on each side.
LEMMA Neighbour ==
    ASSUME Merged, NEW e \in taken
    PROVE  /\ \A b, c \in FL!Left(e) : b = c
           /\ \A b, c \in FL!Right(e) : b = c
<1> avail \subseteq FL!Extent
  BY DEF Merged, FL!NoOverlap
<1>1. \A b, c \in FL!Left(e) : b = c
  BY ExtentTypes DEF Merged, FreeApart, FL!Apart, FL!Left
<1>2. \A b, c \in FL!Right(e) : b = c
  BY ExtentTypes DEF Merged, FreeApart, FL!Apart, FL!Right
<1> QED
  BY <1>1, <1>2

\* Merging an extent released (xf_mm_free) keeps the invariant.
LEMMA TakingBack ==
    ASSUME Merged, NEW e \in taken, FL!Release(e)
    PROVE  Merged'
<1> DEFINE lo == IF FL!Left(e) = {} THEN e.addr ELSE (CHOOSE b \in FL!Left(e) : TRUE).addr
           hi == IF FL!Right(e) = {} THEN FL!End(e) ELSE FL!End(CHOOSE b \in FL!Right(e) : TRUE)
           whole == [addr |-> lo, size |-> hi - lo]
           kept == avail \ (FL!Left(e) \cup FL!Right(e))
<1>1. /\ taken' = taken \ {e}
      /\ avail' = kept \cup {whole}
  BY DEF FL!Release
<1>2. /\ e \in FL!Extent /\ avail \subseteq FL!Extent /\ taken \subseteq FL!Extent
      /\ FL!Left(e) \subseteq avail /\ FL!Right(e) \subseteq avail
  BY DEF Merged, FL!NoOverlap, FL!Left, FL!Right
<1>3. /\ \A b \in FL!Left(e) : b.addr = lo /\ FL!End(b) = e.addr
      /\ FL!Left(e) = {} => lo = e.addr
  BY Neighbour DEF FL!Left
<1>4. /\ \A b \in FL!Right(e) : FL!End(b) = hi /\ b.addr = FL!End(e)
      /\ FL!Right(e) = {} => hi = FL!End(e)
  BY Neighbour DEF FL!Right
<1> HIDE DEF lo, hi
<1>5. /\ lo \in Nat /\ hi \in Nat /\ hi <= PoolSize
      /\ lo <= e.addr /\ e.addr < FL!End(e) /\ FL!End(e) <= hi
  <2>1. lo \in Nat /\ lo <= e.addr
    BY <1>2, <1>3, ExtentTypes
  <2>2. hi \in Nat /\ FL!End(e) <= hi /\ hi <= PoolSize
    BY <1>2, <1>4, ExtentTypes
  <2> QED
    BY <1>2, <2>1, <2>2, ExtentTypes
<1>6. whole \in FL!Extent /\ FL!End(whole) = hi /\ whole.addr = lo
  <2>1. lo < hi
    BY <1>2, <1>5, ExtentTypes
  <2>2. whole \in FL!Extent /\ FL!End(whole) = hi
    BY <1>5, <2>1, MakeExtent
  <2> QED
    BY <2>2
<1> HIDE DEF whole
\* an extent apart from e and from what is merged with it is apart from the whole
<1>7. ASSUME NEW d \in FL!Extent, FL!Apart(d, e), \A b \in FL!Left(e) \cup FL!Right(e) : FL!Apart(d, b)
      PROVE  FL!Apart(d, whole) /\ FL!Apart(whole, d)
  <2>1. FL!End(d) <= lo \/ e.addr <= d.addr
    <3>1. CASE FL!Left(e) = {}
      BY <1>2, <1>3, <1>7, <3>1, ExtentTypes DEF FL!Apart
    <3>2. CASE FL!Left(e) # {}
      <4>1. PICK b \in FL!Left(e) : TRUE
        BY <3>2
      <4>2. b.addr = lo /\ FL!End(b) = e.addr /\ FL!Apart(d, b) /\ b \in FL!Extent
        BY <1>2, <1>3, <1>7, <4>1
      <4> QED
        BY <4>2 DEF FL!Apart
    <3> QED
      BY <3>1, <3>2
  <2>2. hi <= d.addr \/ FL!End(d) <= FL!End(e)
    <3>1. CASE FL!Right(e) = {}
      BY <1>2, <1>4, <1>7, <3>1, ExtentTypes DEF FL!Apart
    <3>2. CASE FL!Right(e) # {}
      <4>1. PICK b \in FL!Right(e) : TRUE
        BY <3>2
      <4>2. b.addr = FL!End(e) /\ FL!End(b) = hi /\ FL!Apart(d, b) /\ b \in FL!Extent
        BY <1>2, <1>4, <1>7, <4>1
      <4> QED
        BY <4>2 DEF FL!Apart
    <3> QED
      BY <3>1, <3>2
  <2> QED
    BY <1>2, <1>5, <1>6, <1>7, <2>1, <2>2, ExtentTypes DEF FL!Apart
<1>8. \A d \in kept : /\ d \in FL!Extent /\ FL!Apart(d, whole) /\ FL!Apart(whole, d)
                      /\ FL!End(d) # lo /\ d.addr # hi
  <2> SUFFICES ASSUME NEW d \in kept
               PROVE  /\ d \in FL!Extent /\ FL!Apart(d, whole) /\ FL!Apart(whole, d)
                      /\ FL!End(d) # lo /\ d.addr # hi
    OBVIOUS
  <2>1. d \in avail /\ d \notin FL!Left(e) /\ d \notin FL!Right(e) /\ d \in FL!Extent
    BY <1>2
  <2>2. FL!Apart(d, e)
    BY <2>1 DEF Merged, FL!NoOverlap
  <2>3. \A b \in FL!Left(e) \cup FL!Right(e) : FL!Apart(d, b) /\ FL!End(d) # b.addr /\ FL!End(b) # d.addr
    BY <1>2, <2>1 DEF Merged, FreeApart
  <2>4. FL!Apart(d, whole) /\ FL!Apart(whole, d)
    BY <1>7, <2>1, <2>2, <2>3
  <2>5. FL!End(d) # lo
    BY <1>3, <2>1, <2>3 DEF FL!Left
  <2>6. d.addr # hi
    BY <1>4, <2>1, <2>3 DEF FL!Right
  <2> QED
    BY <2>1, <2>4, <2>5, <2>6
<1>9. \A r \in taken \ {e} : FL!Apart(whole, r)
  <2> SUFFICES ASSUME NEW r \in taken \ {e} PROVE FL!Apart(whole, r)
    OBVIOUS
  <2>1. r \in FL!Extent /\ FL!Apart(r, e)
    BY <1>2 DEF Merged, FL!NoOverlap
  <2>2. \A b \in FL!Left(e) \cup FL!Right(e) : FL!Apart(r, b)
    BY <1>2 DEF Merged, FL!NoOverlap, FL!Apart
  <2> QED
    BY <1>7, <2>1, <2>2
<1>10. FL!NoOverlap'
  <2>1. taken' \subseteq FL!Extent /\ avail' \subseteq FL!Extent
    BY <1>1, <1>2, <1>6
  <2>2. \A d, r \in taken' : d # r => FL!Apart(d, r)
    BY <1>1 DEF Merged, FL!NoOverlap
  <2>3. \A d \in avail', r \in taken' : FL!Apart(d, r)
    BY <1>1, <1>9 DEF Merged, FL!NoOverlap
  <2> QED
    BY <2>1, <2>2, <2>3 DEF FL!NoOverlap
<1>11. FreeApart'
  BY <1>1, <1>6, <1>8 DEF Merged, FreeApart
<1>12. Tiled'
  <2> SUFFICES ASSUME NEW u \in 0 .. PoolSize - 1
               PROVE  \E d \in avail' \cup taken' : Covers(d, u)
    BY DEF Tiled
  <2>1. PICK d \in avail \cup taken : Covers(d, u)
    BY DEF Merged, Tiled
  <2>2. CASE d \in kept \cup (taken \ {e})
    BY <1>1, <2>1, <2>2
  <2>3. CASE d \in FL!Left(e) \cup FL!Right(e) \cup {e}
    <3>1. lo <= d.addr /\ FL!End(d) <= hi /\ d \in FL!Extent
      BY <1>2, <1>3, <1>4, <1>5, <2>3, ExtentTypes
    <3>2. Covers(whole, u)
      BY <1>5, <1>6, <2>1, <3>1, ExtentTypes, PoolSizeAssumption DEF Covers
    <3> QED
      BY <1>1, <3>2
  <2> QED
    BY <2>1, <2>2, <2>3
<1> QED
  BY <1>10, <1>11, <1>12 DEF Merged

-----------------------------------------------------------------------------
\* The three facts hold of every pool at all times.
THEOREM MemoryMerged == FL!Spec => []Merged
<1>1. Merged /\ [FL!Next]_(FL!vars) => Merged'
  <2> SUFFICES ASSUME Merged, [FL!Next]_(FL!vars) PROVE Merged'
    OBVIOUS
  <2>1. CASE \E size \in 1 .. PoolSize : FL!Alloc(size)
    BY <2>1, GivingOut
  <2>2. CASE \E e \in taken : FL!Release(e)
    BY <2>2, TakingBack
  <2>3. CASE UNCHANGED FL!vars
    BY <2>3 DEF FL!vars, Merged, FL!NoOverlap, FreeApart, Tiled
  <2> QED
    BY <2>1, <2>2, <2>3 DEF FL!Next
<1> QED
  BY <1>1, FreshPool, PTL DEF FL!Spec

\* Whatever is allocated and released, in any order (xf_mm_alloc and
\* xf_mm_free): what is given out lies in the pool and never overlaps.
THEOREM NoMemoryOverlaps == FL!Spec => []FL!NoOverlap
  BY MemoryMerged, PTL DEF Merged

\* Merging on release keeps free memory in one piece wherever it can be, so
\* that best fit refuses a request only if there is no stretch long enough.
THEOREM NoMemoryFragmented == FL!Spec => []FL!GapsAreFree
<1>1. Merged => FL!GapsAreFree
  <2> SUFFICES ASSUME Merged, NEW e \in FL!Extent, \A r \in taken : FL!Apart(r, e)
               PROVE  \E b \in avail : b.addr <= e.addr /\ FL!End(e) <= FL!End(b)
    BY DEF FL!GapsAreFree
  <2>1. avail \subseteq FL!Extent /\ taken \subseteq FL!Extent
    BY DEF Merged, FL!NoOverlap
  \* a unit of e is not given out, and so lies in a free extent
  <2>2. ASSUME NEW u \in Nat, Covers(e, u) PROVE \E b \in avail : Covers(b, u)
    <3>1. u \in 0 .. PoolSize - 1
      BY <2>2, ExtentTypes, PoolSizeAssumption DEF Covers
    <3>2. PICK b \in avail \cup taken : Covers(b, u)
      BY <3>1 DEF Merged, Tiled
    <3>3. b \notin taken
      BY <2>1, <2>2, <3>2, ExtentTypes DEF Covers, FL!Apart
    <3> QED
      BY <3>2, <3>3
  <2>3. PICK b \in avail : Covers(b, e.addr)
    BY <2>2, ExtentTypes DEF Covers
  <2>4. b \in FL!Extent
    BY <2>1
  <2>5. ASSUME FL!End(b) < FL!End(e) PROVE FALSE
    <3>1. FL!End(b) \in Nat /\ Covers(e, FL!End(b))
      BY <2>3, <2>4, <2>5, ExtentTypes DEF Covers
    <3>2. PICK c \in avail : Covers(c, FL!End(b))
      BY <2>2, <3>1
    <3>3. c \in FL!Extent /\ c # b
      BY <2>1, <2>4, <3>2, ExtentTypes DEF Covers
    <3>4. FL!Apart(b, c) /\ FL!End(b) # c.addr
      BY <3>2, <3>3 DEF Merged, FreeApart
    <3> QED
      BY <2>4, <3>2, <3>3, <3>4, ExtentTypes DEF FL!Apart, Covers
  <2> QED
    BY <2>3, <2>4, <2>5, ExtentTypes DEF Covers
<1> QED
  BY <1>1, MemoryMerged, PTL

-----------------------------------------------------------------------------
(* The scheduler's queue, xf-sched.c: any tasks, and any delays *)
CONSTANTS Tasks, Delays
VARIABLE due

Edf == INSTANCE EdfQueue WITH queue <- due

Waiters == [task : Tasks, delay : Nat]

Queued == due \in Seq(Waiters) /\ Edf!EarliestFirst

\* A set of positions that has every position before one it has is the
\* interval up to their number: the place where xf_sched_put puts a task.
LEMMA PlaceToPut ==
    ASSUME NEW n \in Nat, NEW S \in SUBSET (1 .. n), \A j \in S : 1 .. j \subseteq S
    PROVE  Cardinality(S) \in 0 .. n /\ S = 1 .. Cardinality(S)
<1> DEFINE m == Cardinality(S)
<1>1. IsFiniteSet(S) /\ m \in Nat /\ m <= n
  <2>1. IsFiniteSet(1 .. n) /\ Cardinality(1 .. n) = n
    BY FS_Interval
  <2> QED
    BY <2>1, FS_Subset, FS_CardinalityType
<1>2. S \subseteq 1 .. m
  <2> SUFFICES ASSUME NEW j \in S PROVE j <= m
    BY <1>1
  <2>1. Cardinality(1 .. j) = j
    BY FS_Interval
  <2>2. 1 .. j \in SUBSET S
    OBVIOUS
  <2> QED
    BY <1>1, <2>1, <2>2, FS_Subset
<1>3. IsFiniteSet(1 .. m) /\ Cardinality(1 .. m) = m
  BY <1>1, FS_Interval
<1>4. 1 .. m = S
  BY <1>2, <1>3, FS_Subset
<1> QED
  BY <1>1, <1>4

\* What is where after an insertion behind position k (rb_insert).
LEMMA InsertBehind ==
    ASSUME NEW q \in Seq(Waiters), NEW k \in 0 .. Len(q), NEW e \in Waiters
    PROVE  /\ Edf!InsertAt(q, k + 1, e) \in Seq(Waiters)
           /\ Len(Edf!InsertAt(q, k + 1, e)) = Len(q) + 1
           /\ \A i \in 1 .. Len(q) + 1 :
                 Edf!InsertAt(q, k + 1, e)[i] = IF i <= k THEN q[i] ELSE IF i = k + 1 THEN e ELSE q[i - 1]
<1> DEFINE a == SubSeq(q, 1, (k + 1) - 1)
           b == SubSeq(q, k + 1, Len(q))
<1>1. Len(q) \in Nat /\ k \in Nat /\ \A i \in 1 .. Len(q) : q[i] \in Waiters
  OBVIOUS
<1>2. a \in Seq(Waiters) /\ Len(a) = k /\ \A i \in 1 .. k : a[i] = q[i]
  BY <1>1, SubSeqProperties
<1>3. b \in Seq(Waiters) /\ Len(b) = Len(q) - k /\ \A i \in 1 .. Len(q) - k : b[i] = q[k + i]
  BY <1>1, SubSeqProperties
<1> HIDE DEF a, b
<1>4. <<e>> \in Seq(Waiters) /\ Len(<<e>>) = 1 /\ <<e>>[1] = e
  OBVIOUS
<1>5. /\ a \o <<e>> \in Seq(Waiters) /\ Len(a \o <<e>>) = k + 1
      /\ \A i \in 1 .. k + 1 : (a \o <<e>>)[i] = IF i <= k THEN a[i] ELSE <<e>>[i - k]
  BY <1>2, <1>4, ConcatProperties
<1>6. /\ (a \o <<e>>) \o b \in Seq(Waiters) /\ Len((a \o <<e>>) \o b) = Len(q) + 1
      /\ \A i \in 1 .. Len(q) + 1 :
            ((a \o <<e>>) \o b)[i] = IF i <= k + 1 THEN (a \o <<e>>)[i] ELSE b[i - (k + 1)]
  BY <1>1, <1>3, <1>5, ConcatProperties
<1> DEFINE r == (a \o <<e>>) \o b
<1>7. Edf!InsertAt(q, k + 1, e) = r
  <2>1. Edf!InsertAt(q, k + 1, e) = (SubSeq(q, 1, (k + 1) - 1) \o <<e>>) \o SubSeq(q, k + 1, Len(q))
    BY DEF Edf!InsertAt
  <2> QED
    BY <2>1, Zenon DEF a, b
<1>8. ASSUME NEW i \in 1 .. Len(q) + 1
      PROVE  r[i] = IF i <= k THEN q[i] ELSE IF i = k + 1 THEN e ELSE q[i - 1]
  <2>1. CASE i <= k
    BY <1>1, <1>2, <1>5, <1>6, <2>1
  <2>2. CASE i = k + 1
    <3>1. i <= k + 1 /\ ~(i <= k) /\ i - k = 1 /\ i \in 1 .. k + 1
      BY <1>1, <2>2
    <3>2. r[i] = <<e>>[i - k]
      BY <1>5, <1>6, <3>1
    <3> QED
      BY <1>4, <2>2, <3>1, <3>2
  <2>3. CASE i > k + 1
    <3>1. i - (k + 1) \in 1 .. Len(q) - k /\ k + (i - (k + 1)) = i - 1
      BY <1>1, <2>3
    <3>2. r[i] = b[i - (k + 1)]
      BY <1>1, <1>6, <2>3
    <3>3. b[i - (k + 1)] = q[k + (i - (k + 1))]
      BY <1>3, <3>1
    <3>4. r[i] = q[i - 1]
      BY <3>1, <3>2, <3>3
    <3>5. ~(i <= k) /\ i # k + 1
      BY <1>1, <2>3
    <3> QED
      BY <3>4, <3>5
  <2>4. i <= k \/ i = k + 1 \/ i > k + 1
    BY <1>1
  <2> QED
    BY <2>1, <2>2, <2>3, <2>4
<1>9. r \in Seq(Waiters) /\ Len(r) = Len(q) + 1
  BY <1>6
<1> HIDE DEF r
<1> QED
  BY <1>7, <1>8, <1>9

\* What is where after the removal of position i (rb_delete).
LEMMA RemoveFrom ==
    ASSUME NEW q \in Seq(Waiters), NEW i \in 1 .. Len(q)
    PROVE  /\ Edf!RemoveAt(q, i) \in Seq(Waiters)
           /\ Len(Edf!RemoveAt(q, i)) = Len(q) - 1
           /\ \A j \in 1 .. Len(q) - 1 : Edf!RemoveAt(q, i)[j] = IF j < i THEN q[j] ELSE q[j + 1]
<1> DEFINE a == SubSeq(q, 1, i - 1)
           b == SubSeq(q, i + 1, Len(q))
<1>1. Len(q) \in Nat /\ \A j \in 1 .. Len(q) : q[j] \in Waiters
  OBVIOUS
<1>2. a \in Seq(Waiters) /\ Len(a) = i - 1 /\ \A j \in 1 .. i - 1 : a[j] = q[j]
  BY <1>1, SubSeqProperties
<1>3. b \in Seq(Waiters) /\ Len(b) = Len(q) - i /\ \A j \in 1 .. Len(q) - i : b[j] = q[i + j]
  BY <1>1, SubSeqProperties
<1> HIDE DEF a, b
<1>4. /\ a \o b \in Seq(Waiters) /\ Len(a \o b) = Len(q) - 1
      /\ \A j \in 1 .. Len(q) - 1 : (a \o b)[j] = IF j <= i - 1 THEN a[j] ELSE b[j - (i - 1)]
  <2>1. Len(a) + Len(b) = Len(q) - 1
    BY <1>1, <1>2, <1>3
  <2>2. /\ a \o b \in Seq(Waiters) /\ Len(a \o b) = Len(a) + Len(b)
        /\ \A j \in 1 .. Len(a) + Len(b) :
              (a \o b)[j] = IF j <= Len(a) THEN a[j] ELSE b[j - Len(a)]
    BY <1>2, <1>3, ConcatProperties
  <2> QED
    BY <1>2, <2>1, <2>2
<1>5. ASSUME NEW j \in 1 .. Len(q) - 1 PROVE (a \o b)[j] = IF j < i THEN q[j] ELSE q[j + 1]
  <2>1. CASE j < i
    BY <1>1, <1>2, <1>4, <2>1
  <2>2. CASE ~(j < i)
    <3>1. j - (i - 1) \in 1 .. Len(q) - i /\ i + (j - (i - 1)) = j + 1
      BY <1>1, <2>2
    <3> QED
      BY <1>1, <1>3, <1>4, <2>2, <3>1
  <2> QED
    BY <2>1, <2>2
<1>6. Edf!RemoveAt(q, i) = a \o b
  BY Zenon DEF Edf!RemoveAt, a, b
<1> QED
  BY <1>4, <1>5, <1>6

\* The queue is a sequence of entries (xf_sched_t).
LEMMA WaiterTypes ==
    ASSUME Queued
    PROVE  /\ due \in Seq(Waiters) /\ DOMAIN due = 1 .. Len(due) /\ Len(due) \in Nat
           /\ \A i \in 1 .. Len(due) : due[i] \in Waiters /\ due[i].delay \in Nat
           /\ \A i, j \in 1 .. Len(due) : i <= j => due[i].delay <= due[j].delay
           /\ \A i, j \in 1 .. Len(due) : due[i].task = due[j].task => i = j
<1>1. due \in Seq(Waiters) /\ Edf!EarliestFirst
  BY DEF Queued
<1>2. DOMAIN due = 1 .. Len(due) /\ Len(due) \in Nat /\ \A i \in 1 .. Len(due) : due[i] \in Waiters
  BY <1>1
<1>3. \A w \in Waiters : w.delay \in Nat
  BY DEF Waiters
<1> QED
  BY <1>1, <1>2, <1>3 DEF Edf!EarliestFirst

\* xf_sched_put: the task goes behind all that are due no later, before all
\* that are due later.
LEMMA Putting ==
    ASSUME Delays \subseteq Nat, Queued, Edf!Put(due, due')
    PROVE  /\ due' \in Seq(Waiters) /\ Len(due') = Len(due) + 1
           /\ \E k \in 0 .. Len(due), e \in Waiters :
                /\ \A i \in 1 .. Len(due) : due[i].task # e.task
                /\ \A i \in 1 .. Len(due) : i <= k <=> due[i].delay <= e.delay
                /\ \A i \in 1 .. Len(due) + 1 :
                      due'[i] = IF i <= k THEN due[i] ELSE IF i = k + 1 THEN e ELSE due[i - 1]
<1>1. PICK x \in DOMAIN due' :
        /\ due'[x] \in [task : Tasks \ Edf!ToSet(Edf!TaskOf(due)), delay : Delays]
        /\ due' = Edf!Inserted(due, due'[x])
  BY DEF Edf!Put
<1> DEFINE e == due'[x]
           S == {i \in DOMAIN due : due[i].delay <= e.delay}
           k == Cardinality(S)
<1>2. /\ due \in Seq(Waiters) /\ DOMAIN due = 1 .. Len(due) /\ Len(due) \in Nat
      /\ \A i \in 1 .. Len(due) : due[i] \in Waiters /\ due[i].delay \in Nat
  BY WaiterTypes
<1>3. e \in Waiters /\ e.delay \in Nat /\ e.task \notin Edf!ToSet(Edf!TaskOf(due))
  BY <1>1 DEF Waiters
<1>4. \A i \in 1 .. Len(due) : due[i].task # e.task
  BY <1>2, <1>3 DEF Edf!ToSet, Edf!TaskOf
<1>5. due' = Edf!InsertAt(due, k + 1, e)
  <2>1. due' = Edf!InsertAt(due, Edf!Cardinality(S) + 1, e)
    BY <1>1, Zenon DEF Edf!Inserted
  <2>2. Edf!Cardinality(S) = k
    BY Zenon DEF Edf!Cardinality, Cardinality
  <2> QED
    BY <2>1, <2>2, Zenon
<1> HIDE DEF e
<1>6. S \in SUBSET (1 .. Len(due)) /\ \A j \in S : 1 .. j \subseteq S
  <2>1. S \in SUBSET (1 .. Len(due))
    BY <1>2
  <2> SUFFICES ASSUME NEW j \in S, NEW i \in 1 .. j PROVE i \in S
    BY <2>1
  <2>2. i \in DOMAIN due /\ j \in DOMAIN due /\ i <= j /\ due[j].delay <= e.delay
    BY <1>2, <2>1
  <2>3. due[i].delay <= due[j].delay
    BY <2>2 DEF Queued, Edf!EarliestFirst
  <2> QED
    BY <1>2, <1>3, <2>2, <2>3
<1>7. k \in 0 .. Len(due) /\ S = 1 .. k
  <2> HIDE DEF S
  <2> QED
    BY <1>2, <1>6, PlaceToPut
<1>8. \A i \in 1 .. Len(due) : i <= k <=> due[i].delay <= e.delay
  <2> SUFFICES ASSUME NEW i \in 1 .. Len(due) PROVE i <= k <=> i \in S
    BY <1>2
  <2> HIDE DEF S
  <2> QED
    BY <1>7
<1> HIDE DEF k, S
<1>9. /\ due' \in Seq(Waiters) /\ Len(due') = Len(due) + 1
      /\ \A i \in 1 .. Len(due) + 1 :
            due'[i] = IF i <= k THEN due[i] ELSE IF i = k + 1 THEN e ELSE due[i - 1]
  <2> DEFINE r == Edf!InsertAt(due, k + 1, e)
  <2>1. /\ r \in Seq(Waiters) /\ Len(r) = Len(due) + 1
        /\ \A i \in 1 .. Len(due) + 1 :
              r[i] = IF i <= k THEN due[i] ELSE IF i = k + 1 THEN e ELSE due[i - 1]
    BY <1>2, <1>3, <1>7, InsertBehind
  <2> HIDE DEF r
  <2>2. due' = r
    BY <1>5 DEF r
  <2> QED
    BY <2>1, <2>2
<1> QED
  BY <1>3, <1>4, <1>7, <1>8, <1>9

\* xf_sched_get: what is left keeps its order, and comes due sooner by what
\* the clock advanced.
LEMMA Getting ==
    ASSUME Queued, Edf!Get(due, due')
    PROVE  /\ due' \in Seq(Waiters) /\ Len(due') = Len(due) - 1
           /\ \A i \in 1 .. Len(due) - 1 : /\ due'[i].task = due[i + 1].task
                                           /\ due'[i].delay = due[i + 1].delay - due[1].delay
<1>1. /\ due \in Seq(Waiters) /\ DOMAIN due = 1 .. Len(due) /\ Len(due) \in Nat /\ Len(due) # 0
      /\ \A i \in 1 .. Len(due) : due[i] \in Waiters /\ due[i].delay \in Nat
  <2>1. due # <<>>
    BY DEF Edf!Get
  <2> QED
    BY <2>1, WaiterTypes
<1>2. due' = [i \in 1 .. Len(due) - 1 |-> [due[i + 1] EXCEPT !.delay = @ - due[1].delay]]
  BY DEF Edf!Get, Edf!Advanced
<1>3. ASSUME NEW i \in 1 .. Len(due) - 1
      PROVE  /\ [due[i + 1] EXCEPT !.delay = @ - due[1].delay] \in Waiters
             /\ [due[i + 1] EXCEPT !.delay = @ - due[1].delay].task = due[i + 1].task
             /\ [due[i + 1] EXCEPT !.delay = @ - due[1].delay].delay = due[i + 1].delay - due[1].delay
  <2>1. 1 \in DOMAIN due /\ i + 1 \in DOMAIN due /\ 1 <= i + 1
    BY <1>1
  <2>2. due[1].delay <= due[i + 1].delay
    BY <2>1 DEF Queued, Edf!EarliestFirst
  <2>3. due[i + 1].delay - due[1].delay \in Nat
    BY <1>1, <2>1, <2>2
  <2> QED
    BY <1>1, <2>1, <2>3 DEF Waiters
<1>4. due' \in Seq(Waiters) /\ Len(due') = Len(due) - 1
  BY <1>1, <1>2, <1>3
<1> QED
  BY <1>2, <1>3, <1>4

-----------------------------------------------------------------------------
\* One step keeps the order and overtakes nobody: xf_sched_put, xf_sched_get
\* and xf_sched_cancel.
LEMMA EdfStep ==
    ASSUME Delays \subseteq Nat, Queued, [Edf!Next]_due
    PROVE  /\ Queued'
           /\ \A i, j \in DOMAIN due, k, l \in DOMAIN due' :
                 i < j /\ due'[k].task = due[i].task /\ due'[l].task = due[j].task => k < l
<1>1. /\ due \in Seq(Waiters) /\ DOMAIN due = 1 .. Len(due) /\ Len(due) \in Nat
      /\ \A i \in 1 .. Len(due) : due[i] \in Waiters /\ due[i].delay \in Nat
      /\ \A i, j \in 1 .. Len(due) : i <= j => due[i].delay <= due[j].delay
      /\ \A i, j \in 1 .. Len(due) : due[i].task = due[j].task => i = j
  BY WaiterTypes
<1> DEFINE Ordered(r) ==
             /\ r \in Seq(Waiters)
             /\ \A i, j \in 1 .. Len(r) : i <= j => r[i].delay <= r[j].delay
             /\ \A i, j \in 1 .. Len(r) : r[i].task = r[j].task => i = j
           Kept(r) ==
             \A i, j \in 1 .. Len(due), k, l \in 1 .. Len(r) :
                 i < j /\ r[k].task = due[i].task /\ r[l].task = due[j].task => k < l
<1>2. SUFFICES Ordered(due') /\ Kept(due')
  <2>1. DOMAIN due' = 1 .. Len(due')
    BY <1>2
  <2>2. Queued'
    BY <1>2, <2>1 DEF Queued, Edf!EarliestFirst
  <2> QED
    BY <1>1, <1>2, <2>1, <2>2
<1>3. CASE Edf!Put(due, due')
  <2>1. /\ due' \in Seq(Waiters) /\ Len(due') = Len(due) + 1
        /\ \E k \in 0 .. Len(due), e \in Waiters :
             /\ \A i \in 1 .. Len(due) : due[i].task # e.task
             /\ \A i \in 1 .. Len(due) : i <= k <=> due[i].delay <= e.delay
             /\ \A i \in 1 .. Len(due) + 1 :
                   due'[i] = IF i <= k THEN due[i] ELSE IF i = k + 1 THEN e ELSE due[i - 1]
    BY <1>3, Putting
  <2>2. PICK k \in 0 .. Len(due), e \in Waiters :
          /\ \A i \in 1 .. Len(due) : due[i].task # e.task
          /\ \A i \in 1 .. Len(due) : i <= k <=> due[i].delay <= e.delay
          /\ \A i \in 1 .. Len(due) + 1 :
                due'[i] = IF i <= k THEN due[i] ELSE IF i = k + 1 THEN e ELSE due[i - 1]
    BY <2>1
  <2>3. k \in Nat /\ e.delay \in Nat
    BY DEF Waiters
  <2>4. \A i, j \in 1 .. Len(due) + 1 : i <= j => due'[i].delay <= due'[j].delay
    <3> SUFFICES ASSUME NEW i \in 1 .. Len(due) + 1, NEW j \in 1 .. Len(due) + 1, i <= j
                 PROVE  due'[i].delay <= due'[j].delay
      OBVIOUS
    <3>1. CASE j <= k
      BY <1>1, <2>2, <2>3, <3>1
    <3>2. CASE j = k + 1
      BY <1>1, <2>2, <2>3, <3>2
    <3>3. CASE j > k + 1
      <4>1. due'[j] = due[j - 1] /\ j - 1 \in 1 .. Len(due) /\ ~(j - 1 <= k)
        BY <1>1, <2>2, <2>3, <3>3
      <4>2. due[j - 1].delay > e.delay /\ due[j - 1].delay \in Nat
        BY <1>1, <2>2, <2>3, <4>1
      <4>3. CASE i <= k
        <5>1. due'[i] = due[i] /\ i \in 1 .. Len(due) /\ due[i].delay <= e.delay
          BY <1>1, <2>2, <2>3, <4>3
        <5> QED
          BY <1>1, <2>3, <4>1, <4>2, <5>1
      <4>4. CASE i = k + 1
        <5>1. due'[i] = e
          BY <2>2, <2>3, <4>4
        <5> QED
          BY <2>3, <4>1, <4>2, <5>1
      <4>5. CASE i > k + 1
        <5>1. due'[i] = due[i - 1] /\ i - 1 \in 1 .. Len(due) /\ i - 1 <= j - 1
          BY <1>1, <2>2, <2>3, <4>5
        <5> QED
          BY <1>1, <4>1, <5>1
      <4> QED
        BY <2>3, <4>3, <4>4, <4>5
    <3> QED
      BY <1>1, <2>3, <3>1, <3>2, <3>3
  <2>5. \A i, j \in 1 .. Len(due) + 1 : due'[i].task = due'[j].task => i = j
    <3> SUFFICES ASSUME NEW i \in 1 .. Len(due) + 1, NEW j \in 1 .. Len(due) + 1,
                        due'[i].task = due'[j].task
                 PROVE  i = j
      OBVIOUS
    <3>1. CASE i = k + 1 \/ j = k + 1
      BY <1>1, <2>2, <2>3, <3>1
    <3>2. CASE i # k + 1 /\ j # k + 1
      <4> DEFINE x == IF i <= k THEN i ELSE i - 1
                 y == IF j <= k THEN j ELSE j - 1
      <4>1. x \in 1 .. Len(due) /\ y \in 1 .. Len(due) /\ due'[i] = due[x] /\ due'[j] = due[y]
        BY <1>1, <2>2, <2>3, <3>2
      <4>2. x = y
        <5> HIDE DEF x, y
        <5> QED
          BY <1>1, <4>1
      <4> QED
        BY <1>1, <2>3, <3>2, <4>2
    <3> QED
      BY <3>1, <3>2
  <2>6. Kept(due')
    <3> SUFFICES ASSUME NEW i \in 1 .. Len(due), NEW j \in 1 .. Len(due),
                        NEW x \in 1 .. Len(due) + 1, NEW y \in 1 .. Len(due) + 1,
                        i < j, due'[x].task = due[i].task, due'[y].task = due[j].task
                 PROVE  x < y
      BY <2>1
    <3>1. i = (IF x <= k THEN x ELSE x - 1) /\ x # k + 1
      <4>1. CASE x <= k
        BY <1>1, <2>2, <2>3, <4>1
      <4>2. CASE x = k + 1
        BY <2>2, <2>3, <4>2
      <4>3. CASE x > k + 1
        <5>1. x - 1 \in 1 .. Len(due) /\ due'[x] = due[x - 1]
          BY <1>1, <2>2, <2>3, <4>3
        <5>2. i = x - 1
          BY <1>1, <5>1
        <5> QED
          BY <2>3, <4>3, <5>2
      <4> QED
        BY <2>3, <4>1, <4>2, <4>3
    <3>2. j = (IF y <= k THEN y ELSE y - 1) /\ y # k + 1
      <4>1. CASE y <= k
        BY <1>1, <2>2, <2>3, <4>1
      <4>2. CASE y = k + 1
        BY <2>2, <2>3, <4>2
      <4>3. CASE y > k + 1
        <5>1. y - 1 \in 1 .. Len(due) /\ due'[y] = due[y - 1]
          BY <1>1, <2>2, <2>3, <4>3
        <5>2. j = y - 1
          BY <1>1, <5>1
        <5> QED
          BY <2>3, <4>3, <5>2
      <4> QED
        BY <2>3, <4>1, <4>2, <4>3
    <3> QED
      BY <2>3, <3>1, <3>2
  <2> QED
    BY <2>1, <2>4, <2>5, <2>6
<1>4. CASE Edf!Get(due, due')
  <2>1. /\ due' \in Seq(Waiters) /\ Len(due') = Len(due) - 1 /\ Len(due) # 0
        /\ \A i \in 1 .. Len(due) - 1 : /\ due'[i].task = due[i + 1].task
                                        /\ due'[i].delay = due[i + 1].delay - due[1].delay
    <3>1. due # <<>>
      BY <1>4 DEF Edf!Get
    <3>2. Len(due) # 0
      BY <1>1, <3>1
    <3> QED
      BY <1>4, <3>2, Getting
  <2>2. \A i \in 1 .. Len(due) - 1 : i + 1 \in 1 .. Len(due) /\ due[i + 1].delay \in Nat
    BY <1>1
  <2>3. \A i, j \in 1 .. Len(due) - 1 : i <= j => due'[i].delay <= due'[j].delay
    <3> SUFFICES ASSUME NEW i \in 1 .. Len(due) - 1, NEW j \in 1 .. Len(due) - 1, i <= j
                 PROVE  due'[i].delay <= due'[j].delay
      OBVIOUS
    <3>1. 1 \in 1 .. Len(due) /\ due[1].delay \in Nat
      BY <1>1, <2>1
    <3>2. i + 1 \in 1 .. Len(due) /\ j + 1 \in 1 .. Len(due) /\ i + 1 <= j + 1
      BY <2>2
    <3>3. due[i + 1].delay <= due[j + 1].delay
      BY <1>1, <3>2
    <3> QED
      BY <2>1, <2>2, <3>1, <3>3
  <2>4. \A i, j \in 1 .. Len(due) - 1 : due'[i].task = due'[j].task => i = j
    BY <1>1, <2>1, <2>2
  <2>5. Kept(due')
    BY <1>1, <2>1, <2>2
  <2> QED
    BY <2>1, <2>3, <2>4, <2>5
<1>5. CASE Edf!Cancel(due, due')
  <2>1. PICK x \in 1 .. Len(due) : due' = Edf!RemoveAt(due, x)
    BY <1>1, <1>5 DEF Edf!Cancel
  <2>2. /\ due' \in Seq(Waiters) /\ Len(due') = Len(due) - 1
        /\ \A j \in 1 .. Len(due) - 1 : due'[j] = IF j < x THEN due[j] ELSE due[j + 1]
    BY <1>1, <2>1, RemoveFrom
  <2>3. \A j \in 1 .. Len(due) - 1 : j \in 1 .. Len(due) /\ j + 1 \in 1 .. Len(due)
    BY <1>1
  <2>4. \A i, j \in 1 .. Len(due) - 1 : i <= j => due'[i].delay <= due'[j].delay
    BY <1>1, <2>2, <2>3
  <2>5. \A i, j \in 1 .. Len(due) - 1 : due'[i].task = due'[j].task => i = j
    BY <1>1, <2>2, <2>3
  <2>6. Kept(due')
    <3> SUFFICES ASSUME NEW i \in 1 .. Len(due), NEW j \in 1 .. Len(due),
                        NEW k \in 1 .. Len(due) - 1, NEW l \in 1 .. Len(due) - 1,
                        i < j, due'[k].task = due[i].task, due'[l].task = due[j].task
                 PROVE  k < l
      BY <2>2
    <3>1. i = (IF k < x THEN k ELSE k + 1)
      BY <1>1, <2>2, <2>3
    <3>2. j = (IF l < x THEN l ELSE l + 1)
      BY <1>1, <2>2, <2>3
    <3> QED
      BY <3>1, <3>2
  <2> QED
    BY <2>2, <2>4, <2>5, <2>6
<1>6. CASE UNCHANGED due
  BY <1>1, <1>6
<1> QED
  BY <1>3, <1>4, <1>5, <1>6 DEF Edf!Next

\* Whatever is scheduled, executed and cancelled, the task at the head of the
\* queue is due no later than the others and no task waits twice, for any
\* number of tasks and any delays (xf_sched_put, xf_sched_get).
THEOREM HeadIsEarliest ==
    ASSUME Delays \subseteq Nat
    PROVE  Edf!Spec => []Edf!EarliestFirst
<1>1. Edf!Init => Queued
  BY DEF Edf!Init, Queued, Edf!EarliestFirst
<1>2. Queued /\ [Edf!Next]_due => Queued'
  BY EdfStep
<1>3. Queued => Edf!EarliestFirst
  BY DEF Queued
<1> QED
  BY <1>1, <1>2, <1>3, PTL DEF Edf!Spec

\* Of two tasks in the queue the second never overtakes the first: among
\* tasks due at the same time the first to come is the first served.
THEOREM NobodyOvertakes ==
    ASSUME Delays \subseteq Nat
    PROVE  Edf!Spec => Edf!NoOvertaking
<1>1. Edf!Init => Queued
  BY DEF Edf!Init, Queued, Edf!EarliestFirst
<1>2. Queued /\ [Edf!Next]_due => Queued'
  BY EdfStep
<1>3. Queued /\ [Edf!Next]_due =>
        [\A i, j \in DOMAIN due, k, l \in DOMAIN due' :
            i < j /\ due'[k].task = due[i].task /\ due'[l].task = due[j].task => k < l]_due
  BY EdfStep
<1> QED
  BY <1>1, <1>2, <1>3, PTL DEF Edf!Spec, Edf!NoOvertaking
=============================================================================
