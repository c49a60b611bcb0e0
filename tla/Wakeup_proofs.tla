------------------------------ MODULE Wakeup_proofs ------------------------------
(***************************************************************************)
(* What state the tracks of a mixer are in, and that a mixer which could   *)
(* process is going to, for any number of tracks, buffers of any length,   *)
(* and messages in any order.                                              *)
(*                                                                         *)
(* An operator of xf-io.c is shown to change One port, and what it leaves  *)
(* of the messages, of the flags and of the data at that port.  From this, *)
(* handler by handler, follows that a component is put into the            *)
(* scheduler's tree, or can not process, or could before.                  *)
(***************************************************************************)
EXTENDS DataFlow, FiniteSetTheorems, TLAPS

Fields    == {"class", "ni", "no", "entry", "state", "task", "probe", "ret", "in", "out", "avail",
              "over", "sent", "bugs"}
InFields  == {"queue", "size", "filled", "access", "remaining", "flags"}
OutFields == {"queue", "pool", "pools", "sized", "unroute", "flags"}

\* the record of a component has its fields, and the ports have theirs
Made(d) ==
    /\ Fields \subseteq DOMAIN d
    /\ d.ni \in Nat /\ d.no \in Nat
    /\ DOMAIN d.in = 0 .. d.ni - 1 /\ DOMAIN d.avail = DOMAIN d.in
    /\ DOMAIN d.out = d.ni .. d.ni + d.no
    /\ \A i \in DOMAIN d.in : InFields \subseteq DOMAIN d.in[i]
    /\ \A o \in DOMAIN d.out : OutFields \subseteq DOMAIN d.out[o]

\* d is a but for its ports, what it sends and what it asserts
Alike(a, d) ==
    /\ d.class = a.class /\ d.ni = a.ni /\ d.no = a.no /\ d.entry = a.entry
    /\ d.state = a.state /\ d.task = a.task /\ d.probe = a.probe /\ d.ret = a.ret
    /\ d.avail = a.avail

\* not even at its ports
Aside(a, d) == Made(d) /\ Alike(a, d) /\ d.in = a.in /\ d.out = a.out

\* at one input, or one output
OneInput(a, d, i) ==
    /\ Made(d) /\ Alike(a, d) /\ d.out = a.out
    /\ DOMAIN d.in = DOMAIN a.in /\ \A j \in DOMAIN a.in \ {i} : d.in[j] = a.in[j]

OneOutput(a, d, o) ==
    /\ Made(d) /\ Alike(a, d) /\ d.in = a.in
    /\ DOMAIN d.out = DOMAIN a.out /\ \A q \in DOMAIN a.out \ {o} : d.out[q] = a.out[q]

\* the flags of the classes, which the functions of xf-io.c leave alone
Custom(p) == p.flags \ BaseInputFlags

-----------------------------------------------------------------------------
(* Input ports *)

\* Without an internal buffer the head of the queue is what is read; the end
\* of the stream is the last message, and the port is done when it is reached.
Exposed(p) ==
    /\ p.queue = <<>> => ~p.access
    /\ p.queue # <<>> => (p.access <=> ~Head(p.queue).nul) /\ (Head(p.queue).nul => Done(p))
    /\ \A k \in DOMAIN p.queue : p.queue[k].nul => k = Len(p.queue) /\ "ENABLED" \notin p.flags
    /\ Done(p) => "ENABLED" \notin p.flags /\ (p.queue = <<>> \/ Head(p.queue).nul)

\* An input port: while a flush is under way at most its message is queued.
Port(p) ==
    /\ p.queue \in Seq(Data) /\ "CREATED" \in p.flags
    /\ p.size \in Nat /\ p.filled \in 0 .. p.size /\ p.remaining \in Nat
    /\ "PURGING" \in p.flags => Len(p.queue) <= 1 /\ (p.size = 0 => ~p.access /\ ~Done(p))
    /\ p.size = 0 /\ "PURGING" \notin p.flags => Exposed(p)

\* a sequence, of whatever messages
IsSeq(s) == \E S : s \in Seq(S)

\* what the operators leave of an input
Stays(p, q) == Custom(q) = Custom(p) /\ q.size = p.size /\ (IsSeq(p.queue) => IsSeq(q.queue))

\* Messages may be added to a sequence, and taken away.
LEMMA Sequence ==
    ASSUME NEW s, IsSeq(s)
    PROVE  /\ \A m : IsSeq(Append(s, m))
           /\ s # <<>> => IsSeq(Tail(s))
           /\ \E n \in Nat : DOMAIN s = 1 .. n /\ (n = 0 <=> s = <<>>)
<1>1. PICK S : s \in Seq(S)
  BY DEF IsSeq
<1>2. ASSUME NEW m PROVE IsSeq(Append(s, m))
  <2>1. s \in Seq(S \cup {m})
    BY <1>1
  <2>2. Append(s, m) \in Seq(S \cup {m})
    BY <2>1
  <2> QED
    BY <2>2 DEF IsSeq
<1>3. s # <<>> => IsSeq(Tail(s))
  BY <1>1 DEF IsSeq
<1>4. Len(s) \in Nat /\ DOMAIN s = 1 .. Len(s) /\ (Len(s) = 0 <=> s = <<>>)
  BY <1>1
<1> QED
  BY <1>2, <1>3, <1>4

\* A response changes no port, nor does an assertion.
LEMMA Answering ==
    ASSUME NEW d, Made(d)
    PROVE  /\ \A h, x : Aside(d, Expect(d, h, x))
           /\ \A m : /\ Aside(d, Response(d, m)) /\ Aside(d, ResponseOk(d, m))
                     /\ Aside(d, ResponseErr(d, m)) /\ Aside(d, ResponseFailure(d, m))
           /\ \A m, n : Aside(d, ResponseData(d, m, n))
           /\ \A ms : Aside(d, RespondAllOk(d, ms))
<1>1. \A x : Aside(d, [d EXCEPT !.sent = x]) /\ Aside(d, [d EXCEPT !.bugs = x])
  BY DEF Made, Aside, Alike, Fields
<1>2. Aside(d, d)
  BY DEF Aside, Alike
<1>3. \A h, x : Aside(d, Expect(d, h, x))
  BY <1>1, <1>2 DEF Expect
<1>4. \A m : Aside(d, Response(d, m))
  BY <1>1 DEF Response
<1>5. \A ms : Aside(d, RespondAllOk(d, ms))
  BY <1>1 DEF RespondAllOk
<1> QED
  BY <1>3, <1>4, <1>5 DEF ResponseOk, ResponseErr, ResponseFailure, ResponseData

\* What follows each other at one port.
LEMMA AtOne ==
    ASSUME NEW a, NEW d, NEW e
    PROVE  /\ \A i : OneInput(a, d, i) /\ OneInput(d, e, i) => OneInput(a, e, i)
           /\ \A o : OneOutput(a, d, o) /\ OneOutput(d, e, o) => OneOutput(a, e, o)
           /\ Aside(a, d) => \A i : OneInput(a, d, i) /\ OneOutput(a, d, i)
           /\ Aside(a, d) /\ Aside(d, e) => Aside(a, e)
  BY DEF Aside, OneInput, OneOutput, Alike

\* The port is what is put there.
LEMMA AtPort ==
    ASSUME NEW d, Made(d)
    PROVE  /\ \A i \in DOMAIN d.in : \A p : InFields \subseteq DOMAIN p =>
                OneInput(d, [d EXCEPT !.in[i] = p], i) /\ [d EXCEPT !.in[i] = p].in[i] = p
           /\ \A o \in DOMAIN d.out : \A p : OutFields \subseteq DOMAIN p =>
                OneOutput(d, [d EXCEPT !.out[o] = p], o) /\ [d EXCEPT !.out[o] = p].out[o] = p
           /\ \A i, p : i \notin DOMAIN d.in => OneInput(d, [d EXCEPT !.in[i] = p], i)
           /\ \A o, p : o \notin DOMAIN d.out => OneOutput(d, [d EXCEPT !.out[o] = p], o)
<1>1. ASSUME NEW i \in DOMAIN d.in, NEW p, InFields \subseteq DOMAIN p
      PROVE  OneInput(d, [d EXCEPT !.in[i] = p], i) /\ [d EXCEPT !.in[i] = p].in[i] = p
  <2> DEFINE e == [d EXCEPT !.in[i] = p]
  <2>1. e.in = [d.in EXCEPT ![i] = p]
    BY DEF Made
  <2>2. /\ DOMAIN e = DOMAIN d /\ e.out = d.out /\ Alike(d, e)
    BY DEF Made, Alike, Fields
  <2> HIDE DEF e
  <2>3. DOMAIN e.in = DOMAIN d.in /\ e.in[i] = p /\ \A j \in DOMAIN d.in \ {i} : e.in[j] = d.in[j]
    BY <2>1
  <2>4. Made(e)
    BY <1>1, <2>2, <2>3 DEF Made, Alike
  <2> QED
    BY <2>2, <2>3, <2>4 DEF OneInput, e
<1>2. ASSUME NEW o \in DOMAIN d.out, NEW p, OutFields \subseteq DOMAIN p
      PROVE  OneOutput(d, [d EXCEPT !.out[o] = p], o) /\ [d EXCEPT !.out[o] = p].out[o] = p
  <2> DEFINE e == [d EXCEPT !.out[o] = p]
  <2>1. e.out = [d.out EXCEPT ![o] = p]
    BY DEF Made
  <2>2. /\ DOMAIN e = DOMAIN d /\ e.in = d.in /\ Alike(d, e)
    BY DEF Made, Alike, Fields
  <2> HIDE DEF e
  <2>3. DOMAIN e.out = DOMAIN d.out /\ e.out[o] = p /\ \A q \in DOMAIN d.out \ {o} : e.out[q] = d.out[q]
    BY <2>1
  <2>4. Made(e)
    BY <1>2, <2>2, <2>3 DEF Made, Alike
  <2> QED
    BY <2>2, <2>3, <2>4 DEF OneOutput, e
<1>3. ASSUME NEW i, i \notin DOMAIN d.in, NEW p PROVE OneInput(d, [d EXCEPT !.in[i] = p], i)
  <2> DEFINE x == [d.in EXCEPT ![i] = p]
  <2>1. DOMAIN x = DOMAIN d.in /\ \A j \in DOMAIN d.in : x[j] = d.in[j]
    BY <1>3
  <2> HIDE DEF x
  <2>2. OneInput(d, [d EXCEPT !.in = x], i)
    BY <2>1 DEF OneInput, Alike, Made, Fields
  <2> QED
    BY <2>2 DEF x
<1>4. ASSUME NEW o, o \notin DOMAIN d.out, NEW p PROVE OneOutput(d, [d EXCEPT !.out[o] = p], o)
  <2> DEFINE x == [d.out EXCEPT ![o] = p]
  <2>1. DOMAIN x = DOMAIN d.out /\ \A q \in DOMAIN d.out : x[q] = d.out[q]
    BY <1>4
  <2> HIDE DEF x
  <2>2. OneOutput(d, [d EXCEPT !.out = x], o)
    BY <2>1 DEF OneOutput, Alike, Made, Fields
  <2> QED
    BY <2>2 DEF x
<1> QED
  BY <1>1, <1>2, <1>3, <1>4

\* A message put on an input.
LEMMA Putting ==
    ASSUME NEW d, Made(d), NEW i, NEW m
    PROVE  LET p == d.in[i]
               e == InputPut(d, i, m)
               q == e.in[i]
           IN  /\ OneInput(d, e, i)
               /\ i \in DOMAIN d.in =>
                    /\ Stays(p, q) /\ q.filled = p.filled
                    /\ Port(p) /\ m \in Data /\ "PURGING" \notin p.flags =>
                        Port(q) /\ "PURGING" \notin q.flags
                    /\ Port(p) /\ m \in Data /\ ~WakesInput(p, m) =>
                        (q.queue = <<>> <=> p.queue = <<>>) /\ (Done(q) <=> Done(p))
<1> DEFINE p == d.in[i]
           q == [p EXCEPT !.queue = Append(@, m),
                          !.flags = IF m.len = 0 THEN Toggle(@, {"ENABLED", "EOS"}) ELSE @]
           h == AtHead(q)
           f == IF Bypass(p) /\ m.nul THEN [h EXCEPT !.flags = Toggle(@, {"EOS", "DONE"})] ELSE h
           x == IF p.queue = <<>> THEN f ELSE q
           y == Expect(d, m.len = 0 => "EOS" \notin p.flags, "second end of stream")
           e == InputPut(d, i, m)
<1>0. i \notin DOMAIN d.in => OneInput(d, e, i)
  <2>1. Aside(d, y) /\ Aside(d, ResponseOk(d, m))
    BY Answering
  <2> HIDE DEF y, x
  <2>2. ASSUME i \notin DOMAIN d.in PROVE OneInput(d, [y EXCEPT !.in[i] = x], i)
    <3>1. i \notin DOMAIN y.in /\ Made(y)
      BY <2>1, <2>2 DEF Aside
    <3>2. OneInput(y, [y EXCEPT !.in[i] = x], i)
      BY <3>1, AtPort
    <3> QED
      BY <2>1, <3>2, AtOne
  <2>3. e = IF "ENABLED" \notin p.flags THEN ResponseOk(d, m) ELSE [y EXCEPT !.in[i] = x]
    BY DEF InputPut, x, y
  <2> QED
    BY <2>1, <2>2, <2>3, AtOne
<1> SUFFICES ASSUME i \in DOMAIN d.in
             PROVE  /\ OneInput(d, e, i) /\ Stays(p, e.in[i]) /\ e.in[i].filled = p.filled
                    /\ Port(p) /\ m \in Data /\ "PURGING" \notin p.flags =>
                        Port(e.in[i]) /\ "PURGING" \notin e.in[i].flags
                    /\ Port(p) /\ m \in Data /\ ~WakesInput(p, m) =>
                        (e.in[i].queue = <<>> <=> p.queue = <<>>) /\ (Done(e.in[i]) <=> Done(p))
  BY <1>0
<1>1. InFields \subseteq DOMAIN p
  BY DEF Made
<1>2. /\ InFields \subseteq DOMAIN q /\ q.queue = Append(p.queue, m)
      /\ q.flags = IF m.len = 0 THEN Toggle(p.flags, {"ENABLED", "EOS"}) ELSE p.flags
      /\ q.size = p.size /\ q.filled = p.filled /\ q.remaining = p.remaining /\ q.access = p.access
  BY <1>1 DEF InFields
<1> HIDE DEF p, q
<1>3. /\ InFields \subseteq DOMAIN h /\ h.queue = q.queue /\ h.flags = q.flags
      /\ h.size = q.size /\ h.filled = q.filled
      /\ q.queue # <<>> => h.remaining = Head(q.queue).len /\ h.access = ~Head(q.queue).nul
  BY <1>2 DEF AtHead, InFields
<1> HIDE DEF h
<1>4. /\ InFields \subseteq DOMAIN f /\ f.queue = h.queue
      /\ f.flags = IF Bypass(p) /\ m.nul THEN Toggle(h.flags, {"EOS", "DONE"}) ELSE h.flags
      /\ f.size = h.size /\ f.filled = h.filled /\ f.remaining = h.remaining /\ f.access = h.access
  BY <1>3 DEF InFields
<1> HIDE DEF f
<1>5. InFields \subseteq DOMAIN x
  BY <1>2, <1>4
<1>6. CASE "ENABLED" \notin p.flags
  <2>1. e = ResponseOk(d, m)
    BY <1>6 DEF InputPut, p
  <2>2. Aside(d, e)
    BY <2>1, Answering
  <2> HIDE DEF e
  <2> QED
    BY <2>2, AtOne DEF Aside, Stays, e, p
<1>7. CASE "ENABLED" \in p.flags
  <2>1. e = [y EXCEPT !.in[i] = x]
    BY <1>7 DEF InputPut, p, q, h, f
  <2> HIDE DEF x
  <2>2. Aside(d, y)
    BY Answering
  <2> HIDE DEF y
  <2>3. OneInput(y, e, i) /\ e.in[i] = x
    BY <1>5, <2>1, <2>2, AtPort DEF Aside
  <2> HIDE DEF e
  <2>4. OneInput(d, e, i)
    BY <2>2, <2>3, AtOne
  <2>5. Stays(p, x) /\ x.filled = p.filled
    <3>1. /\ Custom(x) = Custom(p) /\ x.filled = p.filled /\ x.size = p.size
          /\ x.queue = Append(p.queue, m)
      BY <1>2, <1>3, <1>4 DEF x, Custom, Toggle, BaseInputFlags
    <3> HIDE DEF x
    <3> QED
      BY <3>1, Sequence DEF Stays
  <2>6. ASSUME Port(p), m \in Data, ~WakesInput(p, m)
        PROVE  (x.queue = <<>> <=> p.queue = <<>>) /\ (Done(x) <=> Done(p))
    BY <1>2, <1>7, <2>6 DEF x, WakesInput, Port, Done, Toggle
  <2>7. ASSUME Port(p), m \in Data, "PURGING" \notin p.flags
        PROVE  Port(x) /\ "PURGING" \notin x.flags
    <3>1. m.len \in Nat /\ (m.nul <=> m.len = 0) /\ m.nul \in BOOLEAN
      BY <2>7 DEF Data
    <3>2. /\ x.queue = Append(p.queue, m) /\ x.queue \in Seq(Data) /\ x.queue # <<>>
          /\ Len(x.queue) = Len(p.queue) + 1 /\ x.queue[Len(x.queue)] = m
          /\ \A k \in 1 .. Len(p.queue) : x.queue[k] = p.queue[k]
          /\ Head(x.queue) = IF p.queue = <<>> THEN m ELSE Head(p.queue)
      <4>1. x.queue = Append(p.queue, m) /\ p.queue \in Seq(Data)
        BY <1>2, <1>3, <1>4, <2>7 DEF x, Port
      <4> HIDE DEF x
      <4> QED
        BY <2>7, <4>1
    <3>3. /\ x.size = p.size /\ x.filled = p.filled
          /\ "CREATED" \in x.flags /\ "PURGING" \notin x.flags
      <4>1. x.size = p.size /\ x.filled = p.filled
        BY <1>2, <1>3, <1>4 DEF x
      <4>2. "CREATED" \in p.flags
        BY <2>7 DEF Port
      <4>3. ("CREATED" \in x.flags <=> "CREATED" \in p.flags)
            /\ ("PURGING" \in x.flags <=> "PURGING" \in p.flags)
        BY <1>2, <1>3, <1>4 DEF x, Toggle
      <4> QED
        BY <2>7, <4>1, <4>2, <4>3
    <3>6. x.remaining \in Nat
      <4>1. q.queue # <<>> /\ (p.queue = <<>> => Head(q.queue) = m)
        BY <1>2, <2>7 DEF Port
      <4> QED
        BY <1>2, <1>3, <1>4, <2>7, <3>1, <4>1 DEF x, Port
    <3>4. ASSUME p.size = 0 PROVE Exposed(x)
      <4>1. Exposed(p) /\ ~Done(p)
        BY <1>7, <2>7, <3>4 DEF Port, Exposed
      <4>2. CASE p.queue = <<>>
        <5>1. x.access = ~m.nul
          BY <1>2, <1>3, <1>4, <3>2, <4>2 DEF x
        <5>2. m.nul => Done(x) /\ "ENABLED" \notin x.flags
          BY <1>2, <1>3, <1>4, <1>7, <3>1, <3>4, <4>1, <4>2 DEF x, Toggle, Done, Bypass
        <5>3. ~m.nul => ~Done(x)
          BY <1>2, <1>3, <1>4, <3>1, <4>1, <4>2 DEF x, Done
        <5>4. DOMAIN x.queue = {1} /\ Len(x.queue) = 1
          BY <2>7, <3>2, <4>2 DEF Port
        <5> HIDE DEF x
        <5> QED
          BY <3>2, <4>2, <5>1, <5>2, <5>3, <5>4 DEF Exposed
      <4>3. CASE p.queue # <<>>
        <5>1. /\ x.access = p.access
              /\ x.flags = IF m.len = 0 THEN Toggle(p.flags, {"ENABLED", "EOS"}) ELSE p.flags
          BY <1>2, <4>3 DEF x
        <5>2. Done(x) = Done(p) /\ (m.nul => "ENABLED" \notin x.flags)
          BY <1>7, <3>1, <5>1 DEF Done, Toggle
        <5>3. \A k \in 1 .. Len(p.queue) : ~p.queue[k].nul
          BY <1>7, <2>7, <4>1 DEF Port, Exposed
        <5>4. DOMAIN x.queue = 1 .. Len(p.queue) + 1 /\ Len(p.queue) \in Nat
          BY <2>7, <3>2 DEF Port
        <5> HIDE DEF x
        <5>5. \A k \in DOMAIN x.queue :
                x.queue[k].nul => k = Len(x.queue) /\ "ENABLED" \notin x.flags
          BY <3>2, <5>2, <5>3, <5>4
        <5> QED
          BY <3>2, <4>1, <4>3, <5>1, <5>2, <5>5 DEF Exposed
      <4> QED
        BY <4>2, <4>3
    <3>5. Port(x)
      <4> HIDE DEF x
      <4>1. x.size \in Nat /\ x.filled \in 0 .. x.size
        BY <2>7, <3>3 DEF Port
      <4> QED
        BY <3>2, <3>3, <3>4, <3>6, <4>1 DEF Port
    <3> QED
      BY <3>3, <3>5
  <2> QED
    BY <2>3, <2>4, <2>5, <2>6, <2>7 DEF e, p
<1> QED
  BY <1>6, <1>7

\* A message of an input is completed.
LEMMA Completing ==
    ASSUME NEW d, Made(d), NEW i \in DOMAIN d.in
    PROVE  LET p == d.in[i]
               e == InputComplete(d, i)
               q == e.in[i]
           IN  /\ OneInput(d, e, i)
               /\ q.flags = p.flags /\ q.size = p.size /\ q.filled = p.filled
               /\ p.queue = <<>> => q = p
               /\ p.queue # <<>> =>
                    /\ q.queue = Tail(p.queue)
                    /\ q.queue = <<>> => ~q.access /\ q.remaining = p.remaining
                    /\ q.queue # <<>> => /\ q.access = ~Head(q.queue).nul
                                        /\ q.remaining = Head(q.queue).len
<1> DEFINE p == d.in[i]
           x == [p EXCEPT !.queue = Tail(p.queue)]
           h == AtHead(x)
           y == Response(d, Head(p.queue))
           z == Expect(d, FALSE, "complete without message")
           e == InputComplete(d, i)
<1>1. e = IF p.queue = <<>> THEN z ELSE [y EXCEPT !.in[i] = h]
  BY DEF InputComplete
<1>2. Aside(d, z) /\ Aside(d, y)
  BY Answering
<1>3. /\ InFields \subseteq DOMAIN x /\ x.queue = Tail(p.queue) /\ x.flags = p.flags
      /\ x.size = p.size /\ x.filled = p.filled /\ x.remaining = p.remaining
  BY DEF Made, InFields
<1> HIDE DEF x, y, z, e
<1>4. /\ InFields \subseteq DOMAIN h /\ h.queue = x.queue /\ h.flags = x.flags
      /\ h.size = x.size /\ h.filled = x.filled
      /\ h.queue = <<>> => ~h.access /\ h.remaining = x.remaining
      /\ h.queue # <<>> => h.access = ~Head(h.queue).nul /\ h.remaining = Head(h.queue).len
  BY <1>3 DEF AtHead, InFields
<1> HIDE DEF h
<1>5. CASE p.queue = <<>>
  BY <1>1, <1>2, <1>5, AtOne DEF Aside, e
<1>6. CASE p.queue # <<>>
  <2>1. OneInput(y, e, i) /\ e.in[i] = h
    BY <1>1, <1>2, <1>4, <1>6, AtPort DEF Aside
  <2>2. OneInput(d, e, i)
    BY <1>2, <2>1, AtOne
  <2> QED
    BY <1>3, <1>4, <1>6, <2>1, <2>2 DEF e
<1> QED
  BY <1>5, <1>6

\* The end of an input is reached.
LEMMA Marking ==
    ASSUME NEW d, Made(d), NEW i \in DOMAIN d.in
    PROVE  LET p == d.in[i]
               e == MarkDone(d, i)
               q == e.in[i]
           IN  /\ OneInput(d, e, i) /\ q.flags = Toggle(p.flags, {"EOS", "DONE"})
               /\ q.queue = p.queue /\ q.size = p.size /\ q.filled = p.filled
               /\ q.access = p.access /\ q.remaining = p.remaining
<1> DEFINE p == d.in[i]
           x == [p EXCEPT !.flags = Toggle(@, {"EOS", "DONE"})]
           y == Expect(d, "EOS" \in p.flags, "done without end of stream")
           e == MarkDone(d, i)
<1>1. Aside(d, y)
  BY Answering
<1>2. /\ InFields \subseteq DOMAIN x /\ x.flags = Toggle(p.flags, {"EOS", "DONE"})
      /\ x.queue = p.queue /\ x.size = p.size /\ x.filled = p.filled
      /\ x.access = p.access /\ x.remaining = p.remaining
  BY DEF Made, InFields
<1>3. e = [y EXCEPT !.in[i] = [y.in[i] EXCEPT !.flags = Toggle(y.in[i].flags, {"EOS", "DONE"})]]
  BY DEF MarkDone
<1>4. e = [y EXCEPT !.in[i] = x]
  BY <1>1, <1>3 DEF Aside
<1> HIDE DEF x, y, e
<1>5. OneInput(y, e, i) /\ e.in[i] = x
  BY <1>1, <1>2, <1>4, AtPort DEF Aside
<1>6. OneInput(d, e, i)
  BY <1>1, <1>5, AtOne
<1> QED
  BY <1>2, <1>5, <1>6 DEF e

\* there is data, or the end of it, to go on with
Loaded(p) == p.filled > 0 \/ Done(p)

\* The step that fills an internal buffer.
LEMMA Copying ==
    ASSUME NEW d, Made(d), NEW i \in DOMAIN d.in
    PROVE  LET p == d.in[i]
               e == FillFrom(d, i)
               q == e.in[i]
           IN  /\ OneInput(d, e, i) /\ Stays(p, q)
               /\ "PURGING" \in q.flags <=> "PURGING" \in p.flags
               /\ p.queue = <<>> => q = p
               /\ Port(p) /\ p.size # 0 =>
                    Port(q) /\ (Loaded(p) \/ p.queue # <<>> => Loaded(q))
<1> DEFINE p == d.in[i]
           k == IF p.remaining < p.size - p.filled THEN p.remaining ELSE p.size - p.filled
           x == [p EXCEPT !.filled = @ + k, !.remaining = @ - k]
           y == [d EXCEPT !.in[i] = x]
           e == FillFrom(d, i)
           q == e.in[i]
<1> SUFFICES /\ OneInput(d, e, i) /\ Stays(p, q)
             /\ "PURGING" \in q.flags <=> "PURGING" \in p.flags
             /\ p.queue = <<>> => q = p
             /\ Port(p) /\ p.size # 0 => Port(q) /\ (Loaded(p) \/ p.queue # <<>> => Loaded(q))
  OBVIOUS
<1>1. InFields \subseteq DOMAIN p
  BY DEF Made
<1>2. e = CASE p.queue = <<>> \/ p.filled = p.size \/ Done(p) -> d
            [] p.queue # <<>> /\ p.filled < p.size /\ ~Done(p) /\ k = 0 -> MarkDone(d, i)
            [] OTHER -> IF y.in[i].remaining = 0 THEN InputComplete(y, i) ELSE y
  <2>1. y = [d EXCEPT !.in[i].filled = @ + k, !.in[i].remaining = @ - k]
    OBVIOUS
  <2> HIDE DEF y
  <2> QED
    BY <2>1 DEF FillFrom
<1>3. InFields \subseteq DOMAIN x /\ x.queue = p.queue /\ x.size = p.size /\ x.flags = p.flags
      /\ x.filled = p.filled + k /\ x.remaining = p.remaining - k /\ x.access = p.access
  BY <1>1 DEF InFields
<1> HIDE DEF x
<1>4. OneInput(d, y, i) /\ y.in[i] = x
  BY <1>3, AtPort
<1> HIDE DEF y, k, p, e
<1>5. \A f, g : f = g => Stays(f, g)
  BY DEF Stays
<1>9. \/ e = d /\ (p.queue = <<>> \/ p.filled = p.size \/ Done(p))
      \/ e = MarkDone(d, i) /\ p.queue # <<>> /\ p.filled < p.size /\ ~Done(p) /\ k = 0
      \/ /\ e = IF y.in[i].remaining = 0 THEN InputComplete(y, i) ELSE y
         /\ ~(p.queue = <<>> \/ p.filled = p.size \/ Done(p)) /\ ~(p.filled < p.size /\ k = 0)
  BY <1>2
<1>6. CASE e = d /\ (p.queue = <<>> \/ p.filled = p.size \/ Done(p))
  <2>1. e = d
    BY <1>6
  <2>2. Port(p) /\ p.size # 0 /\ p.filled = p.size => p.filled > 0
    BY DEF Port
  <2>3. OneInput(d, e, i) /\ q = p
    BY <2>1 DEF p, OneInput, Alike
  <2> HIDE DEF q
  <2> QED
    BY <1>5, <1>6, <2>2, <2>3 DEF q, Loaded
<1>7. CASE e = MarkDone(d, i) /\ p.queue # <<>> /\ p.filled < p.size /\ ~Done(p) /\ k = 0
  <2>1. e = MarkDone(d, i)
    BY <1>7
  <2>2. /\ OneInput(d, e, i) /\ q.flags = Toggle(p.flags, {"EOS", "DONE"})
        /\ q.queue = p.queue /\ q.size = p.size /\ q.filled = p.filled
        /\ q.access = p.access /\ q.remaining = p.remaining
    BY <2>1, Marking DEF p
  <2> HIDE DEF q
  <2>3. /\ Stays(p, q) /\ Done(q) /\ ("CREATED" \in q.flags <=> "CREATED" \in p.flags)
        /\ "PURGING" \in q.flags <=> "PURGING" \in p.flags
    BY <1>7, <2>2 DEF Stays, Custom, BaseInputFlags, Toggle, Done
  <2>4. Port(p) /\ p.size # 0 => Port(q)
    BY <2>2, <2>3 DEF Port, Stays
  <2>5. Loaded(q)
    BY <2>3 DEF Loaded
  <2> QED
    BY <1>7, <2>2, <2>3, <2>4, <2>5 DEF q
<1>8. CASE ~(p.queue = <<>> \/ p.filled = p.size \/ Done(p)) /\ ~(p.filled < p.size /\ k = 0)
  <2> DEFINE z == InputComplete(y, i)
  <2>1. e = IF y.in[i].remaining = 0 THEN z ELSE y
    BY <1>2, <1>8
  <2>2. /\ OneInput(y, z, i)
        /\ z.in[i].flags = x.flags /\ z.in[i].size = x.size /\ z.in[i].filled = x.filled
        /\ z.in[i].queue = Tail(x.queue)
        /\ z.in[i].queue = <<>> => z.in[i].remaining = x.remaining
        /\ z.in[i].queue # <<>> => z.in[i].remaining = Head(z.in[i].queue).len
    <3>1. Made(y) /\ i \in DOMAIN y.in
      BY <1>4 DEF OneInput
    <3> QED
      BY <1>3, <1>4, <1>8, <3>1, Completing
  <2> HIDE DEF z
  <2>3. OneInput(d, e, i) /\ Stays(p, q) /\ q.flags = p.flags
    <3>1. OneInput(d, e, i) /\ q.flags = p.flags /\ q.size = p.size
      BY <1>3, <1>4, <2>1, <2>2, AtOne
    <3>2. q.queue = p.queue \/ q.queue = Tail(p.queue)
      BY <1>3, <1>4, <2>1, <2>2
    <3> HIDE DEF q
    <3> QED
      BY <1>8, <3>1, <3>2, Sequence DEF Stays, Custom
  <2>4. Port(p) => k \in Nat /\ p.filled + k \in 0 .. p.size /\ p.remaining - k \in Nat
    BY DEF Port, k
  <2>5. Port(p) => p.filled + k > 0
    BY <1>8, <2>4 DEF Port
  <2>6. q.filled = p.filled + k /\ q.flags = p.flags /\ q.size = p.size
    BY <1>3, <1>4, <2>1, <2>2
  <2>7. Port(p) /\ p.size # 0 => q.queue \in Seq(Data) /\ Len(q.queue) <= Len(p.queue)
    <3> SUFFICES ASSUME Port(p) PROVE q.queue \in Seq(Data) /\ Len(q.queue) <= Len(p.queue)
      OBVIOUS
    <3>1. q.queue = p.queue \/ q.queue = Tail(p.queue)
      BY <1>3, <1>4, <2>1, <2>2
    <3>2. p.queue \in Seq(Data) /\ p.queue # <<>>
      BY <1>8 DEF Port
    <3> HIDE DEF q
    <3>3. Tail(p.queue) \in Seq(Data) /\ Len(Tail(p.queue)) <= Len(p.queue)
      BY <3>2
    <3>4. Len(p.queue) <= Len(p.queue)
      BY <3>2
    <3> QED
      BY <3>1, <3>2, <3>3, <3>4
  <2>8. Port(p) /\ p.size # 0 => q.remaining \in Nat
    <3> SUFFICES ASSUME Port(p), p.size # 0 PROVE q.remaining \in Nat
      OBVIOUS
    <3>1. x.remaining \in Nat
      BY <1>3, <2>4
    <3>2. q.remaining = x.remaining \/ (q.queue # <<>> /\ q.remaining = Head(q.queue).len)
      BY <1>4, <2>1, <2>2
    <3>3. q.queue \in Seq(Data)
      BY <2>7
    <3> HIDE DEF q
    <3>4. q.queue # <<>> => Head(q.queue) \in Data
      BY <3>3
    <3> QED
      BY <3>1, <3>2, <3>4 DEF Data
  <2>9. Port(p) /\ p.size # 0 => Port(q)
    <3> HIDE DEF q
    <3> QED
      BY <2>4, <2>6, <2>7, <2>8 DEF Port
  <2>10. Port(p) => Loaded(q)
    <3> HIDE DEF q
    <3> QED
      BY <2>5, <2>6 DEF Loaded
  <2> QED
    BY <1>8, <2>3, <2>9, <2>10
<1> QED
  BY <1>6, <1>7, <1>8, <1>9

\* What the steps of filling do to the port filled, a[2] of a[1], and that data
\* is there if the end, a[3], is to be so.
Refilled(a, e) ==
    LET p == a[1].in[a[2]]
        q == e.in[a[2]]
    IN  /\ OneInput(a[1], e, a[2]) /\ Stays(p, q)
        /\ "PURGING" \in q.flags <=> "PURGING" \in p.flags
        /\ p.queue = <<>> => q = p
        /\ Port(p) /\ p.size # 0 => Port(q)
        /\ a[3] => Loaded(q)

Refill == INSTANCE FoldLemmas WITH Op <- LAMBDA arg, e, m : FillFrom(e, arg), Good <- Refilled

\* An input that is asked for data: what it does not have was not there.
LEMMA Filling ==
    ASSUME NEW d, Made(d), NEW i \in DOMAIN d.in, IsSeq(d.in[i].queue)
    PROVE  LET p == d.in[i]
               e == InputFill(d, i)
               q == e.in[i]
           IN  /\ OneInput(d, e, i) /\ Stays(p, q)
               /\ "PURGING" \in q.flags <=> "PURGING" \in p.flags
               /\ p.queue = <<>> => q = p
               /\ Port(p) /\ "PURGING" \notin p.flags =>
                    /\ Port(q)
                    /\ ~Loaded(q) /\ (Bypass(q) /\ q.access => q.remaining = 0) => q.queue = <<>>
<1> DEFINE p == d.in[i]
           e == InputFill(d, i)
           q == e.in[i]
<1> SUFFICES /\ OneInput(d, e, i) /\ Stays(p, q)
             /\ "PURGING" \in q.flags <=> "PURGING" \in p.flags
             /\ p.queue = <<>> => q = p
             /\ Port(p) /\ "PURGING" \notin p.flags =>
                  /\ Port(q)
                  /\ ~Loaded(q) /\ (Bypass(q) /\ q.access => q.remaining = 0) => q.queue = <<>>
  OBVIOUS
<1>0. OneInput(d, d, i) /\ Stays(p, p)
  BY DEF OneInput, Alike, Stays
<1>1. CASE Bypass(p)
  <2> DEFINE f == InputComplete(d, i)
             g == f.in[i]
             h == MarkDone(f, i)
  <2>1. e = IF p.remaining # 0 \/ p.queue = <<>> THEN d
            ELSE IF g.queue # <<>> /\ ~g.access THEN h ELSE f
    BY <1>1 DEF InputFill, FillBypass
  <2>2. /\ OneInput(d, f, i) /\ g.flags = p.flags /\ g.size = p.size /\ g.filled = p.filled
        /\ p.queue = <<>> => g = p
        /\ p.queue # <<>> =>
             /\ g.queue = Tail(p.queue)
             /\ g.queue = <<>> => ~g.access /\ g.remaining = p.remaining
             /\ g.queue # <<>> => g.access = ~Head(g.queue).nul /\ g.remaining = Head(g.queue).len
    BY Completing
  <2>3. Stays(p, g)
    <3>1. p.queue = <<>> => g.queue = p.queue
      BY <2>2
    <3> HIDE DEF g, p
    <3> QED
      BY <2>2, <3>1, Sequence DEF Stays, Custom, p
  <2>4. /\ OneInput(f, h, i) /\ h.in[i].flags = Toggle(g.flags, {"EOS", "DONE"})
        /\ h.in[i].queue = g.queue /\ h.in[i].size = g.size /\ h.in[i].filled = g.filled
        /\ h.in[i].access = g.access /\ h.in[i].remaining = g.remaining
    <3>1. Made(f) /\ i \in DOMAIN f.in
      BY <2>2 DEF OneInput
    <3> HIDE DEF f
    <3> QED
      BY <3>1, Marking
  <2> HIDE DEF f, g, h, e
  <2>5. OneInput(d, h, i) /\ Stays(p, h.in[i])
        /\ ("PURGING" \in h.in[i].flags <=> "PURGING" \in p.flags)
    BY <2>2, <2>3, <2>4, AtOne DEF Stays, Custom, BaseInputFlags, Toggle
  <2>6. OneInput(d, e, i) /\ Stays(p, q) /\ ("PURGING" \in q.flags <=> "PURGING" \in p.flags)
        /\ (p.queue = <<>> => q = p)
    BY <1>0, <2>1, <2>2, <2>3, <2>5 DEF g
  <2>7. ASSUME Port(p), "PURGING" \notin p.flags
        PROVE  /\ Port(q)
               /\ ~Loaded(q) /\ (Bypass(q) /\ q.access => q.remaining = 0) => q.queue = <<>>
    <3>1. /\ p.queue \in Seq(Data) /\ Exposed(p) /\ p.size = 0 /\ p.filled = 0
          /\ "CREATED" \in p.flags /\ p.remaining \in Nat
      BY <1>1, <2>7 DEF Port, Bypass
    <3>2. /\ p.queue # <<>> => Tail(p.queue) \in Seq(Data)
                               /\ Len(Tail(p.queue)) = Len(p.queue) - 1
                               /\ \A k \in DOMAIN Tail(p.queue) :
                                    k + 1 \in DOMAIN p.queue /\ Tail(p.queue)[k] = p.queue[k + 1]
          /\ p.queue # <<>> => 1 \in DOMAIN p.queue /\ Head(p.queue) = p.queue[1]
      BY <3>1
    <3>3. CASE e = d /\ (p.remaining # 0 \/ p.queue = <<>>)
      <4>1. q = p
        BY <3>3
      <4> HIDE DEF q, p
      <4> QED
        BY <2>7, <3>1, <3>3, <4>1 DEF Exposed, Loaded, Bypass
    <3>4. CASE p.queue # <<>> /\ p.remaining = 0
      <4> DEFINE s == g.queue
      <4>1. s = Tail(p.queue) /\ s \in Seq(Data) /\ Len(s) = Len(p.queue) - 1
            /\ \A k \in DOMAIN s : k + 1 \in DOMAIN p.queue /\ s[k] = p.queue[k + 1]
        BY <2>2, <3>2, <3>4
      <4>2. Done(p) => s = <<>>
        <5>1. Done(p) => p.queue[1].nul
          BY <3>1, <3>2, <3>4 DEF Exposed
        <5>2. Done(p) => Len(p.queue) = 1
          BY <3>1, <3>2, <3>4, <5>1 DEF Exposed
        <5> HIDE DEF s
        <5> QED
          BY <4>1, <5>2
      <4>3. \A k \in DOMAIN s : s[k].nul => k = Len(s) /\ "ENABLED" \notin p.flags
        <5> HIDE DEF s
        <5>1. ASSUME NEW k \in DOMAIN s, s[k].nul PROVE k = Len(s) /\ "ENABLED" \notin p.flags
          <6>1. k + 1 \in DOMAIN p.queue /\ p.queue[k + 1].nul
            BY <4>1, <5>1
          <6>2. k + 1 = Len(p.queue) /\ "ENABLED" \notin p.flags
            BY <3>1, <6>1 DEF Exposed
          <6>3. k \in Nat /\ Len(p.queue) \in Nat
            BY <3>1, <4>1, <5>1
          <6> QED
            BY <4>1, <6>2, <6>3
        <5> QED
          BY <5>1
      <4>4. s # <<>> => 1 \in DOMAIN s /\ Head(s) = s[1] /\ Head(s) \in Data /\ Len(s) >= 1
        <5> HIDE DEF s
        <5> QED
          BY <4>1
      <4>5. s # <<>> => g.remaining = Head(s).len /\ g.remaining \in Nat /\ g.access = ~Head(s).nul
                        /\ (Head(s).nul <=> g.remaining = 0) /\ ~Done(p)
        BY <2>2, <3>4, <4>2, <4>4 DEF Data
      <4>6. s = <<>> => ~g.access /\ g.remaining \in Nat
        BY <2>2, <3>1, <3>4
      <4>7. CASE e = f /\ ~(s # <<>> /\ ~g.access)
        <5>1. Exposed(g)
          <6> HIDE DEF s
          <6>1. Done(g) = Done(p)
            BY <2>2 DEF Done
          <6>2. g.queue = s
            BY DEF s
          <6> QED
            BY <2>2, <3>1, <4>2, <4>3, <4>4, <4>5, <4>6, <4>7, <6>1, <6>2 DEF Exposed
        <5>2. Port(g)
          BY <2>2, <2>7, <3>1, <4>1, <4>5, <4>6, <5>1 DEF Port
        <5>3. q = g /\ g.queue = s /\ g.size = 0
          BY <2>2, <3>1, <4>7 DEF g
        <5> HIDE DEF s, q
        <5>4. s # <<>> => q.access /\ q.remaining # 0
          BY <4>5, <4>7, <5>3
        <5> QED
          BY <5>2, <5>3, <5>4 DEF Bypass
      <4>8. CASE e = h /\ s # <<>> /\ ~g.access
        <5>1. /\ q.queue = s /\ q.size = 0 /\ q.filled = 0 /\ ~q.access /\ q.remaining \in Nat
              /\ q.flags = Toggle(p.flags, {"EOS", "DONE"})
          BY <2>2, <2>4, <3>1, <4>5, <4>8
        <5>2. Done(q) /\ Head(s).nul /\ s[1].nul /\ "ENABLED" \notin q.flags
              /\ "CREATED" \in q.flags /\ "PURGING" \notin q.flags
          BY <2>7, <3>1, <4>3, <4>4, <4>5, <4>8, <5>1 DEF Done, Toggle
        <5> HIDE DEF q, s
        <5>3. Exposed(q)
          BY <4>3, <4>4, <4>8, <5>1, <5>2 DEF Exposed
        <5>4. Port(q)
          BY <4>1, <5>1, <5>2, <5>3 DEF Port
        <5> QED
          BY <5>2, <5>4 DEF Loaded
      <4> QED
        BY <2>1, <3>4, <4>7, <4>8
    <3> QED
      BY <2>1, <3>3, <3>4
  <2> QED
    BY <2>6, <2>7
<1>2. CASE ~Bypass(p)
  <2> DEFINE need == Port(p) /\ p.queue # <<>>
             a == <<d, i, need>>
             f == FoldLeft(LAMBDA x, m : FillFrom(x, i), d, p.queue)
  <2>1. PICK n \in Nat : DOMAIN p.queue = 1 .. n /\ (n = 0 <=> p.queue = <<>>)
    BY Sequence
  <2>2. f = Refill!Fold(i, d, p.queue)
    BY DEF FoldLeft, Refill!Fold, Refill!FoldLeft, MapThenFoldSet, Refill!MapThenFoldSet, Max, Refill!Max
  <2>3. p.size # 0
    BY <1>2 DEF Bypass
  <2>4. Refilled(<<d, i, FALSE>>, d)
    BY <1>0 DEF Refilled
  <2>5. ASSUME NEW x, NEW b \in BOOLEAN, b => Port(p), Refilled(<<d, i, b>>, x)
        PROVE  /\ Refilled(<<d, i, b>>, FillFrom(x, i))
               /\ x = d => Refilled(a, FillFrom(x, i))
    <3> DEFINE y == FillFrom(x, i)
               r == x.in[i]
    <3>1. /\ Made(x) /\ i \in DOMAIN x.in /\ OneInput(d, x, i) /\ Stays(p, r)
          /\ "PURGING" \in r.flags <=> "PURGING" \in p.flags
          /\ Port(p) => Port(r)
          /\ p.queue = <<>> => r = p
          /\ b => Loaded(r)
      BY <2>3, <2>5 DEF Refilled, OneInput
    <3>2. /\ OneInput(x, y, i) /\ Stays(r, y.in[i])
          /\ "PURGING" \in y.in[i].flags <=> "PURGING" \in r.flags
          /\ r.queue = <<>> => y.in[i] = r
          /\ Port(r) /\ r.size # 0 =>
               Port(y.in[i]) /\ (Loaded(r) \/ r.queue # <<>> => Loaded(y.in[i]))
      BY <3>1, Copying
    <3>3. /\ OneInput(d, y, i) /\ Stays(p, y.in[i])
          /\ "PURGING" \in y.in[i].flags <=> "PURGING" \in p.flags
          /\ p.queue = <<>> => y.in[i] = p
      <4> HIDE DEF y
      <4> QED
        BY <3>1, <3>2, AtOne DEF Stays
    <3>4. r.size # 0
      BY <2>3, <3>1 DEF Stays
    <3>5. x = d => r = p
      OBVIOUS
    <3> HIDE DEF y, p, r
    <3>6. Refilled(<<d, i, b>>, y)
      BY <2>5, <3>1, <3>2, <3>3, <3>4 DEF Refilled, p
    <3>7. x = d => Refilled(a, y)
      BY <2>5, <3>1, <3>2, <3>3, <3>4, <3>5 DEF Refilled, p, a, need
    <3> QED
      BY <3>6, <3>7 DEF y
  <2>6. Refilled(<<d, i, FALSE>>, f)
    <3> HIDE DEF p, Refilled
    <3>1. \A x : \A k \in 1 .. n : Refilled(<<d, i, FALSE>>, x) => Refilled(<<d, i, FALSE>>, FillFrom(x, i))
      BY <2>5
    <3>2. Refilled(<<d, i, FALSE>>, Refill!Fold(i, d, p.queue))
      BY <2>1, <2>4, <3>1, Refill!Folded
    <3> QED
      BY <2>2, <3>2
  <2>7. ASSUME need PROVE Refilled(<<d, i, TRUE>>, f)
    <3> HIDE DEF p, Refilled
    <3>1. \A x : \A k \in 1 .. n : Refilled(<<d, i, TRUE>>, x) => Refilled(<<d, i, TRUE>>, FillFrom(x, i))
      BY <2>5, <2>7
    <3>2. Refilled(<<d, i, TRUE>>, FillFrom(d, i)) /\ n # 0
      BY <2>1, <2>4, <2>5, <2>7
    <3>3. Refilled(<<d, i, TRUE>>, Refill!Fold(i, d, p.queue))
      BY <2>1, <3>1, <3>2, Refill!FoldedOnce
    <3> QED
      BY <2>2, <3>3
  <2>8. e = [d EXCEPT !.in[i] = f.in[i], !.sent = f.sent, !.bugs = f.bugs]
    BY <1>2 DEF InputFill, FillBuffer, Filled
  <2> HIDE DEF f, p, e
  <2>9. OneInput(d, f, i)
    BY <2>6 DEF Refilled
  <2>10. OneInput(d, e, i) /\ e.in[i] = f.in[i]
    <3>1. InFields \subseteq DOMAIN f.in[i]
      BY <2>9 DEF OneInput, Made
    <3> DEFINE x == [d EXCEPT !.in[i] = f.in[i]]
    <3>2. OneInput(d, x, i) /\ x.in[i] = f.in[i]
      BY <3>1, AtPort
    <3>3. e = [x EXCEPT !.sent = f.sent, !.bugs = f.bugs]
      BY <2>8
    <3> HIDE DEF x
    <3>4. Aside(x, e)
      BY <3>2, <3>3 DEF OneInput, Aside, Alike, Made, Fields
    <3> QED
      BY <3>2, <3>4, AtOne DEF Aside
  <2>11. /\ OneInput(d, e, i) /\ Stays(p, q)
         /\ "PURGING" \in q.flags <=> "PURGING" \in p.flags
         /\ p.queue = <<>> => q = p
         /\ Port(p) => Port(q)
    BY <2>3, <2>6, <2>10 DEF Refilled, p
  <2>12. Port(p) /\ p.queue # <<>> => Loaded(q)
    BY <2>7, <2>10 DEF Refilled
  <2> QED
    BY <2>11, <2>12
<1> QED
  BY <1>1, <1>2

\* Data is taken from an input.
LEMMA Consuming ==
    ASSUME NEW d, Made(d), NEW i \in DOMAIN d.in, NEW n
    PROVE  LET p == d.in[i]
               e == InputConsume(d, i, n)
               q == e.in[i]
           IN  /\ OneInput(d, e, i) /\ Stays(p, q) /\ q.flags = p.flags /\ q.queue = p.queue
               /\ Port(p) /\ n \in Nat => Port(q)
<1> DEFINE p == d.in[i]
           left(k) == IF k > n THEN k - n ELSE 0
           x == IF Bypass(p) THEN [p EXCEPT !.remaining = left(@)] ELSE [p EXCEPT !.filled = left(@)]
           e == InputConsume(d, i, n)
           q == e.in[i]
<1> SUFFICES /\ OneInput(d, e, i) /\ Stays(p, q) /\ q.flags = p.flags /\ q.queue = p.queue
             /\ Port(p) /\ n \in Nat => Port(q)
  OBVIOUS
<1>1. InFields \subseteq DOMAIN p
  BY DEF Made
<1>2. e = [d EXCEPT !.in[i] = x]
  BY DEF InputConsume
<1>3. /\ InFields \subseteq DOMAIN x /\ x.flags = p.flags /\ x.queue = p.queue /\ x.size = p.size
      /\ x.access = p.access
      /\ x.filled = IF Bypass(p) THEN p.filled ELSE left(p.filled)
      /\ x.remaining = IF Bypass(p) THEN left(p.remaining) ELSE p.remaining
  BY <1>1 DEF InFields
<1> HIDE DEF x, e
<1>4. OneInput(d, e, i) /\ q = x
  BY <1>2, <1>3, AtPort
<1> HIDE DEF q, p
<1>5. ASSUME Port(p), n \in Nat PROVE Port(x)
  <2>1. x.filled \in 0 .. x.size /\ x.remaining \in Nat
    BY <1>3, <1>5 DEF Port
  <2>2. Exposed(p) => Exposed(x)
    BY <1>3 DEF Exposed, Done
  <2> QED
    BY <1>3, <1>5, <2>1, <2>2 DEF Port, Done
<1> QED
  BY <1>3, <1>4, <1>5 DEF Stays, Custom

\* Everything is taken from an input.
LEMMA Purging ==
    ASSUME NEW d, Made(d), NEW i
    PROVE  LET p == d.in[i]
               e == InputPurge(d, i)
               q == e.in[i]
           IN  /\ OneInput(d, e, i)
               /\ i \in DOMAIN d.in =>
                    /\ Stays(p, q)
                    /\ "CREATED" \in p.flags =>
                        /\ q.queue = <<>> /\ q.filled = 0 /\ ~Done(q)
                        /\ {"PURGING", "EOS"} \cap q.flags = {}
                    /\ Port(p) => Port(q)
<1> DEFINE p == d.in[i]
           x == [p EXCEPT !.queue = <<>>, !.filled = 0, !.access = FALSE,
                          !.flags = (@ \ BaseInputFlags) \cup {"CREATED", "ENABLED"}]
           y == RespondAllOk(d, p.queue)
           e == InputPurge(d, i)
           q == e.in[i]
<1> SUFFICES /\ OneInput(d, e, i)
             /\ i \in DOMAIN d.in =>
                  /\ Stays(p, q)
                  /\ "CREATED" \in p.flags =>
                       /\ q.queue = <<>> /\ q.filled = 0 /\ ~Done(q)
                       /\ {"PURGING", "EOS"} \cap q.flags = {}
                  /\ Port(p) => Port(q)
  OBVIOUS
<1>1. Aside(d, y)
  BY Answering
<1>2. e = IF "CREATED" \notin p.flags THEN d ELSE [y EXCEPT !.in[i] = x]
  <2>1. y.in[i] = p
    BY <1>1 DEF Aside
  <2> HIDE DEF y
  <2>2. [y EXCEPT !.in[i].queue = <<>>, !.in[i].filled = 0, !.in[i].access = FALSE,
                  !.in[i].flags = (@ \ BaseInputFlags) \cup {"CREATED", "ENABLED"}]
          = [y EXCEPT !.in[i] = [y.in[i] EXCEPT !.queue = <<>>, !.filled = 0, !.access = FALSE,
                                 !.flags = (@ \ BaseInputFlags) \cup {"CREATED", "ENABLED"}]]
    OBVIOUS
  <2> QED
    BY <2>1, <2>2 DEF InputPurge, y
<1> HIDE DEF y
<1>3. i \in DOMAIN d.in =>
        /\ InFields \subseteq DOMAIN p /\ InFields \subseteq DOMAIN x
        /\ x.queue = <<>> /\ x.filled = 0 /\ ~x.access
        /\ x.flags = (p.flags \ BaseInputFlags) \cup {"CREATED", "ENABLED"}
        /\ x.size = p.size /\ x.remaining = p.remaining
  BY DEF Made, InFields
<1> HIDE DEF x, e
<1>4. OneInput(d, e, i) /\ (i \in DOMAIN d.in /\ "CREATED" \in p.flags => q = x)
  <2>0. OneInput(d, d, i)
    BY DEF OneInput, Alike
  <2>1. i \in DOMAIN d.in => OneInput(y, [y EXCEPT !.in[i] = x], i) /\ [y EXCEPT !.in[i] = x].in[i] = x
    BY <1>1, <1>3, AtPort DEF Aside
  <2>2. i \notin DOMAIN d.in => OneInput(y, [y EXCEPT !.in[i] = x], i)
    BY <1>1, AtPort DEF Aside
  <2>3. OneInput(d, [y EXCEPT !.in[i] = x], i)
    BY <1>1, <2>1, <2>2, AtOne
  <2> QED
    BY <1>2, <2>0, <2>1, <2>3
<1>5. ASSUME i \in DOMAIN d.in, "CREATED" \notin p.flags
      PROVE  q = p
  BY <1>2, <1>5
<1>6. ASSUME i \in DOMAIN d.in
      PROVE  /\ Custom(x) = Custom(p) /\ x.size = p.size /\ IsSeq(x.queue) /\ ~Done(x)
             /\ {"PURGING", "EOS"} \cap x.flags = {} /\ "CREATED" \in x.flags
             /\ Port(p) => Port(x)
  <2>1. IsSeq(x.queue) /\ x.queue \in Seq(Data)
    <3>1. <<>> \in Seq({}) /\ <<>> \in Seq(Data)
      OBVIOUS
    <3> QED
      BY <1>3, <1>6, <3>1 DEF IsSeq
  <2>2. /\ Custom(x) = Custom(p) /\ ~Done(x) /\ "CREATED" \in x.flags
        /\ {"PURGING", "EOS"} \cap x.flags = {}
    BY <1>3, <1>6 DEF Custom, BaseInputFlags, Done
  <2>3. Exposed(x)
    BY <1>3, <1>6, <2>2 DEF Exposed
  <2>4. Port(p) => Port(x)
    <3>1. Port(p) => x.size \in Nat /\ x.filled \in 0 .. x.size /\ x.remaining \in Nat
      BY <1>3, <1>6 DEF Port
    <3> QED
      BY <2>1, <2>2, <2>3, <3>1 DEF Port
  <2> QED
    BY <1>3, <1>6, <2>1, <2>2, <2>4
<1> HIDE DEF q, p
<1> QED
  BY <1>3, <1>4, <1>5, <1>6 DEF Stays, Port

\* The flags of the classes at an input come and go.
LEMMA Flagging ==
    ASSUME NEW d, Made(d), NEW i, NEW s
    PROVE  LET p == d.in[i]
               e == [d EXCEPT !.in[i].flags = s]
               q == e.in[i]
           IN  /\ OneInput(d, e, i)
               /\ i \in DOMAIN d.in =>
                    /\ q.flags = s /\ q.queue = p.queue /\ q.size = p.size /\ q.filled = p.filled
                    /\ Port(p) /\ s \cap BaseInputFlags = p.flags \cap BaseInputFlags => Port(q)
<1> DEFINE p == d.in[i]
           x == [p EXCEPT !.flags = s]
           e == [d EXCEPT !.in[i] = x]
<1>1. i \in DOMAIN d.in =>
        /\ InFields \subseteq DOMAIN x
        /\ x.flags = s /\ x.queue = p.queue /\ x.size = p.size /\ x.filled = p.filled
        /\ x.access = p.access /\ x.remaining = p.remaining
  BY DEF Made, InFields
<1> HIDE DEF x, p
<1>2. OneInput(d, e, i) /\ (i \in DOMAIN d.in => e.in[i] = x)
  BY <1>1, AtPort
<1>3. ASSUME i \in DOMAIN d.in, Port(p), s \cap BaseInputFlags = p.flags \cap BaseInputFlags
      PROVE  Port(x)
  <2>1. \A f \in BaseInputFlags : f \in s <=> f \in p.flags
    BY <1>3
  <2>2. Done(x) <=> Done(p)
    BY <1>1, <1>3, <2>1 DEF Done, BaseInputFlags
  <2>3. Exposed(p) => Exposed(x)
    BY <1>1, <1>3, <2>1, <2>2 DEF Exposed, BaseInputFlags
  <2> QED
    BY <1>1, <1>3, <2>1, <2>2, <2>3 DEF Port, BaseInputFlags
<1> HIDE DEF e
<1> QED
  BY <1>1, <1>2, <1>3 DEF e, x, p

-----------------------------------------------------------------------------
(* Output ports *)

\* A buffer put on an output, looked at, or passed on.
LEMMA Buffering ==
    ASSUME NEW d, Made(d), NEW o \in DOMAIN d.out
    PROVE  LET p == d.out[o]
               put(m) == OutputPut(d, o, m)
               gone(n) == OutputProduce(d, o, n)
           IN  /\ \A m : /\ OneOutput(d, put(m), o)
                         /\ put(m).out[o].queue = Append(p.queue, m) /\ put(m).out[o].flags = p.flags
               /\ Aside(d, OutputData(d, o))
               /\ \A n : /\ OneOutput(d, gone(n), o)
                         /\ gone(n).out[o].flags = p.flags \/ gone(n).out[o].flags = p.flags \ {"IDLE"}
                         /\ p.queue = <<>> => gone(n).out[o].queue = <<>>
                         /\ p.queue # <<>> => gone(n).out[o].queue = Tail(p.queue)
<1> DEFINE p == d.out[o]
<1>0. OutFields \subseteq DOMAIN p
  BY DEF Made
<1>1. ASSUME NEW m
      PROVE  /\ OneOutput(d, OutputPut(d, o, m), o)
             /\ OutputPut(d, o, m).out[o].queue = Append(p.queue, m)
             /\ OutputPut(d, o, m).out[o].flags = p.flags
  <2> DEFINE x == [p EXCEPT !.queue = Append(@, m)]
  <2>1. OutputPut(d, o, m) = [d EXCEPT !.out[o] = x]
    BY DEF OutputPut
  <2>2. OutFields \subseteq DOMAIN x /\ x.queue = Append(p.queue, m) /\ x.flags = p.flags
    BY <1>0 DEF OutFields
  <2> HIDE DEF x
  <2> QED
    BY <2>1, <2>2, AtPort
<1>2. Aside(d, OutputData(d, o))
  BY Answering DEF OutputData
<1>3. ASSUME NEW n
      PROVE  LET e == OutputProduce(d, o, n)
             IN  /\ OneOutput(d, e, o)
                 /\ e.out[o].flags = p.flags \/ e.out[o].flags = p.flags \ {"IDLE"}
                 /\ p.queue = <<>> => e.out[o].queue = <<>>
                 /\ p.queue # <<>> => e.out[o].queue = Tail(p.queue)
  <2> DEFINE e == OutputProduce(d, o, n)
             y == Expect(d, ~Unrouting(p), "production on a port being unrouted")
             z == Expect(y, FALSE, "production without buffer")
             u == ResponseData(y, Head(p.queue), n)
             x == [p EXCEPT !.queue = Tail(@), !.flags = @ \ {"IDLE"}]
  <2>1. Aside(d, y)
    BY Answering
  <2>2. Aside(d, z) /\ Aside(d, u)
    <3> HIDE DEF y
    <3>0. Made(y)
      BY <2>1 DEF Aside
    <3>1. Aside(y, z) /\ Aside(y, u)
      BY <3>0, Answering
    <3> QED
      BY <2>1, <3>1, AtOne
  <2>3. e = IF p.queue = <<>> THEN z ELSE [u EXCEPT !.out[o].queue = Tail(@), !.out[o].flags = @ \ {"IDLE"}]
    BY DEF OutputProduce
  <2>4. OutFields \subseteq DOMAIN x /\ x.queue = Tail(p.queue) /\ x.flags = p.flags \ {"IDLE"}
    BY <1>0 DEF OutFields
  <2>5. [u EXCEPT !.out[o].queue = Tail(@), !.out[o].flags = @ \ {"IDLE"}] = [u EXCEPT !.out[o] = x]
    <3> HIDE DEF u
    <3>1. u.out[o] = p
      BY <2>2 DEF Aside
    <3>2. [u EXCEPT !.out[o].queue = Tail(@), !.out[o].flags = @ \ {"IDLE"}]
            = [u EXCEPT !.out[o] = [u.out[o] EXCEPT !.queue = Tail(@), !.flags = @ \ {"IDLE"}]]
      OBVIOUS
    <3> QED
      BY <3>1, <3>2
  <2> HIDE DEF e, u, x, y, z
  <2>6. OneOutput(u, [u EXCEPT !.out[o] = x], o) /\ [u EXCEPT !.out[o] = x].out[o] = x
    BY <2>2, <2>4, AtPort DEF Aside
  <2>7. p.queue # <<>> => OneOutput(d, e, o) /\ e.out[o] = x
    BY <2>2, <2>3, <2>5, <2>6, AtOne
  <2>8. p.queue = <<>> => OneOutput(d, e, o) /\ e.out[o] = p
    BY <2>2, <2>3, AtOne DEF Aside
  <2> QED
    BY <2>4, <2>7, <2>8 DEF e
<1> QED
  BY <1>1, <1>2, <1>3

\* flags that tell whether an output may be used
Blocking == {"UNROUTING", "FLUSHING", "PAUSED", "PROBE_PAUSED"}

\* An output is routed.
LEMMA Routing ==
    ASSUME NEW d, Made(d), NEW o \in DOMAIN d.out
    PROVE  LET p == d.out[o]
           IN  /\ \A mem :
                    LET e == OutputRouteAlloc(d, o, mem)
                    IN  /\ OneOutput(d, e, o)
                        /\ e.out[o].flags \cap Blocking = p.flags \cap Blocking
               /\ \A n, sized, mem :
                    LET e == OutputRoute(d, o, n, sized, mem)
                    IN  OneOutput(d, e, o) /\ (sized /\ ~mem => e.out[o].queue = <<>>)
<1> DEFINE alloc(a, mem) == OutputRouteAlloc(a, o, mem)
<1>1. ASSUME NEW a, Made(a), o \in DOMAIN a.out, NEW mem
      PROVE  /\ OneOutput(a, alloc(a, mem), o)
             /\ alloc(a, mem).out[o].flags \cap Blocking = a.out[o].flags \cap Blocking
             /\ "ROUTING" \in a.out[o].flags /\ ~a.out[o].sized /\ ~mem => alloc(a, mem).out[o].queue = <<>>
  <2> DEFINE p == a.out[o]
             x == [p EXCEPT !.queue = @ \o [k \in 1 .. p.pool |-> PoolMsg(o, k)], !.sized = TRUE,
                            !.flags = Toggle(@, {"ROUTING", "ROUTED"})]
             y == [p EXCEPT !.queue = <<>>, !.pools = @ - 1]
             e == alloc(a, mem)
  <2>0. OutFields \subseteq DOMAIN p
    BY <1>1 DEF Made
  <2>1. e = CASE "ROUTING" \notin p.flags \/ p.sized -> a
              [] "ROUTING" \in p.flags /\ ~p.sized /\ mem -> [a EXCEPT !.out[o] = x]
              [] OTHER -> [a EXCEPT !.out[o] = y]
    BY DEF OutputRouteAlloc
  <2>2. /\ OutFields \subseteq DOMAIN x /\ x.flags = Toggle(p.flags, {"ROUTING", "ROUTED"})
        /\ OutFields \subseteq DOMAIN y /\ y.flags = p.flags /\ y.queue = <<>>
    BY <2>0 DEF OutFields
  <2> HIDE DEF x, y, e, alloc
  <2>3. /\ OneOutput(a, [a EXCEPT !.out[o] = x], o) /\ [a EXCEPT !.out[o] = x].out[o] = x
        /\ OneOutput(a, [a EXCEPT !.out[o] = y], o) /\ [a EXCEPT !.out[o] = y].out[o] = y
    BY <1>1, <2>2, AtPort
  <2>4. OneOutput(a, a, o)
    BY <1>1 DEF OneOutput, Alike
  <2>5. x.flags \cap Blocking = p.flags \cap Blocking
    BY <2>2 DEF Toggle, Blocking
  <2>6. /\ OneOutput(a, e, o) /\ (e.out[o] = p \/ e.out[o] = x \/ e.out[o] = y)
        /\ "ROUTING" \in p.flags /\ ~p.sized /\ ~mem => e.out[o] = y
    BY <2>1, <2>3, <2>4
  <2> QED
    BY <2>2, <2>5, <2>6 DEF e
<1>2. ASSUME NEW n, NEW sized, NEW mem
      PROVE  LET e == OutputRoute(d, o, n, sized, mem)
             IN  OneOutput(d, e, o) /\ (sized /\ ~mem => e.out[o].queue = <<>>)
  <2> DEFINE p == d.out[o]
             x == [p EXCEPT !.pool = n, !.pools = @ + 1, !.sized = FALSE,
                            !.flags = (@ \cup {"ROUTING"}) \ {"IDLE"}]
             a == [d EXCEPT !.out[o] = x]
             e == OutputRoute(d, o, n, sized, mem)
  <2>1. e = IF sized THEN alloc(a, mem) ELSE a
    <3>1. a = [d EXCEPT !.out[o].pool = n, !.out[o].pools = @ + 1, !.out[o].sized = FALSE,
                        !.out[o].flags = (@ \cup {"ROUTING"}) \ {"IDLE"}]
      OBVIOUS
    <3> HIDE DEF a
    <3> QED
      BY <3>1 DEF OutputRoute
  <2>2. OutFields \subseteq DOMAIN x /\ "ROUTING" \in x.flags /\ ~x.sized
    BY DEF OutFields, Made
  <2> HIDE DEF x, e
  <2>3. OneOutput(d, a, o) /\ a.out[o] = x
    BY <2>2, AtPort
  <2> HIDE DEF a, alloc
  <2>4. /\ OneOutput(a, alloc(a, mem), o)
        /\ ~mem => alloc(a, mem).out[o].queue = <<>>
    BY <1>1, <2>2, <2>3 DEF OneOutput
  <2>5. OneOutput(d, alloc(a, mem), o)
    BY <2>3, <2>4, AtOne
  <2> QED
    BY <2>1, <2>3, <2>4, <2>5 DEF e
<1> QED
  BY <1>1, <1>2

\* Its route is taken down.
LEMMA TakingDown ==
    ASSUME NEW d, Made(d), NEW o \in DOMAIN d.out
    PROVE  /\ LET e == OutputUnroute(d, o)
              IN  OneOutput(d, e, o) /\ e.out[o].queue = <<>> /\ e.out[o].flags = {"CREATED", "IDLE"}
           /\ LET e == OutputUnrouteDone(d, o)
              IN  OneOutput(d, e, o) /\ e.out[o].queue = <<>> /\ e.out[o].flags = {"CREATED", "IDLE"}
           /\ \A m : LET e == OutputUnrouteStart(d, o, m)
                     IN  /\ OneOutput(d, e, o) /\ Unrouting(e.out[o])
                         /\ e.out[o].queue = d.out[o].queue
           /\ OneOutput(d, OutputDestroy(d, o), o)
<1>1. ASSUME NEW a, Made(a), o \in DOMAIN a.out
      PROVE  LET e == OutputUnroute(a, o)
             IN  OneOutput(a, e, o) /\ e.out[o].queue = <<>> /\ e.out[o].flags = {"CREATED", "IDLE"}
  <2> DEFINE x == [a.out[o] EXCEPT !.queue = <<>>, !.pools = @ - 1, !.flags = {"CREATED", "IDLE"}]
  <2>1. OutputUnroute(a, o) = [a EXCEPT !.out[o] = x]
    BY DEF OutputUnroute
  <2>2. OutFields \subseteq DOMAIN x /\ x.queue = <<>> /\ x.flags = {"CREATED", "IDLE"}
    BY <1>1 DEF Made, OutFields
  <2> HIDE DEF x
  <2> QED
    BY <1>1, <2>1, <2>2, AtPort
<1>2. LET e == OutputUnrouteDone(d, o)
      IN  OneOutput(d, e, o) /\ e.out[o].queue = <<>> /\ e.out[o].flags = {"CREATED", "IDLE"}
  <2> DEFINE y == Expect(d, Unrouting(d.out[o]), "no unrouting started")
             u == OutputUnroute(y, o)
             x == [u.out[o] EXCEPT !.unroute = NoMsg]
             v == [u EXCEPT !.out[o] = x]
             e == OutputUnrouteDone(d, o)
  <2>1. Aside(d, y)
    BY Answering
  <2>2. e = ResponseOk(v, d.out[o].unroute)
    BY DEF OutputUnrouteDone
  <2> HIDE DEF y
  <2>3. OneOutput(y, u, o) /\ u.out[o].queue = <<>> /\ u.out[o].flags = {"CREATED", "IDLE"}
    BY <1>1, <2>1 DEF Aside
  <2> HIDE DEF u
  <2>4. OneOutput(d, u, o) /\ o \in DOMAIN u.out /\ Made(u)
    BY <2>1, <2>3, AtOne DEF OneOutput, Aside
  <2>5. OutFields \subseteq DOMAIN x /\ x.queue = <<>> /\ x.flags = {"CREATED", "IDLE"}
    BY <2>3, <2>4 DEF Made, OutFields
  <2> HIDE DEF x
  <2>6. OneOutput(u, v, o) /\ v.out[o] = x
    BY <2>4, <2>5, AtPort
  <2> HIDE DEF v
  <2>7. Aside(v, e)
    BY <2>2, <2>6, Answering DEF OneOutput
  <2> HIDE DEF e
  <2>8. OneOutput(d, v, o)
    BY <2>4, <2>6, AtOne
  <2>9. OneOutput(d, e, o) /\ e.out[o] = x
    BY <2>6, <2>7, <2>8 DEF Aside, OneOutput, Alike
  <2> QED
    BY <2>5, <2>9 DEF e
<1>3. ASSUME NEW m
      PROVE  LET e == OutputUnrouteStart(d, o, m)
             IN  OneOutput(d, e, o) /\ Unrouting(e.out[o]) /\ e.out[o].queue = d.out[o].queue
  <2> DEFINE y == Expect(d, Routed(d.out[o]), "unrouting a port that is not routed")
             x == [d.out[o] EXCEPT !.unroute = m, !.flags = @ \cup {"UNROUTING"}]
             e == OutputUnrouteStart(d, o, m)
  <2>1. Aside(d, y)
    BY Answering
  <2>2. e = [y EXCEPT !.out[o] = [y.out[o] EXCEPT !.unroute = m, !.flags = @ \cup {"UNROUTING"}]]
    BY DEF OutputUnrouteStart
  <2> HIDE DEF y, e
  <2>3. e = [y EXCEPT !.out[o] = x]
    BY <2>1, <2>2 DEF Aside
  <2>4. OutFields \subseteq DOMAIN x /\ "UNROUTING" \in x.flags /\ x.queue = d.out[o].queue
    BY DEF Made, OutFields
  <2> HIDE DEF x
  <2>5. OneOutput(y, e, o) /\ e.out[o] = x
    BY <2>1, <2>3, <2>4, AtPort DEF Aside
  <2>6. OneOutput(d, e, o)
    BY <2>1, <2>5, AtOne
  <2> QED
    BY <2>4, <2>5, <2>6 DEF e, Unrouting
<1>4. OneOutput(d, OutputDestroy(d, o), o)
  <2> DEFINE y == Expect(d, Routed(d.out[o]) => "IDLE" \in d.out[o].flags,
                         "destroying a port that is not idle")
             u == IF Routed(d.out[o]) THEN OutputUnroute(y, o) ELSE d
             x == [u.out[o] EXCEPT !.flags = {}]
             e == OutputDestroy(d, o)
  <2>1. Aside(d, y) /\ OneOutput(d, d, o)
    BY Answering DEF OneOutput, Alike
  <2>2. e = [u EXCEPT !.out[o] = x]
    BY DEF OutputDestroy
  <2>3. OneOutput(d, u, o)
    <3> HIDE DEF y
    <3>1. OneOutput(y, OutputUnroute(y, o), o)
      BY <1>1, <2>1 DEF Aside
    <3> QED
      BY <2>1, <3>1, AtOne
  <2> HIDE DEF y, u, e
  <2>4. OutFields \subseteq DOMAIN x /\ Made(u) /\ o \in DOMAIN u.out
    BY <2>3 DEF OneOutput, Made, OutFields
  <2> HIDE DEF x
  <2>5. OneOutput(u, e, o)
    BY <2>2, <2>4, AtPort
  <2> QED
    BY <2>3, <2>5, AtOne DEF e
<1> QED
  BY <1>1, <1>2, <1>3, <1>4

\* A flush is started or ends.
LEMMA FlushingOut ==
    ASSUME NEW d, Made(d), NEW o \in DOMAIN d.out
    PROVE  LET p == d.out[o]
           IN  /\ \A op :
                    LET e == OutputFlush(d, o, op)
                        q == e.out[o]
                    IN  /\ OneOutput(d, e, o)
                        /\ ~Routed(p) => q.queue = <<>> /\ q.flags = p.flags
                        /\ Routed(p) => q.queue = p.queue
                        /\ Routed(p) /\ (FlushedAtOnce(p, op) \/ Flushing(p)) => q.flags = p.flags
                        /\ Routed(p) /\ ~FlushedAtOnce(p, op) /\ ~Flushing(p) =>
                            q.flags = p.flags \cup {"FLUSHING"}
               /\ LET e == OutputFlushDone(d, o)
                  IN  /\ OneOutput(d, e, o) /\ e.out[o].queue = p.queue
                      /\ e.out[o].flags = Toggle(p.flags, {"IDLE", "FLUSHING"})
<1> DEFINE p == d.out[o]
<1>1. ASSUME NEW op
      PROVE  LET e == OutputFlush(d, o, op)
                 q == e.out[o]
             IN  /\ OneOutput(d, e, o)
                 /\ ~Routed(p) => q.queue = <<>> /\ q.flags = p.flags
                 /\ Routed(p) => q.queue = p.queue
                 /\ Routed(p) /\ (FlushedAtOnce(p, op) \/ Flushing(p)) => q.flags = p.flags
                 /\ Routed(p) /\ ~FlushedAtOnce(p, op) /\ ~Flushing(p) =>
                     q.flags = p.flags \cup {"FLUSHING"}
  <2> DEFINE e == OutputFlush(d, o, op)
             y == RespondAllOk(d, p.queue)
             x == [p EXCEPT !.queue = <<>>]
             u == Response(d, [PoolMsg(o, 0) EXCEPT !.op = op])
             z == [p EXCEPT !.flags = Toggle(@, {"FLUSHING"})]
  <2>1. Aside(d, y) /\ Aside(d, u)
    BY Answering
  <2>2. e = CASE ~Routed(p) -> [y EXCEPT !.out[o] = [y.out[o] EXCEPT !.queue = <<>>]]
              [] Routed(p) /\ (FlushedAtOnce(p, op) \/ Flushing(p)) -> d
              [] OTHER -> [u EXCEPT !.out[o] = [u.out[o] EXCEPT !.flags = Toggle(@, {"FLUSHING"})]]
    BY DEF OutputFlush
  <2> HIDE DEF y, u, e
  <2>3. e = CASE ~Routed(p) -> [y EXCEPT !.out[o] = x]
              [] Routed(p) /\ (FlushedAtOnce(p, op) \/ Flushing(p)) -> d
              [] OTHER -> [u EXCEPT !.out[o] = z]
    <3>1. y.out[o] = p /\ u.out[o] = p
      BY <2>1 DEF Aside
    <3> QED
      BY <2>2, <3>1
  <2>4. /\ OutFields \subseteq DOMAIN x /\ x.queue = <<>> /\ x.flags = p.flags
        /\ OutFields \subseteq DOMAIN z /\ z.queue = p.queue /\ z.flags = Toggle(p.flags, {"FLUSHING"})
    BY DEF Made, OutFields
  <2>5. ~Flushing(p) => z.flags = p.flags \cup {"FLUSHING"}
    BY <2>4 DEF Flushing, Toggle
  <2> HIDE DEF x, z
  <2>6. /\ OneOutput(y, [y EXCEPT !.out[o] = x], o) /\ [y EXCEPT !.out[o] = x].out[o] = x
        /\ OneOutput(u, [u EXCEPT !.out[o] = z], o) /\ [u EXCEPT !.out[o] = z].out[o] = z
    BY <2>1, <2>4, AtPort DEF Aside
  <2>7. /\ OneOutput(d, [y EXCEPT !.out[o] = x], o) /\ OneOutput(d, [u EXCEPT !.out[o] = z], o)
        /\ OneOutput(d, d, o)
    BY <2>1, <2>6, AtOne DEF OneOutput, Alike
  <2>8. CASE ~Routed(p)
    <3>1. e = [y EXCEPT !.out[o] = x]
      BY <2>3, <2>8
    <3> QED
      BY <2>4, <2>6, <2>7, <2>8, <3>1 DEF e
  <2>9. CASE Routed(p) /\ (FlushedAtOnce(p, op) \/ Flushing(p))
    <3>1. e = d
      BY <2>3, <2>9
    <3> QED
      BY <2>7, <2>9, <3>1 DEF e
  <2>10. CASE Routed(p) /\ ~(FlushedAtOnce(p, op) \/ Flushing(p))
    <3>1. e = [u EXCEPT !.out[o] = z]
      BY <2>3, <2>10
    <3> QED
      BY <2>4, <2>5, <2>6, <2>7, <2>10, <3>1 DEF e
  <2> QED
    BY <2>8, <2>9, <2>10
<1>2. LET e == OutputFlushDone(d, o)
      IN  /\ OneOutput(d, e, o) /\ e.out[o].queue = p.queue
          /\ e.out[o].flags = Toggle(p.flags, {"IDLE", "FLUSHING"})
  <2> DEFINE y == Expect(d, Flushing(p), "no flush started")
             x == [p EXCEPT !.flags = Toggle(@, {"IDLE", "FLUSHING"})]
             e == OutputFlushDone(d, o)
  <2>1. Aside(d, y)
    BY Answering
  <2>2. e = [y EXCEPT !.out[o] = [y.out[o] EXCEPT !.flags = Toggle(@, {"IDLE", "FLUSHING"})]]
    BY DEF OutputFlushDone
  <2> HIDE DEF y, e
  <2>3. e = [y EXCEPT !.out[o] = x]
    BY <2>1, <2>2 DEF Aside
  <2>4. /\ OutFields \subseteq DOMAIN x /\ x.flags = Toggle(p.flags, {"IDLE", "FLUSHING"})
        /\ x.queue = p.queue
    BY DEF Made, OutFields
  <2> HIDE DEF x
  <2>5. OneOutput(y, e, o) /\ e.out[o] = x
    BY <2>1, <2>3, <2>4, AtPort DEF Aside
  <2>6. OneOutput(d, e, o)
    BY <2>1, <2>5, AtOne
  <2> QED
    BY <2>4, <2>5, <2>6 DEF e
<1> QED
  BY <1>1, <1>2

-----------------------------------------------------------------------------
(* The state of a component *)

\* d is a but for what it does with its outputs, and its state
Beside(a, d) ==
    /\ Made(d) /\ d.class = a.class /\ d.ni = a.ni /\ d.no = a.no /\ d.entry = a.entry
    /\ d.probe = a.probe /\ d.avail = a.avail /\ d.in = a.in

\* but for its state
Level(a, d) == Beside(a, d) /\ d.out = a.out

\* What is done to the state of a component.
LEMMA States ==
    ASSUME NEW d, Made(d)
    PROVE  /\ \A s : LET e == [d EXCEPT !.state = s]
                     IN  Level(d, e) /\ e.state = s /\ e.ret = d.ret
           /\ \A why : LET e == Fail(d, why)
                       IN  Level(d, e) /\ e.state = d.state /\ e.ret = why
           /\ \A x : LET e == ScheduleIf(d, x)
                     IN  /\ Level(d, e) /\ e.ret = d.ret
                         /\ e.state \ {"SCHEDULE"} = d.state \ {"SCHEDULE"}
                         /\ "SCHEDULE" \in d.state => e.state = d.state
                         /\ ~x => e.state = d.state
                         /\ x /\ "COMP_FATAL_ERROR" \notin d.state => "SCHEDULE" \in e.state
           /\ LET e == Cancel(d)
              IN  Level(d, e) /\ e.state = d.state \ {"SCHEDULE"} /\ e.ret = d.ret
           /\ LET e == Take(d)
              IN  Level(d, e) /\ e.state = d.state \ {"SCHEDULE"} /\ e.ret = d.ret
           /\ LET e == Restart(d)
              IN  Level(d, e) /\ e.state = {"POSTINIT", "EXECUTION"} /\ e.ret = d.ret
           /\ LET e == ResetRuntime(d)
              IN  Level(d, e) /\ e.state = d.state /\ e.ret = d.ret
<1>1. ASSUME NEW s PROVE LET e == [d EXCEPT !.state = s] IN Level(d, e) /\ e.state = s /\ e.ret = d.ret
  BY DEF Level, Beside, Made, Fields
<1>2. ASSUME NEW why
      PROVE  LET e == Fail(d, why) IN Level(d, e) /\ e.state = d.state /\ e.ret = why
  BY DEF Level, Beside, Made, Fields, Fail
<1>3. ASSUME NEW s, NEW t
      PROVE  LET e == [d EXCEPT !.state = s, !.task = t]
             IN  Level(d, e) /\ e.state = s /\ e.ret = d.ret
  BY DEF Level, Beside, Made, Fields
<1>4. ASSUME NEW x
      PROVE  LET e == ScheduleIf(d, x)
             IN  /\ Level(d, e) /\ e.ret = d.ret
                 /\ e.state \ {"SCHEDULE"} = d.state \ {"SCHEDULE"}
                 /\ "SCHEDULE" \in d.state => e.state = d.state
                 /\ ~x => e.state = d.state
                 /\ x /\ "COMP_FATAL_ERROR" \notin d.state => "SCHEDULE" \in e.state
  <2>1. Level(d, d)
    BY DEF Level, Beside
  <2> DEFINE e == [d EXCEPT !.state = d.state \cup {"SCHEDULE"}, !.task = d.task + 1]
  <2>2. Level(d, e) /\ e.state = d.state \cup {"SCHEDULE"} /\ e.ret = d.ret
    BY <1>3
  <2>3. ScheduleIf(d, x) = IF x /\ "SCHEDULE" \notin d.state /\ "COMP_FATAL_ERROR" \notin d.state
                           THEN e ELSE d
    BY DEF ScheduleIf, Schedule, Has
  <2> HIDE DEF e
  <2> QED
    BY <2>1, <2>2, <2>3
<1>5. LET e == Cancel(d) IN Level(d, e) /\ e.state = d.state \ {"SCHEDULE"} /\ e.ret = d.ret
  <2>1. Level(d, d)
    BY DEF Level, Beside
  <2>2. "SCHEDULE" \notin d.state => d.state \ {"SCHEDULE"} = d.state
    OBVIOUS
  <2> QED
    BY <1>3, <2>1, <2>2 DEF Cancel, Has
<1>6. LET e == Take(d) IN Level(d, e) /\ e.state = d.state \ {"SCHEDULE"} /\ e.ret = d.ret
  BY <1>3 DEF Take
<1>7. /\ LET e == Restart(d) IN Level(d, e) /\ e.state = {"POSTINIT", "EXECUTION"} /\ e.ret = d.ret
      /\ LET e == ResetRuntime(d) IN Level(d, e) /\ e.state = d.state /\ e.ret = d.ret
  BY DEF Level, Beside, Made, Fields, Restart, ResetRuntime
<1> QED
  BY <1>1, <1>2, <1>4, <1>5, <1>6, <1>7

\* What follows each other beside the inputs.
LEMMA AllBeside ==
    ASSUME NEW a, NEW d, Beside(a, d)
    PROVE  /\ \A e : Beside(d, e) => Beside(a, e)
           /\ \A e : Level(d, e) => Beside(a, e)
           /\ \A e : Aside(d, e) => Beside(a, e)
           /\ \A e, o : OneOutput(d, e, o) => Beside(a, e)
  BY DEF Beside, Level, Aside, OneOutput, Alike

\* the stages of a component: none before it has its parameters, then one
Staged(s) ==
    /\ "COMP_FATAL_ERROR" \notin s
    /\ "POSTINIT" \notin s => {"RUNTIME_INIT", "EXECUTION"} \cap s = {}
    /\ ~({"RUNTIME_INIT", "EXECUTION"} \subseteq s)

-----------------------------------------------------------------------------
(* The mixer *)

\* a track that is idle, active or paused, and nothing else
OneState(p)   == Cardinality(p.flags \cap {"IDLE", "ACTIVE", "PAUSED"}) = 1

\* one that is paused when its end is reached (xa-class-mixer.c:1093)
EndsPaused(p) == {"PAUSED", "INPUT_SETUP", "DONE"} \subseteq p.flags

Tracks(a, d) ==
    /\ DOMAIN d.in = DOMAIN a.in
    /\ \A i \in DOMAIN a.in : OneState(a.in[i]) /\ ~EndsPaused(a.in[i]) => OneState(d.in[i])

\* d is a mixer
Mix(d) ==
    /\ Made(d) /\ d.class = "mixer" /\ d.no = 1
    /\ \A i \in DOMAIN d.in : IsSeq(d.in[i].queue)

\* whose tracks are in order
Mixing(d) ==
    /\ Staged(d.state)
    /\ \A i \in DOMAIN d.in :
        Port(d.in[i]) /\ "PURGING" \notin d.in[i].flags /\ d.avail[i] \in Nat

\* There is something to process, as MixerCould says of c.
Fed(p) == p.queue # <<>> \/ Loaded(p) \/ "INPUT_SETUP" \in p.flags

Could(d) ==
    /\ Has(d, "EXECUTION") /\ MixReady(d) /\ ~MixPaused(d) /\ ~ProbeWaits(d)
    /\ ActiveTracks(d) # {} /\ \A i \in ActiveTracks(d) : Fed(d.in[i])

\* and then it is going to
Awake(d) == Could(d) => Has(d, "SCHEDULE")

\* d comes of a mixer a, which is given a message with data or none; if it
\* could process and will not, that is because
Comes(a, d, given, because) ==
    /\ Mix(d) /\ d.entry = a.entry /\ Tracks(a, d)
    /\ Mixing(a) /\ given => Mixing(d) /\ (Awake(a) => Awake(d) \/ because)

\* d is a but for its state, what it does with its outputs, and one input
Near(a, d, i) ==
    /\ Made(d) /\ d.class = a.class /\ d.ni = a.ni /\ d.no = a.no /\ d.entry = a.entry
    /\ d.probe = a.probe /\ d.avail = a.avail
    /\ DOMAIN d.in = DOMAIN a.in /\ \A j \in DOMAIN a.in \ {i} : d.in[j] = a.in[j]

\* What follows each other near an input.
LEMMA AllNear ==
    ASSUME NEW a, NEW d, NEW i
    PROVE  /\ OneInput(a, d, i) => Near(a, d, i)
           /\ Beside(a, d) => Near(a, d, i)
           /\ Near(a, d, i) => /\ \A e : Near(d, e, i) => Near(a, e, i)
                               /\ \A e : OneInput(d, e, i) => Near(a, e, i)
                               /\ \A e : Beside(d, e) \/ Level(d, e) => Near(a, e, i)
  BY DEF Near, OneInput, Beside, Level, Alike

\* A track is one of the three.
LEMMA OneOfThree ==
    ASSUME NEW p
    PROVE  OneState(p) <=>
             \/ "IDLE" \in p.flags /\ "ACTIVE" \notin p.flags /\ "PAUSED" \notin p.flags
             \/ "IDLE" \notin p.flags /\ "ACTIVE" \in p.flags /\ "PAUSED" \notin p.flags
             \/ "IDLE" \notin p.flags /\ "ACTIVE" \notin p.flags /\ "PAUSED" \in p.flags
<1> DEFINE s == p.flags \cap {"IDLE", "ACTIVE", "PAUSED"}
<1>1. IsFiniteSet({"IDLE", "ACTIVE", "PAUSED"})
  <2>1. IsFiniteSet({"IDLE"})
    BY FS_Singleton
  <2>2. IsFiniteSet({"IDLE"} \cup {"ACTIVE"})
    BY <2>1, FS_AddElement
  <2>3. IsFiniteSet(({"IDLE"} \cup {"ACTIVE"}) \cup {"PAUSED"})
    BY <2>2, FS_AddElement
  <2>4. ({"IDLE"} \cup {"ACTIVE"}) \cup {"PAUSED"} = {"IDLE", "ACTIVE", "PAUSED"}
    OBVIOUS
  <2> QED
    BY <2>3, <2>4
<1>2. IsFiniteSet(s)
  BY <1>1, FS_Intersection
<1>3. Cardinality(s) = 1 <=> \E x : s = {x}
  <2> HIDE DEF s
  <2> QED
    BY <1>2, FS_Singleton
<1>4. (\E x : s = {x}) <=> (s = {"IDLE"} \/ s = {"ACTIVE"} \/ s = {"PAUSED"})
  BY Zenon
<1>5. /\ s = {"IDLE"} <=> "IDLE" \in p.flags /\ "ACTIVE" \notin p.flags /\ "PAUSED" \notin p.flags
      /\ s = {"ACTIVE"} <=> "IDLE" \notin p.flags /\ "ACTIVE" \in p.flags /\ "PAUSED" \notin p.flags
      /\ s = {"PAUSED"} <=> "IDLE" \notin p.flags /\ "ACTIVE" \notin p.flags /\ "PAUSED" \in p.flags
  OBVIOUS
<1> QED
  BY <1>3, <1>4, <1>5 DEF OneState

\* What is left of a mixer after a step at one of its tracks at most.
LEMMA Coming ==
    ASSUME NEW a, Mix(a), NEW d, NEW i, Near(a, d, i), Staged(a.state) => Staged(d.state),
           i \in DOMAIN a.in =>
             /\ IsSeq(d.in[i].queue)
             /\ OneState(a.in[i]) /\ ~EndsPaused(a.in[i]) => OneState(d.in[i])
             /\ Mixing(a) => Port(d.in[i]) /\ "PURGING" \notin d.in[i].flags
    PROVE  /\ Mix(d) /\ d.entry = a.entry /\ Tracks(a, d)
           /\ Mixing(a) => Mixing(d)
  BY DEF Mix, Near, Tracks, Mixing

\* If it could go on then, it could before.
LEMMA CouldBefore ==
    ASSUME NEW a, Mix(a), NEW d, NEW i, Near(a, d, i),
           "EXECUTION" \in d.state => "EXECUTION" \in a.state,
           "RUNTIME_INIT" \in d.state => "RUNTIME_INIT" \in a.state,
           "SCHEDULE" \in a.state => "SCHEDULE" \in d.state,
           \A o \in DOMAIN a.out :
              /\ d.out[o].queue # <<>> => a.out[o].queue # <<>>
              /\ Blocking \cap a.out[o].flags \subseteq d.out[o].flags
              /\ "PROBE_PAUSED" \in d.out[o].flags => "PROBE_PAUSED" \in a.out[o].flags,
           i \in DOMAIN a.in =>
              /\ "ACTIVE" \in d.in[i].flags <=> "ACTIVE" \in a.in[i].flags
              /\ Fed(d.in[i]) => Fed(a.in[i])
    PROVE  Awake(a) => Awake(d)
<1>1. MixOut(a) = MixOut(d) /\ ProbePort(a) = ProbePort(d)
      /\ MixOut(a) \in DOMAIN a.out /\ ProbePort(a) \in DOMAIN a.out
  BY DEF MixOut, ProbePort, Near, Mix, Made
<1>2. MixReady(d) => MixReady(a)
  BY <1>1 DEF MixReady, OutputReady, Unrouting, Flushing, Blocking
<1>3. MixPaused(a) => MixPaused(d)
  BY <1>1 DEF MixPaused, Blocking
<1>4. ProbeWaits(a) => ProbeWaits(d)
  BY <1>1 DEF ProbeWaits, ProbeOn, ProbePaused, OutputReady, Unrouting, Flushing, Blocking, Has, Near
<1>5. ActiveTracks(d) = ActiveTracks(a)
  BY DEF ActiveTracks, Near
<1>6. \A j \in DOMAIN a.in : Fed(d.in[j]) => Fed(a.in[j])
  BY DEF Near
<1>7. ActiveTracks(a) \subseteq DOMAIN a.in
  BY DEF ActiveTracks
<1>9. Could(d) => Could(a)
  BY <1>2, <1>3, <1>4, <1>5, <1>6, <1>7 DEF Could, Has
<1> QED
  BY <1>9 DEF Awake, Has

\* A mixer that schedules its processing if its output is ready is awake.
LEMMA Waking ==
    ASSUME NEW d, Mix(d)
    PROVE  /\ Level(d, MixSchedule(d)) /\ MixSchedule(d).state \ {"SCHEDULE"} = d.state \ {"SCHEDULE"}
           /\ "COMP_FATAL_ERROR" \notin d.state => Awake(MixSchedule(d))
<1> DEFINE e == MixSchedule(d)
<1>1. /\ Level(d, e) /\ e.state \ {"SCHEDULE"} = d.state \ {"SCHEDULE"}
      /\ MixReady(d) /\ "COMP_FATAL_ERROR" \notin d.state => "SCHEDULE" \in e.state
  BY States DEF Mix, MixSchedule
<1> HIDE DEF e
<1>2. MixReady(e) => MixReady(d)
  BY <1>1 DEF MixReady, MixOut, Level, Beside
<1>3. "COMP_FATAL_ERROR" \notin d.state => Awake(e)
  BY <1>1, <1>2 DEF Awake, Could, Has
<1> QED
  BY <1>1, <1>3 DEF e

\* What remains beside the inputs of a mixer.
LEMMA ComingBeside ==
    ASSUME NEW a, Mix(a), NEW d, Beside(a, d), Staged(a.state) => Staged(d.state)
    PROVE  /\ Mix(d) /\ d.entry = a.entry /\ Tracks(a, d)
           /\ Mixing(a) => Mixing(d)
  BY DEF Mix, Beside, Tracks, Mixing

\* Stages that are kept.
LEMMA Stages ==
    ASSUME NEW s, NEW t, t \ {"SCHEDULE", "OUTPUT_SETUP"} = s \ {"SCHEDULE", "OUTPUT_SETUP"}
    PROVE  /\ Staged(s) <=> Staged(t)
           /\ \A f \in {"POSTINIT", "RUNTIME_INIT", "EXECUTION", "COMP_FATAL_ERROR"} : f \in t <=> f \in s
<1>1. \A f \in {"POSTINIT", "RUNTIME_INIT", "EXECUTION", "COMP_FATAL_ERROR"} : f \in t <=> f \in s
  OBVIOUS
<1> QED
  BY <1>1 DEF Staged

\* What changes nothing a mixer goes by.
LEMMA Unmoved ==
    ASSUME NEW a, Mix(a), NEW d, NEW given, NEW because,
           Aside(a, d) \/ (Level(a, d) /\ d.state = a.state)
    PROVE  Comes(a, d, given, because)
<1>1. Beside(a, d) /\ d.out = a.out /\ d.state = a.state
  BY DEF Aside, Level, Beside, Alike
<1>2. Awake(a) => Awake(d)
  <2>1. ActiveTracks(d) = ActiveTracks(a)
    BY <1>1 DEF ActiveTracks, Beside
  <2> QED
    BY <1>1, <2>1 DEF Beside, Awake, Could, MixReady, MixOut, MixPaused, ProbeWaits, ProbeOn, ProbePaused,
                      ProbePort, Has
<1> QED
  BY <1>1, <1>2, ComingBeside DEF Comes

\* A track that receives data: the first of it wakes the mixer, more of it
\* does not make more of the track.
LEMMA MixerReceives ==
    ASSUME NEW a, Mix(a), NEW m
    PROVE  Comes(a, MixerEmpty(a, m), m \in Data, FALSE)
<1> DEFINE i == m.port
           p == a.in[i]
           s == IF m.len = 0 THEN p.flags \ {"RECVD_DATA"} ELSE p.flags \cup {"RECVD_DATA"}
           b == [a EXCEPT !.in[i].flags = s]
           d == InputPut(b, i, m)
           q == d.in[i]
           e == IF Has(d, "COMPLETED") THEN Restart(d) ELSE d
           t == IF "IDLE" \in e.in[i].flags THEN Toggle(e.in[i].flags, {"IDLE", "ACTIVE"}) ELSE e.in[i].flags
           f == [e EXCEPT !.in[i].flags = t]
<1>1. OneInput(a, b, i)
      /\ (i \in DOMAIN a.in =>
            /\ b.in[i].flags = s /\ b.in[i].queue = p.queue /\ b.in[i].size = p.size
            /\ b.in[i].filled = p.filled
            /\ Port(p) /\ s \cap BaseInputFlags = p.flags \cap BaseInputFlags => Port(b.in[i]))
  <2> HIDE DEF s, p
  <2>1. Made(a)
    BY DEF Mix
  <2> QED
    BY <2>1, Flagging DEF p
<1> DEFINE Track == {"IDLE", "ACTIVE", "PAUSED", "INPUT_SETUP"}
<1>2. s \cap BaseInputFlags = p.flags \cap BaseInputFlags /\ \A g \in Track : g \in s <=> g \in p.flags
  <2> HIDE DEF p
  <2> QED
    BY DEF BaseInputFlags
<1> HIDE DEF s, b
<1>3. /\ OneInput(b, d, i)
      /\ i \in DOMAIN b.in =>
            /\ Stays(b.in[i], q) /\ q.filled = b.in[i].filled
            /\ Port(b.in[i]) /\ m \in Data /\ "PURGING" \notin b.in[i].flags =>
                Port(q) /\ "PURGING" \notin q.flags
            /\ Port(b.in[i]) /\ m \in Data /\ ~WakesInput(b.in[i], m) =>
                (q.queue = <<>> <=> b.in[i].queue = <<>>) /\ (Done(q) <=> Done(b.in[i]))
  BY <1>1, Putting DEF OneInput
<1> HIDE DEF d
<1>4. ASSUME i \in DOMAIN a.in
      PROVE  /\ WakesInput(b.in[i], m) <=> WakesInput(p, m)
             /\ \A g \in Track : g \in q.flags <=> g \in p.flags
             /\ Port(p) => Port(b.in[i])
             /\ "PURGING" \in b.in[i].flags <=> "PURGING" \in p.flags
             /\ Done(b.in[i]) <=> Done(p)
             /\ IsSeq(p.queue) => IsSeq(q.queue)
  <2>1. i \in DOMAIN b.in
    BY <1>1, <1>4 DEF OneInput
  <2>2. \A g \in BaseInputFlags : g \in s <=> g \in p.flags
    BY <1>2
  <2>3. \A g \in Track : g \in q.flags <=> g \in s
    <3>1. Custom(q) = Custom(b.in[i]) /\ b.in[i].flags = s
      BY <1>1, <1>3, <1>4, <2>1 DEF Stays
    <3>2. Track \cap BaseInputFlags = {}
      BY DEF BaseInputFlags
    <3> HIDE DEF Track
    <3> QED
      BY <3>1, <3>2 DEF Custom
  <2> QED
    BY <1>1, <1>2, <1>3, <1>4, <2>1, <2>2, <2>3 DEF WakesInput, Stays, Done, BaseInputFlags
<1>5. OneInput(a, d, i) /\ Near(a, d, i) /\ d.state = a.state /\ d.out = a.out
  BY <1>1, <1>3, AtOne, AllNear DEF OneInput, Alike
<1>6. i \in DOMAIN a.in => (OneState(q) <=> OneState(p)) /\ (EndsPaused(q) => "DONE" \in q.flags)
  BY <1>4, OneOfThree DEF EndsPaused
<1>7. /\ Mix(d) /\ d.entry = a.entry /\ Tracks(a, d)
      /\ Mixing(a) /\ m \in Data => Mixing(d)
  <2>1. i \in DOMAIN a.in => IsSeq(p.queue)
    BY DEF Mix
  <2>2. i \in DOMAIN a.in /\ Mixing(a) /\ m \in Data => Port(q) /\ "PURGING" \notin q.flags
    BY <1>1, <1>3, <1>4 DEF Mixing, OneInput
  <2> HIDE DEF q, p
  <2> QED
    BY <1>4, <1>5, <1>6, <2>1, <2>2 DEF q, p, Mix, Near, Tracks, Mixing
<1>8. CASE ~Has(a, "POSTINIT")
  <2>1. MixerEmpty(a, m) = Fail(a, "error")
    BY <1>8 DEF MixerEmpty
  <2>2. Level(a, Fail(a, "error")) /\ Fail(a, "error").state = a.state
    BY States DEF Mix
  <2> QED
    BY <2>1, <2>2, Unmoved
<1>9. CASE Has(a, "POSTINIT") /\ ~WakesInput(p, m)
  <2>1. MixerEmpty(a, m) = d
    BY <1>9 DEF MixerEmpty, TrackReceives, d, b, s, p
  <2>2. ASSUME Mixing(a), m \in Data PROVE Awake(a) => Awake(d)
    <3>1. ASSUME i \in DOMAIN a.in
          PROVE  /\ "ACTIVE" \in q.flags <=> "ACTIVE" \in p.flags
                 /\ Fed(q) => Fed(p)
      <4>1. /\ q.queue = <<>> <=> p.queue = <<>>
            /\ Done(q) <=> Done(p)
            /\ q.filled = p.filled
        BY <1>1, <1>3, <1>4, <1>9, <2>2, <3>1 DEF Mixing, OneInput
      <4> HIDE DEF q, p
      <4> QED
        BY <1>4, <3>1, <4>1 DEF Fed, Loaded
    <3> QED
      BY <1>5, <3>1, CouldBefore
  <2> QED
    BY <1>7, <2>1, <2>2 DEF Comes
<1>10. CASE Has(a, "POSTINIT") /\ WakesInput(p, m)
  <2>1. MixerEmpty(a, m) = MixSchedule(f)
    BY <1>10 DEF MixerEmpty, TrackReceives, d, b, s, p
  <2>2. Level(d, e) /\ (e.state = d.state \/ e.state = {"POSTINIT", "EXECUTION"})
    BY <1>5, States DEF OneInput, Level, Beside
  <2> HIDE DEF e
  <2>3. /\ Mix(e) /\ e.entry = a.entry /\ Tracks(a, e) /\ Near(a, e, i)
        /\ Mixing(a) /\ m \in Data => Mixing(e)
    <3>1. Staged(d.state) => Staged(e.state)
      BY <2>2 DEF Staged
    <3>2. e.in = d.in
      BY <2>2 DEF Level, Beside
    <3> QED
      BY <1>5, <1>7, <2>2, <3>1, <3>2, ComingBeside, AllNear DEF Level, Tracks
  <2> DEFINE r == f.in[i]
  <2>4. /\ OneInput(e, f, i)
        /\ i \in DOMAIN e.in =>
             /\ r.flags = t /\ r.queue = e.in[i].queue
             /\ Port(e.in[i]) /\ t \cap BaseInputFlags = e.in[i].flags \cap BaseInputFlags => Port(r)
    <3>1. Made(e)
      BY <2>3 DEF Mix
    <3> HIDE DEF t
    <3> QED
      BY <3>1, Flagging
  <2>5. t \cap BaseInputFlags = e.in[i].flags \cap BaseInputFlags
    BY DEF BaseInputFlags, Toggle
  <2>6. i \in DOMAIN e.in => (OneState(e.in[i]) => OneState(r))
    <3> SUFFICES ASSUME i \in DOMAIN e.in PROVE OneState(e.in[i]) => OneState(r)
      OBVIOUS
    <3>1. r.flags = t
      BY <2>4
    <3> HIDE DEF r
    <3>2. /\ "PAUSED" \in t <=> "PAUSED" \in e.in[i].flags
          /\ "IDLE" \in e.in[i].flags => "IDLE" \notin t /\ ("ACTIVE" \in t <=> "ACTIVE" \notin e.in[i].flags)
          /\ "IDLE" \notin e.in[i].flags => t = e.in[i].flags
      BY DEF Toggle
    <3>3. "IDLE" \in e.in[i].flags => (OneState(e.in[i]) => OneState(r))
      <4> HIDE DEF t
      <4> QED
        BY <3>1, <3>2, OneOfThree
    <3>4. "IDLE" \notin e.in[i].flags => (OneState(r) <=> OneState(e.in[i]))
      <4> HIDE DEF t
      <4> QED
        BY <3>1, <3>2 DEF OneState
    <3> QED
      BY <3>3, <3>4
  <2>7. Near(a, f, i) /\ f.state = e.state
    <3> HIDE DEF f
    <3> QED
      BY <2>3, <2>4, AllNear DEF OneInput, Alike
  <2>8. /\ Mix(f) /\ f.entry = a.entry /\ Tracks(a, f)
        /\ Mixing(a) /\ m \in Data => Mixing(f)
    <3>1. i \in DOMAIN a.in => /\ IsSeq(r.queue)
                               /\ OneState(p) /\ ~EndsPaused(p) => OneState(r)
                               /\ Mixing(e) => Port(r) /\ "PURGING" \notin r.flags
      <4> SUFFICES ASSUME i \in DOMAIN a.in
                   PROVE  /\ IsSeq(r.queue)
                          /\ OneState(p) /\ ~EndsPaused(p) => OneState(r)
                          /\ Mixing(e) => Port(r) /\ "PURGING" \notin r.flags
        OBVIOUS
      <4>1. i \in DOMAIN e.in
        BY <2>3 DEF Near
      <4>2. "PURGING" \in t <=> "PURGING" \in e.in[i].flags
        BY <2>5 DEF BaseInputFlags
      <4> HIDE DEF t, f
      <4> QED
        BY <2>3, <2>4, <2>5, <2>6, <4>1, <4>2 DEF Mix, Mixing, Tracks
    <3>2. Staged(e.state) => Staged(f.state)
      BY <2>7
    <3> HIDE DEF f, t
    <3> QED
      BY <2>3, <2>7, <3>1, <3>2 DEF Mix, Near, Tracks, Mixing
  <2> DEFINE x == MixSchedule(f)
  <2>9. Level(f, x) /\ x.state \ {"SCHEDULE"} = f.state \ {"SCHEDULE"}
        /\ (Mixing(f) => Awake(x))
    BY <2>8, Waking DEF Mixing, Staged
  <2> HIDE DEF f, x
  <2>10. Staged(f.state) => Staged(x.state)
    BY <2>9, Stages
  <2>11. /\ Mix(x) /\ x.entry = f.entry /\ x.in = f.in
         /\ Mixing(f) => Mixing(x)
    BY <2>8, <2>9, <2>10, ComingBeside DEF Level, Beside
  <2> QED
    BY <2>1, <2>8, <2>9, <2>11 DEF Comes, x, Tracks
<1> QED
  BY <1>8, <1>9, <1>10

\* The output and the probe of a mixer are there, and are two.
LEMMA MixerPorts ==
    ASSUME NEW a, Mix(a)
    PROVE  /\ Made(a) /\ MixOut(a) \in DOMAIN a.out /\ ProbePort(a) \in DOMAIN a.out
           /\ MixOut(a) # ProbePort(a)
           /\ MixOut(a) \notin DOMAIN a.in
           /\ \A d : Beside(a, d) => MixOut(d) = MixOut(a) /\ ProbePort(d) = ProbePort(a)
  BY DEF Mix, Made, MixOut, ProbePort, Beside

\* What changes the outputs and the state of a mixer.
LEMMA ComesBeside ==
    ASSUME NEW a, Mix(a), NEW d, Beside(a, d), NEW given, NEW because,
           Staged(a.state) => Staged(d.state),
           Staged(a.state) => (Awake(a) => Awake(d) \/ because)
    PROVE  Comes(a, d, given, because)
  BY ComingBeside DEF Comes, Mixing

\* A buffer to fill wakes the mixer, if it is the first and no probe waits.
LEMMA MixerFillsOutput ==
    ASSUME NEW a, Mix(a), NEW m
    PROVE  Comes(a, MixerFillOutput(a, m), TRUE, FALSE)
<1> DEFINE o == MixOut(a)
           e == OutputPut(a, o, m)
           x == WakesOutput(a.out[o]) /\ ~ProbeWaits(a)
           r == ScheduleIf(e, x)
<1>0. Made(a) /\ o \in DOMAIN a.out /\ ProbePort(a) \in DOMAIN a.out /\ o # ProbePort(a)
  BY MixerPorts
<1>1. /\ OneOutput(a, e, o) /\ e.out[o].flags = a.out[o].flags
  BY <1>0, Buffering
<1> HIDE DEF e
<1>2. Beside(a, e) /\ e.state = a.state
  BY <1>1 DEF OneOutput, Alike, Beside
<1>3. /\ Level(e, r) /\ r.state \ {"SCHEDULE"} = e.state \ {"SCHEDULE"}
      /\ "SCHEDULE" \in e.state => r.state = e.state
      /\ x /\ "COMP_FATAL_ERROR" \notin e.state => "SCHEDULE" \in r.state
  BY <1>2, States DEF Beside
<1> HIDE DEF r
<1>4. Beside(a, r) /\ r.out = e.out
  BY <1>2, <1>3, AllBeside DEF Level
<1>5. Staged(a.state) => Staged(r.state)
  BY <1>2, <1>3, Stages
<1>6. ASSUME Staged(a.state), Awake(a) PROVE Awake(r)
  <2>1. CASE ~WakesOutput(a.out[o])
    <3>1. \A q \in DOMAIN a.out :
            /\ r.out[q].queue # <<>> => a.out[q].queue # <<>>
            /\ r.out[q].flags = a.out[q].flags
      BY <1>1, <1>4, <2>1 DEF OneOutput, WakesOutput
    <3>2. Near(a, r, o) /\ o \notin DOMAIN a.in
      BY <1>4, AllNear, MixerPorts
    <3>3. /\ "EXECUTION" \in r.state <=> "EXECUTION" \in a.state
          /\ "RUNTIME_INIT" \in r.state <=> "RUNTIME_INIT" \in a.state
          /\ "SCHEDULE" \in a.state => "SCHEDULE" \in r.state
      BY <1>2, <1>3
    <3> QED
      BY <1>6, <3>1, <3>2, <3>3, CouldBefore
  <2>2. CASE ProbeWaits(a)
    <3>1. ProbeWaits(r)
      BY <1>0, <1>1, <1>2, <1>3, <1>4, <2>2, MixerPorts
         DEF ProbeWaits, ProbeOn, ProbePaused, Has, OneOutput, Beside
    <3> QED
      BY <3>1 DEF Awake, Could
  <2>3. CASE x
    BY <1>2, <1>3, <1>6, <2>3 DEF Awake, Has, Staged
  <2> QED
    BY <2>1, <2>2, <2>3
<1> QED
  BY <1>4, <1>5, <1>6, ComesBeside DEF MixerFillOutput, r, e

\* A buffer for the probe wakes it, if the probe waited for it.
LEMMA MixerFillsProbe ==
    ASSUME NEW a, Mix(a), NEW m, m.port = ProbePort(a)
    PROVE  Comes(a, MixerFillProbe(a, m), TRUE, FALSE)
<1> DEFINE o == ProbePort(a)
           e == OutputPut(a, o, m)
           x == WakesOutput(a.out[o]) /\ MixReady(e) /\ Has(a, "EXECUTION")
           r == ScheduleIf(e, x)
<1>0. Made(a) /\ o \in DOMAIN a.out /\ MixOut(a) \in DOMAIN a.out /\ o # MixOut(a)
  BY MixerPorts
<1>1. /\ OneOutput(a, e, o) /\ e.out[o].flags = a.out[o].flags
  BY <1>0, Buffering
<1> HIDE DEF e
<1>2. Beside(a, e) /\ e.state = a.state
  BY <1>1 DEF OneOutput, Alike, Beside
<1>3. /\ Level(e, r) /\ r.state \ {"SCHEDULE"} = e.state \ {"SCHEDULE"}
      /\ "SCHEDULE" \in e.state => r.state = e.state
      /\ x /\ "COMP_FATAL_ERROR" \notin e.state => "SCHEDULE" \in r.state
  BY <1>2, States DEF Beside
<1> HIDE DEF r
<1>4. Beside(a, r) /\ r.out = e.out /\ MixOut(r) = MixOut(e)
  BY <1>2, <1>3, AllBeside DEF Level, Beside, MixOut
<1>5. Staged(a.state) => Staged(r.state)
  BY <1>2, <1>3, Stages
<1>6. ASSUME Staged(a.state), Awake(a) PROVE Awake(r)
  <2>1. CASE ~WakesOutput(a.out[o])
    <3>1. \A q \in DOMAIN a.out :
            /\ r.out[q].queue # <<>> => a.out[q].queue # <<>>
            /\ r.out[q].flags = a.out[q].flags
      BY <1>1, <1>4, <2>1 DEF OneOutput, WakesOutput
    <3>2. Near(a, r, MixOut(a)) /\ MixOut(a) \notin DOMAIN a.in
      BY <1>4, AllNear, MixerPorts
    <3>3. /\ "EXECUTION" \in r.state <=> "EXECUTION" \in a.state
          /\ "RUNTIME_INIT" \in r.state <=> "RUNTIME_INIT" \in a.state
          /\ "SCHEDULE" \in a.state => "SCHEDULE" \in r.state
      BY <1>2, <1>3
    <3> QED
      BY <1>6, <3>1, <3>2, <3>3, CouldBefore
  <2>2. CASE ~MixReady(e) \/ ~Has(a, "EXECUTION")
    <3>1. ~MixReady(r) \/ ~Has(r, "EXECUTION")
      BY <1>2, <1>3, <1>4, <2>2 DEF MixReady, Has
    <3> QED
      BY <3>1 DEF Awake, Could
  <2>3. CASE x
    BY <1>2, <1>3, <1>6, <2>3 DEF Awake, Has, Staged
  <2> QED
    BY <2>1, <2>2, <2>3
<1>7. Comes(a, r, TRUE, FALSE)
  BY <1>4, <1>5, <1>6, ComesBeside
<1>8. Comes(a, ResponseOk(a, m), TRUE, FALSE)
  BY <1>0, Answering, Unmoved
<1> QED
  BY <1>7, <1>8 DEF MixerFillProbe, r, e

-----------------------------------------------------------------------------
(* What purges and closes all the tracks                                   *)

\* The flags of the classes tell what a track is.
LEMMA CustomStates ==
    ASSUME NEW p, NEW q, Custom(q) = Custom(p)
    PROVE  /\ OneState(q) <=> OneState(p)
           /\ \A f : f \notin BaseInputFlags => (f \in q.flags <=> f \in p.flags)
<1>1. \A f : f \notin BaseInputFlags => (f \in q.flags <=> f \in p.flags)
  BY DEF Custom
<1>2. q.flags \cap {"IDLE", "ACTIVE", "PAUSED"} = p.flags \cap {"IDLE", "ACTIVE", "PAUSED"}
  BY <1>1 DEF BaseInputFlags
<1> QED
  BY <1>1, <1>2 DEF OneState

\* what purging leaves of all the inputs
Cleared(a, d) ==
    /\ Made(d) /\ Alike(a, d) /\ d.out = a.out /\ DOMAIN d.in = DOMAIN a.in
    /\ \A i \in DOMAIN a.in :
        /\ Stays(a.in[i], d.in[i])
        /\ Port(a.in[i]) /\ "PURGING" \notin a.in[i].flags =>
            Port(d.in[i]) /\ "PURGING" \notin d.in[i].flags

\* and closing them
Closed(a, d) == Made(d) /\ Alike(a, d) /\ d.out = a.out

Clear == INSTANCE FoldLemmas WITH Op <- LAMBDA arg, e, i : InputPurge(e, i), Good <- Cleared
Close == INSTANCE FoldLemmas WITH Op <- LAMBDA arg, e, i : InputDestroy(e, i), Good <- Closed

\* The inputs are purged, or closed, one after the other.
LEMMA Clearing ==
    ASSUME NEW a, Made(a)
    PROVE  /\ Cleared(a, PurgeTracks(a))
           /\ Closed(a, FoldLeft(InputDestroy, a, Inputs(a)))
<1>1. /\ Clear!Fold(0, a, Inputs(a)) = PurgeTracks(a)
      /\ Close!Fold(0, a, Inputs(a)) = FoldLeft(InputDestroy, a, Inputs(a))
  BY DEF PurgeTracks, FoldLeft, MapThenFoldSet, Max, Clear!Fold, Clear!FoldLeft, Clear!MapThenFoldSet,
         Clear!Max, Close!Fold, Close!FoldLeft, Close!MapThenFoldSet, Close!Max
<1>2. a.ni \in Nat /\ DOMAIN Inputs(a) = 1 .. a.ni
  BY DEF Made, Inputs
<1>3. Cleared(a, a) /\ Closed(a, a)
  BY DEF Cleared, Closed, Alike, Stays
<1>4. ASSUME NEW d, NEW k \in 1 .. a.ni, Cleared(a, d)
      PROVE  Cleared(a, InputPurge(d, Inputs(a)[k]))
  <2> DEFINE i == Inputs(a)[k]
             e == InputPurge(d, i)
             p == d.in[i]
             q == e.in[i]
  <2>1. /\ OneInput(d, e, i)
        /\ i \in DOMAIN d.in =>
            /\ Stays(p, q)
            /\ "CREATED" \in p.flags => {"PURGING", "EOS"} \cap q.flags = {}
            /\ Port(p) => Port(q)
    BY <1>4, Purging DEF Cleared
  <2>2. i \in DOMAIN d.in => Stays(p, q) /\ (Port(p) => Port(q) /\ "PURGING" \notin q.flags)
    BY <2>1 DEF Port
  <2> HIDE DEF e, i
  <2>3. \A j \in DOMAIN a.in : e.in[j] = d.in[j] \/ (j = i /\ j \in DOMAIN d.in)
    BY <1>4, <2>1 DEF OneInput, Cleared
  <2>4. \A j \in DOMAIN a.in :
          /\ Stays(d.in[j], e.in[j])
          /\ Port(d.in[j]) /\ "PURGING" \notin d.in[j].flags => Port(e.in[j]) /\ "PURGING" \notin e.in[j].flags
    BY <2>2, <2>3 DEF Stays
  <2> QED
    BY <1>4, <2>1, <2>4 DEF Cleared, OneInput, Alike, Stays, e, i
<1>5. ASSUME NEW d, NEW k \in 1 .. a.ni, Closed(a, d)
      PROVE  Closed(a, InputDestroy(d, Inputs(a)[k]))
  <2>1. OneInput(d, InputDestroy(d, Inputs(a)[k]), Inputs(a)[k])
    BY <1>5, Flagging DEF InputDestroy, Closed
  <2> QED
    BY <1>5, <2>1 DEF Closed, OneInput, Alike
<1> HIDE DEF Cleared, Closed
<1>6. Cleared(a, Clear!Fold(0, a, Inputs(a)))
  BY <1>2, <1>3, <1>4, Clear!Folded
<1>7. Closed(a, Close!Fold(0, a, Inputs(a)))
  BY <1>2, <1>3, <1>5, Close!Folded
<1> QED
  BY <1>1, <1>6, <1>7

\* A mixer whose tracks are purged.
LEMMA MixerClears ==
    ASSUME NEW a, Mix(a)
    PROVE  LET d == PurgeTracks(a)
           IN  /\ Mix(d) /\ Alike(a, d) /\ d.out = a.out /\ Tracks(a, d)
               /\ Mixing(a) => Mixing(d)
<1> DEFINE d == PurgeTracks(a)
<1>1. Cleared(a, d)
  BY Clearing DEF Mix
<1> HIDE DEF d
<1>2. \A i \in DOMAIN a.in : OneState(a.in[i]) => OneState(d.in[i])
  BY <1>1, CustomStates DEF Cleared, Stays
<1>3. Mix(d)
  BY <1>1 DEF Mix, Cleared, Alike, Stays
<1> QED
  BY <1>1, <1>2, <1>3 DEF Cleared, Alike, Tracks, Mixing, d

-----------------------------------------------------------------------------
(* The other messages of a mixer                                           *)

\* What keeps a mixer from processing.
LEMMA Asleep ==
    ASSUME NEW d,
           \/ d.out[MixOut(d)].queue = <<>> \/ Unrouting(d.out[MixOut(d)]) \/ Flushing(d.out[MixOut(d)])
           \/ MixPaused(d) \/ ~Has(d, "EXECUTION") \/ ProbeWaits(d)
    PROVE  Awake(d)
  BY DEF Awake, Could, MixReady, OutputReady

\* An output that may not be used puts a mixer to sleep.
LEMMA OutputTaken ==
    ASSUME NEW a, Mix(a), NEW d, Beside(a, d), NEW given, NEW because,
           Staged(a.state) => Staged(d.state),
           \/ d.out[MixOut(a)].queue = <<>> \/ Unrouting(d.out[MixOut(a)])
           \/ Flushing(d.out[MixOut(a)]) \/ "PAUSED" \in d.out[MixOut(a)].flags
    PROVE  Comes(a, d, given, because)
<1>1. MixOut(d) = MixOut(a)
  BY MixerPorts
<1>2. Awake(d)
  BY <1>1, Asleep DEF MixPaused
<1> QED
  BY <1>2, ComesBeside

\* A mixer that schedules its processing comes of what it was.
LEMMA ComesAwake ==
    ASSUME NEW a, Mix(a), NEW d, Mix(d), NEW given, NEW because,
           d.entry = a.entry, Tracks(a, d), Mixing(a) /\ given => Mixing(d)
    PROVE  /\ Comes(a, MixSchedule(d), given, because)
           /\ \A m : Comes(a, Response(MixSchedule(d), m), given, because)
           /\ \A m : Comes(a, ResponseOk(MixSchedule(d), m), given, because)
<1> DEFINE e == MixSchedule(d)
<1>1. Level(d, e) /\ e.state \ {"SCHEDULE"} = d.state \ {"SCHEDULE"}
      /\ ("COMP_FATAL_ERROR" \notin d.state => Awake(e))
  BY Waking
<1> HIDE DEF e
<1>2. Staged(d.state) => Staged(e.state)
  BY <1>1, Stages
<1>3. /\ Mix(e) /\ e.entry = a.entry /\ e.in = d.in
      /\ Mixing(d) => Mixing(e)
  BY <1>1, <1>2, ComingBeside DEF Level, Beside
<1>4. Tracks(a, e)
  BY <1>3 DEF Tracks
<1>5. Mixing(a) /\ given => Mixing(e) /\ Awake(e)
  BY <1>1, <1>3 DEF Mixing, Staged
<1>6. ASSUME NEW f, Aside(e, f) \/ f = e PROVE Comes(a, f, given, because)
  <2>1. Comes(e, f, given, because) \/ f = e
    BY <1>3, <1>6, Unmoved
  <2>2. f.in = e.in
    BY <1>6 DEF Aside
  <2> QED
    BY <1>3, <1>4, <1>5, <2>1, <2>2 DEF Comes, Tracks
<1>7. \A m : Aside(e, Response(e, m)) /\ Aside(e, ResponseOk(e, m))
  BY <1>3, Answering DEF Mix
<1> QED
  BY <1>6, <1>7 DEF e

\* The control message of the mixer's route comes back while it executes, from
\* a sink that is there and when no unrouting waits for it (xa-class-mixer.c:381).
Returns(a, m) ==
    /\ ControlMsg(a, MixOut(a), m) /\ m.len # LengthInvalid
    /\ ~Unrouting(a.out[MixOut(a)]) /\ Has(a, "EXECUTION")

\* It ends a flush, and takes the route down if that was to be.
LEMMA MixerFlushReturns ==
    ASSUME NEW a, Mix(a), NEW m, ControlMsg(a, MixOut(a), m)
    PROVE  Comes(a, MixerFlushReturned(a, m), TRUE, Returns(a, m))
<1> DEFINE o == MixOut(a)
           d == OutputFlushDone(a, o)
           e == CASE Unrouting(d.out[o]) -> OutputUnrouteDone(d, o)
                  [] ~Unrouting(d.out[o]) /\ m.len = LengthInvalid -> OutputUnroute(d, o)
                  [] OTHER -> d
           r == PurgeTracks(e)
<1>0. Made(a) /\ o \in DOMAIN a.out
  BY MixerPorts
<1>1. /\ OneOutput(a, d, o)
      /\ d.out[o].flags = Toggle(a.out[o].flags, {"IDLE", "FLUSHING"})
  BY <1>0, FlushingOut
<1>2. MixerFlushReturned(a, m) = r
  BY DEF MixerFlushReturned
<1> HIDE DEF d
<1>3. /\ OneOutput(a, d, o) /\ Made(d) /\ o \in DOMAIN d.out
      /\ Unrouting(d.out[o]) <=> Unrouting(a.out[o])
  BY <1>0, <1>1 DEF OneOutput, Unrouting, Toggle
<1>4. /\ OneOutput(d, OutputUnrouteDone(d, o), o) /\ OutputUnrouteDone(d, o).out[o].queue = <<>>
      /\ OneOutput(d, OutputUnroute(d, o), o) /\ OutputUnroute(d, o).out[o].queue = <<>>
  BY <1>3, TakingDown
<1>5. /\ OneOutput(a, e, o)
      /\ Unrouting(a.out[o]) \/ m.len = LengthInvalid => e.out[o].queue = <<>>
  <2>1. \/ e = OutputUnrouteDone(d, o)
        \/ e = OutputUnroute(d, o)
        \/ e = d /\ ~(Unrouting(d.out[o]) \/ m.len = LengthInvalid)
    OBVIOUS
  <2> HIDE DEF e
  <2>2. OneOutput(a, OutputUnrouteDone(d, o), o) /\ OneOutput(a, OutputUnroute(d, o), o)
    BY <1>3, <1>4, AtOne
  <2> QED
    BY <1>3, <1>4, <2>1, <2>2
<1> HIDE DEF e
<1>6. Beside(a, e) /\ e.state = a.state
  BY <1>5 DEF OneOutput, Alike, Beside
<1>7. Mix(e) /\ e.entry = a.entry /\ Tracks(a, e) /\ (Mixing(a) => Mixing(e)) /\ e.in = a.in
  BY <1>6, ComingBeside DEF Beside
<1>8. /\ Mix(r) /\ Alike(e, r) /\ r.out = e.out /\ Tracks(e, r)
      /\ Mixing(e) => Mixing(r)
  BY <1>7, MixerClears
<1> HIDE DEF r
<1>9. MixOut(r) = o /\ r.state = a.state /\ r.entry = a.entry /\ Tracks(a, r)
  BY <1>6, <1>7, <1>8 DEF Alike, MixOut, Beside, Tracks
<1>10. Awake(r) \/ Returns(a, m)
  BY <1>5, <1>8, <1>9, Asleep DEF Returns, Has
<1> QED
  BY <1>2, <1>7, <1>8, <1>9, <1>10 DEF Comes

\* A buffer that a lost sink did not want: the others are asked for.
LEMMA MixerLosesSink ==
    ASSUME NEW a, Mix(a), Routed(a.out[MixOut(a)])
    PROVE  Comes(a, MixerSinkLost(a), TRUE, FALSE)
<1> DEFINE o == MixOut(a)
           d == Cancel(a)
           e == OutputFlush(d, o, "FILL")
           r == [e EXCEPT !.state = @ \ {"OUTPUT_SETUP"}]
<1>0. Made(a) /\ o \in DOMAIN a.out
  BY MixerPorts
<1>1. CASE Flushing(a.out[o])
  <2>1. Comes(a, a, TRUE, FALSE)
    BY <1>0, Unmoved DEF Aside, Alike
  <2> QED
    BY <1>1, <2>1 DEF MixerSinkLost
<1>2. CASE ~Flushing(a.out[o])
  <2>1. Level(a, d) /\ d.state = a.state \ {"SCHEDULE"}
    BY <1>0, States
  <2> HIDE DEF d
  <2>2. Made(d) /\ o \in DOMAIN d.out /\ d.out[o] = a.out[o]
    BY <1>0, <2>1 DEF Level, Beside
  <2>3. OneOutput(d, e, o) /\ Flushing(e.out[o])
    BY <1>2, <2>2, FlushingOut DEF FlushedAtOnce, Flushing
  <2> HIDE DEF e
  <2>4. Level(e, r) /\ r.state = e.state \ {"OUTPUT_SETUP"}
    BY <2>3, States DEF OneOutput
  <2>5. MixerSinkLost(a) = r
    BY <1>2 DEF MixerSinkLost, e, d
  <2> HIDE DEF r
  <2>6. Beside(a, r) /\ Flushing(r.out[o]) /\ r.state = a.state \ {"SCHEDULE", "OUTPUT_SETUP"}
    BY <2>1, <2>3, <2>4, AllBeside DEF Level, OneOutput, Alike
  <2>7. Staged(a.state) => Staged(r.state)
    BY <2>6, Stages
  <2> QED
    BY <2>5, <2>6, <2>7, OutputTaken
<1> QED
  BY <1>1, <1>2

\* A buffer to fill, or one of a route that comes back.
LEMMA MixerFills ==
    ASSUME NEW a, Mix(a), NEW m
    PROVE  Comes(a, MixerFill(a, m), TRUE, Returns(a, m))
<1> DEFINE o == MixOut(a)
<1>0. Made(a) /\ o \in DOMAIN a.out
  BY MixerPorts
<1>1. Comes(a, Fail(a, "error"), TRUE, FALSE) /\ Comes(a, ResponseOk(a, m), TRUE, FALSE)
  BY <1>0, States, Answering, Unmoved
<1>2. /\ m.port = ProbePort(a) => Comes(a, MixerFillProbe(a, m), TRUE, FALSE)
      /\ \A n : Comes(a, MixerFillOutput(a, n), TRUE, FALSE)
      /\ Routed(a.out[o]) => Comes(a, MixerSinkLost(a), TRUE, FALSE)
      /\ ControlMsg(a, o, m) => Comes(a, MixerFlushReturned(a, m), TRUE, Returns(a, m))
  BY MixerFillsProbe, MixerFillsOutput, MixerLosesSink, MixerFlushReturns
<1>3. \A d : Comes(a, d, TRUE, FALSE) => Comes(a, d, TRUE, Returns(a, m))
  BY DEF Comes
<1>4. \/ MixerFill(a, m) = Fail(a, "error") \/ MixerFill(a, m) = ResponseOk(a, m)
      \/ MixerFill(a, m) = MixerFillProbe(a, m) /\ m.port = ProbePort(a)
      \/ MixerFill(a, m) = MixerFillOutput(a, m)
      \/ MixerFill(a, m) = MixerFillOutput(a, [m EXCEPT !.len = 1])
      \/ MixerFill(a, m) = MixerSinkLost(a) /\ Routed(a.out[o])
      \/ MixerFill(a, m) = MixerFlushReturned(a, m) /\ ControlMsg(a, o, m)
  BY DEF MixerFill
<1> QED
  BY <1>1, <1>2, <1>3, <1>4

\* A route is made, or taken down.
LEMMA MixerRoutes ==
    ASSUME NEW a, Mix(a), NEW m
    PROVE  /\ \A o : Comes(a, MixerRoute(a, m, o), TRUE, FALSE)
           /\ Comes(a, MixerUnroute(a, m), TRUE, FALSE)
<1> DEFINE p == MixOut(a)
<1>0. Made(a) /\ p \in DOMAIN a.out
  BY MixerPorts
<1>1. Comes(a, Fail(a, "error"), TRUE, FALSE) /\ Comes(a, ResponseOk(a, m), TRUE, FALSE)
  BY <1>0, States, Answering, Unmoved
<1>2. ASSUME NEW o PROVE Comes(a, MixerRoute(a, m, o), TRUE, FALSE)
  <2> DEFINE d == OutputRoute(a, p, o.buffers, o.sized, o.memory)
             e == Fail(d, "error")
  <2>1. OneOutput(a, d, p) /\ (o.sized /\ ~o.memory => d.out[p].queue = <<>>)
    BY <1>0, Routing
  <2>2. \/ MixerRoute(a, m, o) = Fail(a, "error")
        \/ MixerRoute(a, m, o) = e /\ o.sized /\ ~o.memory
        \/ MixerRoute(a, m, o) = ResponseOk(MixSchedule(d), m)
    BY DEF MixerRoute
  <2> HIDE DEF d
  <2>3. Beside(a, d) /\ d.state = a.state
    BY <2>1 DEF OneOutput, Alike, Beside
  <2>4. Mix(d) /\ d.entry = a.entry /\ Tracks(a, d) /\ (Mixing(a) => Mixing(d))
    BY <2>3, ComingBeside
  <2>5. Comes(a, ResponseOk(MixSchedule(d), m), TRUE, FALSE)
    BY <2>4, ComesAwake
  <2>6. o.sized /\ ~o.memory => Comes(a, e, TRUE, FALSE)
    <3>1. Level(d, e) /\ e.state = d.state
      BY <2>1, States DEF OneOutput
    <3> HIDE DEF e
    <3>2. Beside(a, e) /\ e.out = d.out /\ e.state = a.state
      BY <2>3, <3>1, AllBeside DEF Level
    <3> QED
      BY <2>1, <3>2, OutputTaken
  <2> QED
    BY <1>1, <2>2, <2>5, <2>6
<1>3. Comes(a, MixerUnroute(a, m), TRUE, FALSE)
  <2> DEFINE b == Cancel(a)
             d == [b EXCEPT !.state = @ \ {"OUTPUT_SETUP"}]
             e == OutputFlush(d, p, "FLUSH")
             f == OutputUnroute(e, p)
             g == ResponseOk(f, m)
             h == OutputUnrouteStart(e, p, m)
  <2>1. \/ MixerUnroute(a, m) = Fail(a, "error") \/ MixerUnroute(a, m) = ResponseOk(a, m)
        \/ MixerUnroute(a, m) = g \/ MixerUnroute(a, m) = h
    BY DEF MixerUnroute
  <2>2. Level(a, b) /\ b.state = a.state \ {"SCHEDULE"}
    BY <1>0, States
  <2> HIDE DEF b
  <2>3. Level(b, d) /\ d.state = b.state \ {"OUTPUT_SETUP"}
    <3>1. Made(b)
      BY <2>2 DEF Level, Beside
    <3> QED
      BY <3>1, States
  <2> HIDE DEF d
  <2>4. Beside(a, d) /\ Made(d) /\ p \in DOMAIN d.out /\ d.state = a.state \ {"SCHEDULE", "OUTPUT_SETUP"}
    BY <1>0, <2>2, <2>3, AllBeside DEF Level, Beside
  <2>5. OneOutput(d, e, p)
    BY <2>4, FlushingOut
  <2> HIDE DEF e
  <2>6. Beside(a, e) /\ Made(e) /\ p \in DOMAIN e.out /\ e.state = d.state
    BY <2>4, <2>5, AllBeside DEF OneOutput, Alike
  <2>7. OneOutput(e, f, p) /\ f.out[p].queue = <<>> /\ OneOutput(e, h, p) /\ Unrouting(h.out[p])
    BY <2>6, TakingDown
  <2> HIDE DEF f, h
  <2>8. Aside(f, g)
    BY <2>7, Answering DEF OneOutput
  <2> HIDE DEF g
  <2>12. Beside(a, f) /\ f.state = d.state /\ Beside(a, h) /\ h.state = d.state
    BY <2>6, <2>7, AllBeside DEF OneOutput, Alike
  <2>9. Beside(a, g) /\ g.out[p].queue = <<>> /\ g.state = d.state
    BY <2>7, <2>8, <2>12, AllBeside DEF Aside, Alike
  <2>10. Staged(a.state) => Staged(d.state)
    BY <2>4, Stages
  <2>11. Comes(a, g, TRUE, FALSE) /\ Comes(a, h, TRUE, FALSE)
    BY <2>7, <2>9, <2>10, <2>12, OutputTaken
  <2> QED
    BY <1>1, <2>1, <2>11
<1> QED
  BY <1>2, <1>3

\* The flags of an output come and go.
LEMMA OutFlagging ==
    ASSUME NEW d, Made(d), NEW o \in DOMAIN d.out, NEW s
    PROVE  LET e == [d EXCEPT !.out[o].flags = s]
           IN  OneOutput(d, e, o) /\ e.out[o].flags = s /\ e.out[o].queue = d.out[o].queue
<1> DEFINE x == [d.out[o] EXCEPT !.flags = s]
<1>1. OutFields \subseteq DOMAIN x /\ x.flags = s /\ x.queue = d.out[o].queue
  BY DEF Made, OutFields
<1>2. [d EXCEPT !.out[o].flags = s] = [d EXCEPT !.out[o] = x]
  OBVIOUS
<1> HIDE DEF x
<1> QED
  BY <1>1, <1>2, AtPort

\* A track of a mixer becomes another of the three.
LEMMA MixerSwitches ==
    ASSUME NEW a, Mix(a), NEW i, NEW s,
           i \in DOMAIN a.in =>
             /\ s \cap BaseInputFlags = a.in[i].flags \cap BaseInputFlags
             /\ OneState(a.in[i]) => OneState([flags |-> s])
    PROVE  LET d == [a EXCEPT !.in[i].flags = s]
           IN  /\ Mix(d) /\ d.entry = a.entry /\ Tracks(a, d) /\ (Mixing(a) => Mixing(d))
               /\ OneInput(a, d, i)
<1> DEFINE d == [a EXCEPT !.in[i].flags = s]
<1>1. /\ OneInput(a, d, i)
      /\ i \in DOMAIN a.in =>
          /\ d.in[i].flags = s /\ d.in[i].queue = a.in[i].queue
          /\ Port(a.in[i]) => Port(d.in[i])
  <2>1. Made(a)
    BY DEF Mix
  <2> QED
    BY <2>1, Flagging
<1> HIDE DEF d
<1>2. i \in DOMAIN a.in => /\ IsSeq(d.in[i].queue)
                           /\ OneState(a.in[i]) => OneState(d.in[i])
                           /\ "PURGING" \in d.in[i].flags <=> "PURGING" \in a.in[i].flags
  BY <1>1 DEF Mix, OneState, BaseInputFlags
<1>3. Near(a, d, i) /\ (Staged(a.state) => Staged(d.state))
  BY <1>1, AllNear DEF OneInput, Alike
<1>4. i \in DOMAIN a.in =>
        /\ IsSeq(d.in[i].queue)
        /\ OneState(a.in[i]) /\ ~EndsPaused(a.in[i]) => OneState(d.in[i])
        /\ Mixing(a) => Port(d.in[i]) /\ "PURGING" \notin d.in[i].flags
  BY <1>1, <1>2 DEF Mixing
<1>5. Mix(d) /\ d.entry = a.entry /\ Tracks(a, d) /\ (Mixing(a) => Mixing(d))
  BY <1>3, <1>4, Coming
<1> QED
  BY <1>1, <1>5 DEF d

\* A track or the output is paused: those that wait for the track are told.
LEMMA MixerPauses ==
    ASSUME NEW a, Mix(a), NEW m
    PROVE  Comes(a, MixerPause(a, m), TRUE, FALSE)
<1> DEFINE i == m.port
           o == MixOut(a)
           s == Toggle(a.in[i].flags, {"ACTIVE", "PAUSED"})
           d == [a EXCEPT !.in[i].flags = s]
           e == [a EXCEPT !.out[i].flags = a.out[i].flags \cup {"PAUSED"}]
           f == StopProbe(a)
<1>0. Made(a) /\ o \in DOMAIN a.out /\ ProbePort(a) \in DOMAIN a.out
  BY MixerPorts
<1>1. Comes(a, ResponseOk(a, m), TRUE, FALSE) /\ Comes(a, Response(a, m), TRUE, FALSE)
  BY <1>0, Answering, Unmoved
<1>2. \/ MixerPause(a, m) = ResponseOk(a, m) \/ MixerPause(a, m) = Response(a, m)
      \/ /\ MixerPause(a, m) = Response(MixSchedule(d), m)
         /\ "ACTIVE" \in a.in[i].flags
      \/ MixerPause(a, m) = Response(e, m) /\ i = o
      \/ MixerPause(a, m) = Response(MixSchedule(f), m)
  BY DEF MixerPause
<1>3. "ACTIVE" \in a.in[i].flags => Comes(a, Response(MixSchedule(d), m), TRUE, FALSE)
  <2> SUFFICES ASSUME "ACTIVE" \in a.in[i].flags
               PROVE  Comes(a, Response(MixSchedule(d), m), TRUE, FALSE)
    OBVIOUS
  <2>1. s \cap BaseInputFlags = a.in[i].flags \cap BaseInputFlags
    BY DEF Toggle, BaseInputFlags
  <2>2. OneState(a.in[i]) => OneState([flags |-> s])
    <3>1. /\ "IDLE" \in s <=> "IDLE" \in a.in[i].flags
          /\ "ACTIVE" \notin s
          /\ "PAUSED" \in s <=> "PAUSED" \notin a.in[i].flags
      BY DEF Toggle
    <3> HIDE DEF s
    <3> QED
      BY <3>1, OneOfThree
  <2> HIDE DEF s
  <2>3. Mix(d) /\ d.entry = a.entry /\ Tracks(a, d) /\ (Mixing(a) => Mixing(d))
    BY <2>1, <2>2, MixerSwitches
  <2> HIDE DEF d
  <2> QED
    BY <2>3, ComesAwake
<1>4. i = o => Comes(a, Response(e, m), TRUE, FALSE)
  <2> SUFFICES ASSUME i = o PROVE Comes(a, Response(e, m), TRUE, FALSE)
    OBVIOUS
  <2>1. OneOutput(a, e, o) /\ e.out[o].flags = a.out[o].flags \cup {"PAUSED"}
    <3> DEFINE t == a.out[o].flags \cup {"PAUSED"}
    <3>1. e = [a EXCEPT !.out[o].flags = t]
      OBVIOUS
    <3> HIDE DEF e, t
    <3>2. OneOutput(a, e, o) /\ e.out[o].flags = t
      BY <1>0, <3>1, OutFlagging
    <3> QED
      BY <3>2 DEF t
  <2> HIDE DEF e
  <2>2. Aside(e, Response(e, m))
    BY <2>1, Answering DEF OneOutput
  <2>3. /\ Beside(a, Response(e, m)) /\ Response(e, m).state = a.state
        /\ "PAUSED" \in Response(e, m).out[o].flags
    BY <2>1, <2>2 DEF OneOutput, Aside, Alike, Beside
  <2> QED
    BY <2>3, OutputTaken
<1>5. Comes(a, Response(MixSchedule(f), m), TRUE, FALSE)
  <2> DEFINE p == ProbePort(a)
             b == OutputFlush(a, p, "FLUSH")
  <2>1. OneOutput(a, b, p)
    BY <1>0, FlushingOut
  <2>2. f = [b EXCEPT !.out[p].flags = b.out[p].flags \cup {"PROBE_PAUSED"}]
    BY DEF StopProbe
  <2> HIDE DEF b, f
  <2>3. Made(b) /\ p \in DOMAIN b.out
    BY <1>0, <2>1 DEF OneOutput
  <2>4. OneOutput(b, f, p)
    BY <2>2, <2>3, OutFlagging
  <2>5. Beside(a, f) /\ f.state = a.state
    BY <2>1, <2>4 DEF OneOutput, Alike, Beside
  <2>6. Mix(f) /\ f.entry = a.entry /\ Tracks(a, f) /\ (Mixing(a) => Mixing(f))
    BY <2>5, ComingBeside
  <2> QED
    BY <2>6, ComesAwake
<1> HIDE DEF d, e, f
<1> QED
  BY <1>1, <1>2, <1>3, <1>4, <1>5

\* And goes on.
LEMMA MixerResumes ==
    ASSUME NEW a, Mix(a), NEW m
    PROVE  Comes(a, MixerResume(a, m), TRUE, FALSE)
<1> DEFINE i == m.port
           o == MixOut(a)
           s == Toggle(a.in[i].flags, {"ACTIVE", "PAUSED"})
           d == [a EXCEPT !.in[i].flags = s]
           e == [a EXCEPT !.out[i].flags = a.out[i].flags \ {"PAUSED"}]
           f == StartProbe(a)
           x == MixReady(a) /\ OutputReady(a.out[i])
           g == ScheduleIf(f, x)
<1>0. Made(a) /\ o \in DOMAIN a.out /\ ProbePort(a) \in DOMAIN a.out /\ o # ProbePort(a)
  BY MixerPorts
<1>1. Comes(a, ResponseOk(a, m), TRUE, FALSE) /\ Comes(a, Response(a, m), TRUE, FALSE)
  BY <1>0, Answering, Unmoved
<1>2. \/ MixerResume(a, m) = ResponseOk(a, m) \/ MixerResume(a, m) = Response(a, m)
      \/ /\ MixerResume(a, m) = Response(MixSchedule(d), m)
         /\ "PAUSED" \in a.in[i].flags
      \/ MixerResume(a, m) = Response(MixSchedule(e), m) /\ i = o
      \/ MixerResume(a, m) = Response(g, m) /\ i = ProbePort(a) /\ a.probe
  BY DEF MixerResume
<1>3. "PAUSED" \in a.in[i].flags => Comes(a, Response(MixSchedule(d), m), TRUE, FALSE)
  <2> SUFFICES ASSUME "PAUSED" \in a.in[i].flags
               PROVE  Comes(a, Response(MixSchedule(d), m), TRUE, FALSE)
    OBVIOUS
  <2>1. s \cap BaseInputFlags = a.in[i].flags \cap BaseInputFlags
    BY DEF Toggle, BaseInputFlags
  <2>2. OneState(a.in[i]) => OneState([flags |-> s])
    <3>1. /\ "IDLE" \in s <=> "IDLE" \in a.in[i].flags
          /\ "PAUSED" \notin s
          /\ "ACTIVE" \in s <=> "ACTIVE" \notin a.in[i].flags
      BY DEF Toggle
    <3> HIDE DEF s
    <3> QED
      BY <3>1, OneOfThree
  <2> HIDE DEF s
  <2>3. Mix(d) /\ d.entry = a.entry /\ Tracks(a, d) /\ (Mixing(a) => Mixing(d))
    BY <2>1, <2>2, MixerSwitches
  <2> HIDE DEF d
  <2> QED
    BY <2>3, ComesAwake
<1>4. i = o => Comes(a, Response(MixSchedule(e), m), TRUE, FALSE)
  <2> SUFFICES ASSUME i = o PROVE Comes(a, Response(MixSchedule(e), m), TRUE, FALSE)
    OBVIOUS
  <2>1. OneOutput(a, e, o)
    BY <1>0, OutFlagging
  <2> HIDE DEF e
  <2>2. Beside(a, e) /\ e.state = a.state
    BY <2>1 DEF OneOutput, Alike, Beside
  <2>3. Mix(e) /\ e.entry = a.entry /\ Tracks(a, e) /\ (Mixing(a) => Mixing(e))
    BY <2>2, ComingBeside
  <2> QED
    BY <2>3, ComesAwake
<1>5. i = ProbePort(a) /\ a.probe => Comes(a, Response(g, m), TRUE, FALSE)
  <2> SUFFICES ASSUME i = ProbePort(a), a.probe PROVE Comes(a, Response(g, m), TRUE, FALSE)
    OBVIOUS
  <2>1. OneOutput(a, f, i) /\ f.out[i].flags = a.out[i].flags \ {"PROBE_PAUSED"}
        /\ f.out[i].queue = a.out[i].queue
    <3>1. f = [a EXCEPT !.out[ProbePort(a)].flags = a.out[ProbePort(a)].flags \ {"PROBE_PAUSED"}]
      BY DEF StartProbe
    <3> HIDE DEF f
    <3> QED
      BY <1>0, <3>1, OutFlagging
  <2> HIDE DEF f
  <2>2. Beside(a, f) /\ f.state = a.state /\ Made(f)
    BY <2>1 DEF OneOutput, Alike, Beside
  <2>3. /\ Level(f, g)
        /\ g.state \ {"SCHEDULE"} = f.state \ {"SCHEDULE"}
        /\ x /\ "COMP_FATAL_ERROR" \notin f.state => "SCHEDULE" \in g.state
    BY <2>2, States
  <2> HIDE DEF g
  <2>4. Beside(a, g) /\ g.out = f.out /\ (Staged(a.state) => Staged(g.state))
    BY <2>2, <2>3, AllBeside, Stages DEF Level
  <2>5. MixOut(g) = o /\ ProbePort(g) = i /\ MixReady(g) = MixReady(a) /\ g.probe
    BY <1>0, <2>1, <2>4, MixerPorts DEF MixReady, OneOutput, Beside
  <2>6. OutputReady(g.out[i]) = OutputReady(a.out[i])
    BY <2>1, <2>4 DEF OutputReady, Unrouting, Flushing
  <2>7. Staged(a.state) => Awake(g)
    <3>1. Staged(a.state) /\ Has(g, "EXECUTION") => ~Has(g, "RUNTIME_INIT")
      BY <2>4 DEF Staged, Has
    <3>2. ~ProbePaused(g)
      BY <2>1, <2>4, <2>5 DEF ProbePaused
    <3>3. Staged(a.state) /\ Could(g) => x
      BY <2>5, <2>6, <3>1, <3>2 DEF Could, ProbeWaits, ProbeOn
    <3> HIDE DEF x
    <3> QED
      BY <2>2, <2>3, <3>3 DEF Awake, Has, Staged
  <2>8. Comes(a, g, TRUE, FALSE)
    BY <2>4, <2>7, ComesBeside
  <2>9. Comes(g, Response(g, m), TRUE, FALSE)
    BY <2>8, Answering, Unmoved DEF Comes, Mix
  <2>10. Response(g, m).in = g.in
    BY <2>8, Answering DEF Comes, Mix, Aside
  <2> QED
    BY <2>8, <2>9, <2>10 DEF Comes, Tracks
<1> HIDE DEF d, e, f, g
<1> QED
  BY <1>1, <1>2, <1>3, <1>4, <1>5

\* A track is flushed, and idle after it; or the flush of the output, which an
\* unrouting waited for, is answered.
LEMMA MixerFlushes ==
    ASSUME NEW a, Mix(a), NEW m
    PROVE  Comes(a, MixerFlush(a, m), TRUE, FALSE)
<1> DEFINE i == m.port
           o == MixOut(a)
           b == InputPurge(a, i)
           s == (b.in[i].flags \ {"ACTIVE", "PAUSED", "INPUT_SETUP", "RECVD_DATA"}) \cup {"IDLE"}
           d == [b EXCEPT !.in[i].flags = s]
           e == OutputUnrouteDone(a, o)
<1>0. Made(a) /\ o \in DOMAIN a.out
  BY MixerPorts
<1>1. Comes(a, Fail(a, "error"), TRUE, FALSE) /\ Comes(a, Response(a, m), TRUE, FALSE)
  BY <1>0, States, Answering, Unmoved
<1>2. \/ MixerFlush(a, m) = Fail(a, "error") \/ MixerFlush(a, m) = e
      \/ MixerFlush(a, m) = Response(MixSchedule(d), m) \/ MixerFlush(a, m) = Response(a, m)
  BY DEF MixerFlush
<1>3. Comes(a, e, TRUE, FALSE)
  <2>1. OneOutput(a, e, o) /\ e.out[o].queue = <<>>
    BY <1>0, TakingDown
  <2> HIDE DEF e
  <2>2. Beside(a, e) /\ e.state = a.state
    BY <2>1 DEF OneOutput, Alike, Beside
  <2> QED
    BY <2>1, <2>2, OutputTaken
<1>4. Comes(a, Response(MixSchedule(d), m), TRUE, FALSE)
  <2>1. /\ OneInput(a, b, i)
        /\ i \in DOMAIN a.in =>
            /\ Stays(a.in[i], b.in[i])
            /\ "CREATED" \in a.in[i].flags => {"PURGING", "EOS"} \cap b.in[i].flags = {}
            /\ Port(a.in[i]) => Port(b.in[i])
    BY <1>0, Purging
  <2> HIDE DEF b
  <2>2. i \in DOMAIN a.in =>
          /\ IsSeq(b.in[i].queue)
          /\ OneState(a.in[i]) /\ ~EndsPaused(a.in[i]) => OneState(b.in[i])
          /\ Mixing(a) => Port(b.in[i]) /\ "PURGING" \notin b.in[i].flags
    BY <2>1, CustomStates DEF Mix, Mixing, Stays, Port
  <2>3. Near(a, b, i) /\ (Staged(a.state) => Staged(b.state))
    BY <2>1, AllNear DEF OneInput, Alike
  <2>4. Mix(b) /\ b.entry = a.entry /\ Tracks(a, b) /\ (Mixing(a) => Mixing(b))
    BY <2>2, <2>3, Coming
  <2>5. s \cap BaseInputFlags = b.in[i].flags \cap BaseInputFlags
    BY DEF BaseInputFlags
  <2>6. OneState([flags |-> s])
    <3>1. "IDLE" \in s /\ "ACTIVE" \notin s /\ "PAUSED" \notin s
      OBVIOUS
    <3> HIDE DEF s
    <3> QED
      BY <3>1, OneOfThree
  <2>7. s \cap {"IDLE", "ACTIVE", "PAUSED"} = {"IDLE"}
    OBVIOUS
  <2> HIDE DEF s
  <2>8. /\ Mix(d) /\ d.entry = b.entry /\ Tracks(b, d) /\ (Mixing(b) => Mixing(d))
        /\ OneInput(b, d, i)
    BY <2>4, <2>5, <2>6, MixerSwitches
  <2>9. i \in DOMAIN a.in => OneState(d.in[i])
    <3>1. i \in DOMAIN a.in => d.in[i].flags = s
      <4>1. Made(b) /\ DOMAIN b.in = DOMAIN a.in
        BY <2>1 DEF OneInput
      <4> QED
        BY <4>1, Flagging
    <3> HIDE DEF d
    <3> QED
      BY <2>6, <3>1 DEF OneState
  <2> HIDE DEF d
  <2>10. Tracks(a, d)
    BY <2>1, <2>8, <2>9 DEF Tracks, OneInput
  <2> QED
    BY <2>4, <2>8, <2>10, ComesAwake
<1> HIDE DEF d, e
<1> QED
  BY <1>1, <1>2, <1>3, <1>4

\* The ports of the component are created, it is to be initialised.
LEMMA MixerSetsUp ==
    ASSUME NEW a, Mix(a), NEW m, NEW mem
    PROVE  Comes(a, SetParam(a, m, mem), TRUE, FALSE)
<1> DEFINE s == Toggle(a.state, {"POSTINIT", "RUNTIME_INIT"})
           d == [a EXCEPT !.state = s]
           e == ResponseOk(d, m)
<1>0. Made(a)
  BY MixerPorts
<1>1. Comes(a, Fail(a, "error"), TRUE, FALSE) /\ Comes(a, ResponseOk(a, m), TRUE, FALSE)
  BY <1>0, States, Answering, Unmoved
<1>2. \/ SetParam(a, m, mem) = Fail(a, "error") \/ SetParam(a, m, mem) = ResponseOk(a, m)
      \/ SetParam(a, m, mem) = e /\ "POSTINIT" \notin a.state
  BY DEF SetParam, Has
<1>3. Staged(a.state) /\ "POSTINIT" \notin a.state => Staged(s) /\ "EXECUTION" \notin s
  BY DEF Staged, Toggle
<1> HIDE DEF s
<1>4. Level(a, d) /\ d.state = s
  BY <1>0, States
<1> HIDE DEF d
<1>5. Aside(d, e)
  BY <1>4, Answering DEF Level, Beside
<1> HIDE DEF e
<1>6. Beside(a, e) /\ e.state = s
  BY <1>4, <1>5, AllBeside DEF Level, Aside, Alike
<1>7. "POSTINIT" \notin a.state => Comes(a, e, TRUE, FALSE)
  BY <1>3, <1>6, Asleep, ComesBeside DEF Has
<1> QED
  BY <1>1, <1>2, <1>7

\* A mixer that handles a message.
LEMMA MixerCommands ==
    ASSUME NEW a, Mix(a), NEW m, NEW o
    PROVE  Comes(a, Command(a, m, o), m.op = "EMPTY" => m \in Data, m.op = "FILL" /\ Returns(a, m))
<1> DEFINE given == m.op = "EMPTY" => m \in Data
           because == m.op = "FILL" /\ Returns(a, m)
<1>1. \A d : Comes(a, d, TRUE, FALSE) => Comes(a, d, given, because)
  BY DEF Comes
<1>2. /\ Comes(a, MixerEmpty(a, m), m \in Data, FALSE)
      /\ Comes(a, MixerFill(a, m), TRUE, Returns(a, m))
      /\ Comes(a, MixerFlush(a, m), TRUE, FALSE)
      /\ Comes(a, MixerRoute(a, m, o), TRUE, FALSE) /\ Comes(a, MixerUnroute(a, m), TRUE, FALSE)
      /\ Comes(a, MixerPause(a, m), TRUE, FALSE) /\ Comes(a, MixerResume(a, m), TRUE, FALSE)
      /\ Comes(a, SetParam(a, m, o.memory), TRUE, FALSE)
  BY MixerReceives, MixerFills, MixerFlushes, MixerRoutes, MixerPauses, MixerResumes, MixerSetsUp
<1>3. ASSUME NEW why PROVE Comes(a, Fail(a, why), TRUE, FALSE)
  <2>1. Level(a, Fail(a, why)) /\ Fail(a, why).state = a.state
    BY MixerPorts, States
  <2> QED
    BY <2>1, Unmoved
<1>4. m.op = "EMPTY" => Comes(a, MixerEmpty(a, m), given, because)
  BY <1>2 DEF Comes
<1>5. m.op = "FILL" => Comes(a, MixerFill(a, m), given, because)
  BY <1>2 DEF Comes
<1>6. a.class = "mixer"
  BY DEF Mix
<1>7. /\ EmptyThisBuffer(a, m) = MixerEmpty(a, m) /\ FillThisBuffer(a, m) = MixerFill(a, m)
      /\ Flush(a, m) = MixerFlush(a, m) /\ PortRoute(a, m, o) = MixerRoute(a, m, o)
      /\ PortUnroute(a, m) = MixerUnroute(a, m) /\ Pause(a, m) = MixerPause(a, m)
      /\ Resume(a, m) = MixerResume(a, m) /\ Unregister(a) = Fail(a, "unregister")
  BY <1>6 DEF EmptyThisBuffer, FillThisBuffer, Flush, PortRoute, PortUnroute, Pause, Resume, Unregister
<1>8. \/ m.op = "EMPTY" /\ Command(a, m, o) = MixerEmpty(a, m)
      \/ m.op = "FILL" /\ Command(a, m, o) = MixerFill(a, m)
      \/ Command(a, m, o) = MixerFlush(a, m) \/ Command(a, m, o) = MixerRoute(a, m, o)
      \/ Command(a, m, o) = MixerUnroute(a, m) \/ Command(a, m, o) = MixerPause(a, m)
      \/ Command(a, m, o) = MixerResume(a, m) \/ Command(a, m, o) = SetParam(a, m, o.memory)
      \/ Command(a, m, o) = Fail(a, "unregister") \/ Command(a, m, o) = Fail(a, "error")
  BY <1>7 DEF Command
<1> HIDE DEF given, because
<1> QED
  BY <1>1, <1>2, <1>3, <1>4, <1>5, <1>8 DEF given, because

-----------------------------------------------------------------------------
(* The end of a mixer                                                      *)

\* A mixer that is left is gone, or waits for its output to be flushed.
LEMMA MixerExits ==
    ASSUME NEW a, Mix(a), NEW m
    PROVE  LET d == Exit(a, m)
           IN  /\ "entry" \in DOMAIN d
               /\ d.entry = "gone" \/ (d.entry = "terminate" /\ Mix(d))
<1>1. ASSUME NEW b, Mix(b) PROVE MixerDestroy(b).entry = "gone" /\ "entry" \in DOMAIN MixerDestroy(b)
  <2> DEFINE i == FoldLeft(InputDestroy, b, Inputs(b))
             d == OutputDestroy(i, MixOut(b))
             e == IF b.probe THEN OutputDestroy(d, ProbePort(b)) ELSE d
             f == IF b.saved.op # "none" THEN ResponseErr(e, b.saved) ELSE e
             g == [f EXCEPT !.entry = "gone", !.saved = NoMsg]
  <2>0. MixOut(b) \in DOMAIN b.out /\ ProbePort(b) \in DOMAIN b.out /\ Made(b)
    BY <1>1, MixerPorts
  <2>1. Closed(b, i)
    BY <2>0, Clearing
  <2> HIDE DEF i
  <2>2. OneOutput(i, d, MixOut(b))
    BY <2>0, <2>1, TakingDown DEF Closed
  <2> HIDE DEF d
  <2>3. Made(d) /\ ProbePort(b) \in DOMAIN d.out
    BY <2>0, <2>1, <2>2 DEF Closed, OneOutput
  <2>4. OneOutput(d, OutputDestroy(d, ProbePort(b)), ProbePort(b))
    BY <2>3, TakingDown
  <2>5. Made(e)
    BY <2>3, <2>4 DEF OneOutput
  <2> HIDE DEF e
  <2>6. Made(f)
    BY <2>5, Answering DEF Aside
  <2> HIDE DEF f
  <2>7. "entry" \in DOMAIN f
    BY <2>6 DEF Made, Fields
  <2>8. g.entry = "gone" /\ "entry" \in DOMAIN g
    BY <2>7
  <2> QED
    BY <2>8 DEF MixerDestroy, g, f, e, d, i
<1>2. LET d == MixerCleanup(a, m)
      IN  "entry" \in DOMAIN d /\ (d.entry = "gone" \/ (d.entry = "terminate" /\ Mix(d)))
  <2> DEFINE x == Cancel(a)
             y == PurgeTracks(x)
             z == FlushProbe(y)
             d == [z EXCEPT !.saved = m]
             e == OutputFlush(d, MixOut(a), "FLUSH")
             g == [e EXCEPT !.entry = "terminate"]
  <2>1. MixerCleanup(a, m) = IF FlushedAtOnce(d.out[MixOut(a)], "FLUSH") THEN MixerDestroy(e) ELSE g
    BY DEF MixerCleanup
  <2>2. Level(a, x)
    BY MixerPorts, States
  <2>3. Mix(x)
    BY <2>2 DEF Mix, Level, Beside
  <2> HIDE DEF x
  <2>4. Mix(y) /\ Alike(x, y) /\ y.out = x.out
    BY <2>3, MixerClears
  <2> HIDE DEF y
  <2>5. Mix(z) /\ MixOut(z) = MixOut(a)
    <3>1. OneOutput(y, OutputFlush(y, ProbePort(y), "FLUSH"), ProbePort(y))
      BY <2>4, MixerPorts, FlushingOut
    <3>2. OneOutput(y, z, ProbePort(y)) \/ z = y
      BY <3>1 DEF FlushProbe
    <3> HIDE DEF z
    <3> QED
      BY <2>2, <2>4, <3>2 DEF OneOutput, Alike, Mix, MixOut, Level, Beside
  <2> HIDE DEF z
  <2>6. Mix(d) /\ MixOut(d) = MixOut(a)
    BY <2>5 DEF Mix, Made, Fields, MixOut
  <2> HIDE DEF d
  <2>7. OneOutput(d, e, MixOut(a))
    BY <2>6, MixerPorts, FlushingOut
  <2> HIDE DEF e
  <2>8. Mix(e)
    BY <2>6, <2>7 DEF Mix, OneOutput, Alike
  <2>9. "entry" \in DOMAIN g /\ g.entry = "terminate" /\ Mix(g)
    BY <2>8 DEF Mix, Made, Fields
  <2> QED
    BY <1>1, <2>1, <2>8, <2>9
<1>3. a.class = "mixer"
  BY DEF Mix
<1>4. Exit(a, m) = MixerDestroy(a) \/ Exit(a, m) = MixerCleanup(a, m)
  BY <1>3 DEF Exit, Destroy, Cleanup
<1> QED
  BY <1>1, <1>2, <1>4

\* While it ends, every message leaves it a mixer.
LEMMA MixerTerminates ==
    ASSUME NEW a, Mix(a), NEW m
    PROVE  LET d == MixerTerminate(a, m) IN Mix(d) /\ d.entry = a.entry
<1> DEFINE o == MixOut(a)
           e == OutputFlushDone(a, o)
           f == Fail(e, "unregister")
<1>0. Made(a) /\ o \in DOMAIN a.out
  BY MixerPorts
<1>1. OneOutput(a, e, o)
  BY <1>0, FlushingOut
<1> HIDE DEF e
<1>2. Level(e, f)
  BY <1>1, States DEF OneOutput
<1> HIDE DEF f
<1>3. Beside(a, f)
  BY <1>1, <1>2, AllBeside DEF OneOutput, Alike, Beside, Level
<1>4. Mix(f) /\ f.entry = a.entry
  BY <1>3 DEF Mix, Beside
<1>5. \A d : Aside(a, d) \/ d = a => Mix(d) /\ d.entry = a.entry
  BY DEF Aside, Alike, Mix
<1>6. Aside(a, ResponseErr(a, m)) /\ Aside(a, ResponseFailure(a, m))
  BY <1>0, Answering
<1>7. \/ MixerTerminate(a, m) = f \/ MixerTerminate(a, m) = a
      \/ MixerTerminate(a, m) = ResponseErr(a, m) \/ MixerTerminate(a, m) = ResponseFailure(a, m)
  BY DEF MixerTerminate, f, e
<1> QED
  BY <1>4, <1>5, <1>6, <1>7

\* What is done after a message was handled.
LEMMA MixerIsAnswered ==
    ASSUME NEW a, Mix(a), NEW m
    PROVE  LET d == Received(a, m)
           IN  /\ "entry" \in DOMAIN d
               /\ \/ Aside(a, d) \/ d.entry = "gone" \/ (d.entry = "terminate" /\ Mix(d))
<1> DEFINE e == IF a.ret = "error" THEN AnswerFailed(a, m) ELSE a
           d == Received(a, m)
<1>0. Made(a) /\ Aside(a, a)
  BY MixerPorts DEF Aside, Alike
<1>1. Aside(a, ResponseErr(a, m)) /\ Aside(a, ResponseFailure(a, m))
  BY <1>0, Answering
<1>2. AnswerFailed(a, m) \in {ResponseErr(a, m), ResponseFailure(a, m), a}
  BY DEF AnswerFailed
<1>3. Aside(a, e)
  BY <1>0, <1>1, <1>2
<1>4. d = IF Terminates(a, m) THEN Exit(e, Cause(a, m)) ELSE e
  BY DEF Received
<1> HIDE DEF d, e
<1>5. Mix(e) /\ "entry" \in DOMAIN e
  BY <1>3 DEF Mix, Aside, Alike, Made, Fields
<1> DEFINE x == Exit(e, Cause(a, m))
<1>6. "entry" \in DOMAIN x /\ (x.entry = "gone" \/ (x.entry = "terminate" /\ Mix(x)))
  BY <1>5, MixerExits
<1> HIDE DEF x
<1> QED
  BY <1>3, <1>4, <1>5, <1>6 DEF d, x

-----------------------------------------------------------------------------
(* A round of processing of a mixer: what its tracks offer                 *)

\* a track that is one of the three, and does not end while it is paused
Tame(p) == OneState(p) /\ ~EndsPaused(p)

\* and has nothing to offer
Starved(p) ==
    /\ p.queue = <<>> /\ ~Loaded(p) /\ "INPUT_SETUP" \notin p.flags
    /\ Bypass(p) /\ p.access => p.remaining = 0

\* d is a but for its inputs and what they offer
Around(a, d) ==
    /\ Made(d) /\ d.class = a.class /\ d.ni = a.ni /\ d.no = a.no /\ d.entry = a.entry
    /\ d.state = a.state /\ d.probe = a.probe /\ d.out = a.out /\ DOMAIN d.in = DOMAIN a.in

\* An active track is asked for data.
LEMMA MixerOffers ==
    ASSUME NEW d, Made(d), NEW i \in DOMAIN d.in, IsSeq(d.in[i].queue),
           "ACTIVE" \in d.in[i].flags, "INPUT_SETUP" \notin d.in[i].flags
    PROVE  LET e == MixerOffer(d, i)
               p == d.in[i]
               q == e.in[i]
           IN  /\ Around(d, e) /\ (e.ret = d.ret \/ e.ret = "no data")
               /\ \A j \in DOMAIN d.in \ {i} : e.in[j] = d.in[j] /\ e.avail[j] = d.avail[j]
               /\ IsSeq(q.queue) /\ "ACTIVE" \in q.flags /\ (OneState(p) => Tame(q))
               /\ Port(p) /\ "PURGING" \notin p.flags =>
                    /\ Port(q) /\ "PURGING" \notin q.flags
                    /\ e.avail[i] \in Nat \/ e.avail[i] = d.avail[i]
                    /\ (e.ret = "no data" /\ Starved(q)) \/ (e.ret = d.ret /\ ~Starved(p))
<1> DEFINE p == d.in[i]
           f == IF ~Bypass(p) /\ Done(p) THEN d ELSE InputFill(d, i)
           r == f.in[i]
           filled == CASE Bypass(r) /\ r.access -> r.remaining
                       [] ~Bypass(r) /\ ~Done(p) -> r.filled
                       [] OTHER -> 0
           starved == filled = 0 /\ ~Done(r)
           x == Fail(f, "no data")
           s == r.flags \cup {"INPUT_SETUP"}
           b == [f EXCEPT !.in[i].flags = s]
           y == [b EXCEPT !.avail[i] = filled, !.over[i] = (@ /\ filled = 0) \/ Done(r)]
           e == MixerOffer(d, i)
           q == e.in[i]
<1> SUFFICES /\ Around(d, e) /\ (e.ret = d.ret \/ e.ret = "no data")
             /\ \A j \in DOMAIN d.in \ {i} : e.in[j] = d.in[j] /\ e.avail[j] = d.avail[j]
             /\ IsSeq(q.queue) /\ "ACTIVE" \in q.flags /\ (OneState(p) => Tame(q))
             /\ Port(p) /\ "PURGING" \notin p.flags =>
                  /\ Port(q) /\ "PURGING" \notin q.flags
                  /\ e.avail[i] \in Nat \/ e.avail[i] = d.avail[i]
                  /\ (e.ret = "no data" /\ Starved(q)) \/ (e.ret = d.ret /\ ~Starved(p))
  OBVIOUS
<1>1. e = IF starved THEN x ELSE y
  <2>1. y = [f EXCEPT !.in[i].flags = s, !.avail[i] = filled, !.over[i] = (@ /\ filled = 0) \/ Done(r)]
    OBVIOUS
  <2> HIDE DEF y
  <2> QED
    BY <2>1 DEF MixerOffer
<1>2. /\ OneInput(d, f, i) /\ Stays(p, r)
      /\ "PURGING" \in r.flags <=> "PURGING" \in p.flags
      /\ p.queue = <<>> => r = p
      /\ ~Bypass(p) /\ Done(p) => f = d
      /\ Port(p) /\ "PURGING" \notin p.flags =>
          /\ Port(r)
          /\ ~(~Bypass(p) /\ Done(p)) =>
               (~Loaded(r) /\ (Bypass(r) /\ r.access => r.remaining = 0) => r.queue = <<>>)
  <2>1. OneInput(d, d, i) /\ Stays(p, p)
    BY DEF OneInput, Alike, Stays
  <2>2. f = d \/ (f = InputFill(d, i) /\ ~(~Bypass(p) /\ Done(p)))
    OBVIOUS
  <2>3. LET g == InputFill(d, i)
            z == g.in[i]
        IN  /\ OneInput(d, g, i) /\ Stays(p, z)
            /\ "PURGING" \in z.flags <=> "PURGING" \in p.flags
            /\ p.queue = <<>> => z = p
            /\ Port(p) /\ "PURGING" \notin p.flags =>
                 /\ Port(z)
                 /\ ~Loaded(z) /\ (Bypass(z) /\ z.access => z.remaining = 0) => z.queue = <<>>
    BY Filling
  <2>4. CASE ~Bypass(p) /\ Done(p)
    <3>1. f = d
      BY <2>4
    <3> QED
      BY <2>1, <2>4, <3>1
  <2>5. CASE ~(~Bypass(p) /\ Done(p))
    <3>1. f = InputFill(d, i)
      BY <2>5
    <3> QED
      BY <2>3, <2>5, <3>1
  <2> QED
    BY <2>4, <2>5
<1> HIDE DEF f, r
<1>3. /\ Custom(r) = Custom(p) /\ r.size = p.size /\ IsSeq(r.queue)
      /\ OneState(r) <=> OneState(p)
      /\ \A g : g \notin BaseInputFlags => (g \in r.flags <=> g \in p.flags)
  BY <1>2, CustomStates DEF Stays
<1>4. "ACTIVE" \in r.flags /\ "INPUT_SETUP" \notin r.flags
  BY <1>3 DEF BaseInputFlags
<1>5. OneState(p) => Tame(r) /\ "PAUSED" \notin r.flags
  BY <1>3, <1>4, OneOfThree DEF Tame, EndsPaused
<1>6. CASE starved
  <2>1. e = x
    BY <1>1, <1>6
  <2>2. Level(f, x) /\ x.state = f.state /\ x.ret = "no data"
    <3>1. Made(f)
      BY <1>2 DEF OneInput
    <3>2. \A why : Level(f, Fail(f, why)) /\ Fail(f, why).state = f.state /\ Fail(f, why).ret = why
      BY <3>1, States
    <3> QED
      BY <3>2
  <2>3. /\ Around(d, e) /\ e.in = f.in /\ e.ret = "no data" /\ e.avail = d.avail
        /\ \A j \in DOMAIN d.in \ {i} : e.in[j] = d.in[j] /\ e.avail[j] = d.avail[j]
    BY <1>2, <2>1, <2>2 DEF OneInput, Alike, Level, Beside, Around
  <2>4. q = r
    BY <2>3 DEF r
  <2>5. ASSUME Port(p), "PURGING" \notin p.flags PROVE Starved(r)
    <3>1. Port(r)
      BY <1>2, <2>5
    <3>2. ~Done(r) /\ ~(~Bypass(p) /\ Done(p)) /\ (Bypass(r) <=> Bypass(p))
      <4>1. ~Bypass(p) /\ Done(p) => f.in = d.in
        BY <1>2
      <4> QED
        BY <1>3, <1>6, <4>1 DEF r, Bypass
    <3>3. ~Bypass(r) => ~Done(p)
      BY <3>2
    <3>4. (Bypass(r) /\ r.access => r.remaining = 0) /\ (~Bypass(r) => r.filled = 0)
      BY <1>6, <3>3
    <3>5. r.filled = 0
      BY <3>1, <3>4 DEF Port, Bypass
    <3> HIDE DEF filled
    <3>6. ~Loaded(r)
      BY <3>2, <3>5 DEF Loaded
    <3> QED
      BY <1>2, <1>4, <2>5, <3>2, <3>4, <3>6 DEF Starved
  <2> HIDE DEF q, e, starved
  <2> QED
    BY <1>2, <1>3, <1>4, <1>5, <2>3, <2>4, <2>5
<1>7. CASE ~starved
  <2>1. e = y
    BY <1>1, <1>7
  <2>2. /\ OneInput(f, b, i) /\ b.in[i].flags = s /\ b.in[i].queue = r.queue
        /\ Port(r) => Port(b.in[i])
    <3>1. Made(f) /\ i \in DOMAIN f.in
      BY <1>2 DEF OneInput
    <3>2. s \cap BaseInputFlags = r.flags \cap BaseInputFlags
      BY DEF BaseInputFlags
    <3> HIDE DEF s
    <3> QED
      BY <3>1, <3>2, Flagging DEF r
  <2> HIDE DEF b
  <2>3. /\ Made(y) /\ y.class = b.class /\ y.ni = b.ni /\ y.no = b.no /\ y.entry = b.entry
        /\ y.state = b.state /\ y.probe = b.probe /\ y.out = b.out /\ y.in = b.in /\ y.ret = b.ret
        /\ \A j \in DOMAIN b.avail \ {i} : y.avail[j] = b.avail[j]
        /\ i \in DOMAIN b.avail => y.avail[i] = filled
    <3> HIDE DEF filled
    <3> DEFINE v == [b EXCEPT !.avail[i] = filled]
    <3>1. Made(b)
      BY <2>2 DEF OneInput
    <3>2. /\ Made(v) /\ v.class = b.class /\ v.ni = b.ni /\ v.no = b.no /\ v.entry = b.entry
          /\ v.state = b.state /\ v.probe = b.probe /\ v.out = b.out /\ v.in = b.in /\ v.ret = b.ret
          /\ \A j \in DOMAIN b.avail \ {i} : v.avail[j] = b.avail[j]
          /\ i \in DOMAIN b.avail => v.avail[i] = filled
      BY <3>1 DEF Made, Fields
    <3>3. y = [v EXCEPT !.over[i] = (@ /\ filled = 0) \/ Done(r)]
      OBVIOUS
    <3> HIDE DEF v, y
    <3>4. \A z : LET w == [v EXCEPT !.over[i] = z]
                 IN  /\ Made(w) /\ w.class = v.class /\ w.ni = v.ni /\ w.no = v.no /\ w.entry = v.entry
                     /\ w.state = v.state /\ w.probe = v.probe /\ w.out = v.out /\ w.in = v.in
                     /\ w.ret = v.ret /\ w.avail = v.avail
      BY <3>2 DEF Made, Fields
    <3> QED
      BY <3>2, <3>3, <3>4
  <2> HIDE DEF y, filled
  <2>4. Around(d, e) /\ e.ret = d.ret
    BY <1>2, <2>1, <2>2, <2>3 DEF OneInput, Alike, Around
  <2>5. /\ \A j \in DOMAIN d.in \ {i} : e.in[j] = d.in[j] /\ e.avail[j] = d.avail[j]
        /\ e.avail[i] = filled
    <3>1. Made(d) /\ b.avail = d.avail
      BY <1>2, <2>2 DEF OneInput, Alike
    <3>2. DOMAIN d.avail = DOMAIN d.in
      BY DEF Made
    <3> QED
      BY <1>2, <2>1, <2>2, <2>3, <3>1, <3>2 DEF OneInput
  <2>6. q.flags = r.flags \cup {"INPUT_SETUP"} /\ q.queue = r.queue /\ (Port(r) => Port(q))
    BY <2>1, <2>2, <2>3
  <2> HIDE DEF q, e
  <2>7. OneState(p) => Tame(q)
    <3>1. OneState(r) => OneState(q)
      BY <2>6 DEF OneState
    <3> QED
      BY <1>3, <1>5, <2>6, <3>1 DEF Tame, EndsPaused
  <2>8. ASSUME Port(p), "PURGING" \notin p.flags PROVE filled \in Nat /\ ~Starved(p)
    <3>1. Port(r)
      BY <1>2, <2>8
    <3>2. filled \in Nat
      BY <3>1 DEF Port, filled
    <3>3. ASSUME Starved(p) PROVE FALSE
      <4>1. r = p
        BY <1>2, <3>3 DEF Starved
      <4>2. ~Done(r) /\ r.filled = 0 /\ (Bypass(r) /\ r.access => r.remaining = 0)
        BY <3>1, <3>3, <4>1 DEF Starved, Loaded, Port
      <4>3. filled = 0
        BY <4>2 DEF filled
      <4> QED
        BY <1>7, <4>2, <4>3
    <3> QED
      BY <3>2, <3>3
  <2> QED
    BY <1>2, <1>3, <1>4, <2>4, <2>5, <2>6, <2>7, <2>8
<1> QED
  BY <1>6, <1>7

\* What asking the tracks for data, one after the other, makes of a: when one
\* has none, that one has nothing to offer.
Offered(a, d) ==
    /\ Around(a, d)
    /\ \A i \in DOMAIN a.in : IsSeq(d.in[i].queue) /\ (Tame(a.in[i]) => Tame(d.in[i]))
    /\ Mixing(a) => Mixing(d)
    /\ d.ret \in {"ok", "no data"}
    /\ Mixing(a) /\ d.ret = "no data" => \E i \in ActiveTracks(d) : Starved(d.in[i])

Offer == INSTANCE FoldLemmas WITH Op <- LAMBDA arg, e, i : MixerOfferTrack(e, i), Good <- Offered

\* One of them is asked.
LEMMA MixerOffersTrack ==
    ASSUME NEW a, Mix(a), NEW d, Offered(a, d), NEW i \in DOMAIN a.in
    PROVE  Offered(a, MixerOfferTrack(d, i))
<1> DEFINE e == MixerOfferTrack(d, i)
           flags == d.in[i].flags
           x == [d EXCEPT !.over[i] = TRUE]
<1>0. Made(d) /\ i \in DOMAIN d.in /\ IsSeq(d.in[i].queue)
  BY DEF Offered, Around
<1>1. CASE flags \cap {"ACTIVE", "PAUSED"} = {}
  <2>1. e = x
    BY <1>1 DEF MixerOfferTrack
  <2>2. /\ Made(x) /\ x.class = d.class /\ x.ni = d.ni /\ x.no = d.no /\ x.entry = d.entry
        /\ x.state = d.state /\ x.probe = d.probe /\ x.out = d.out /\ x.in = d.in
        /\ x.ret = d.ret /\ x.avail = d.avail
    BY <1>0 DEF Made, Fields
  <2> HIDE DEF x
  <2> QED
    BY <2>1, <2>2 DEF Offered, Around, Mixing, ActiveTracks
<1>2. CASE ~(flags \cap {"ACTIVE", "PAUSED"} = {}) /\ ~("ACTIVE" \in flags /\ "INPUT_SETUP" \notin flags)
  <2>1. e = d
    BY <1>2 DEF MixerOfferTrack
  <2> QED
    BY <2>1
<1>3. CASE "ACTIVE" \in flags /\ "INPUT_SETUP" \notin flags
  <2> DEFINE p == d.in[i]
             q == e.in[i]
  <2>1. e = MixerOffer(d, i)
    BY <1>3 DEF MixerOfferTrack
  <2>2. /\ Around(d, e) /\ (e.ret = d.ret \/ e.ret = "no data")
        /\ \A j \in DOMAIN d.in \ {i} : e.in[j] = d.in[j] /\ e.avail[j] = d.avail[j]
        /\ IsSeq(q.queue) /\ "ACTIVE" \in q.flags /\ (OneState(p) => Tame(q))
        /\ Port(p) /\ "PURGING" \notin p.flags =>
             /\ Port(q) /\ "PURGING" \notin q.flags
             /\ e.avail[i] \in Nat \/ e.avail[i] = d.avail[i]
             /\ (e.ret = "no data" /\ Starved(q)) \/ (e.ret = d.ret /\ ~Starved(p))
    <3> HIDE DEF e
    <3>1. "ACTIVE" \in d.in[i].flags /\ "INPUT_SETUP" \notin d.in[i].flags
      BY <1>3
    <3> DEFINE g == MixerOffer(d, i)
               z == g.in[i]
    <3>2. /\ Around(d, g) /\ (g.ret = d.ret \/ g.ret = "no data")
          /\ \A j \in DOMAIN d.in \ {i} : g.in[j] = d.in[j] /\ g.avail[j] = d.avail[j]
          /\ IsSeq(z.queue) /\ "ACTIVE" \in z.flags /\ (OneState(p) => Tame(z))
          /\ Port(p) /\ "PURGING" \notin p.flags =>
               /\ Port(z) /\ "PURGING" \notin z.flags
               /\ g.avail[i] \in Nat \/ g.avail[i] = d.avail[i]
               /\ (g.ret = "no data" /\ Starved(z)) \/ (g.ret = d.ret /\ ~Starved(p))
      BY <1>0, <3>1, MixerOffers
    <3> QED
      BY <2>1, <3>2
  <2> HIDE DEF e
  <2>3. Around(a, e) /\ e.ret \in {"ok", "no data"}
    BY <2>2 DEF Offered, Around
  <2>4. ASSUME NEW j \in DOMAIN a.in PROVE IsSeq(e.in[j].queue) /\ (Tame(a.in[j]) => Tame(e.in[j]))
    <3>1. CASE j = i
      BY <2>2, <3>1 DEF Offered, Tame
    <3>2. CASE j # i
      BY <2>2, <3>2 DEF Offered, Around
    <3> QED
      BY <3>1, <3>2
  <2>5. ASSUME Mixing(a) PROVE Mixing(e)
    <3>1. Mixing(d) /\ DOMAIN d.in = DOMAIN e.in /\ d.state = e.state
      BY <2>2, <2>5 DEF Offered, Around
    <3>2. ASSUME NEW j \in DOMAIN d.in
          PROVE  Port(e.in[j]) /\ "PURGING" \notin e.in[j].flags /\ e.avail[j] \in Nat
      <4>1. CASE j = i
        BY <2>2, <3>1, <4>1 DEF Mixing
      <4>2. CASE j # i
        BY <2>2, <3>1, <4>2 DEF Mixing
      <4> QED
        BY <4>1, <4>2
    <3> QED
      BY <3>1, <3>2 DEF Mixing
  <2>6. ASSUME Mixing(a), e.ret = "no data" PROVE \E j \in ActiveTracks(e) : Starved(e.in[j])
    <3>1. Mixing(d) /\ DOMAIN d.in = DOMAIN e.in
      BY <2>2, <2>6 DEF Offered, Around
    <3>2. CASE Starved(q)
      BY <1>0, <2>2, <3>1, <3>2 DEF ActiveTracks
    <3>3. CASE ~Starved(q)
      <4>1. e.ret = d.ret /\ ~Starved(p)
        BY <1>0, <2>2, <3>1, <3>3 DEF Mixing
      <4>2. PICK j \in ActiveTracks(d) : Starved(d.in[j])
        BY <2>6, <4>1 DEF Offered
      <4>3. j # i /\ j \in DOMAIN d.in
        BY <4>1, <4>2 DEF ActiveTracks
      <4> QED
        BY <2>2, <3>1, <4>2, <4>3 DEF ActiveTracks
    <3> QED
      BY <3>2, <3>3
  <2> QED
    BY <2>3, <2>4, <2>5, <2>6 DEF Offered, e
<1> QED
  BY <1>1, <1>2, <1>3

\* All are.
LEMMA MixerOffersAll ==
    ASSUME NEW a, Mix(a), a.ret = "ok"
    PROVE  Offered(a, FoldLeft(MixerOfferTrack, a, Inputs(a)))
<1>1. Offer!Fold(0, a, Inputs(a)) = FoldLeft(MixerOfferTrack, a, Inputs(a))
  BY DEF FoldLeft, MapThenFoldSet, Max, Offer!Fold, Offer!FoldLeft, Offer!MapThenFoldSet, Offer!Max
<1>2. /\ a.ni \in Nat /\ DOMAIN Inputs(a) = 1 .. a.ni
      /\ \A k \in 1 .. a.ni : Inputs(a)[k] \in DOMAIN a.in
  BY DEF Mix, Made, Inputs
<1>3. Offered(a, a)
  BY DEF Offered, Around, Mix
<1>4. \A d : \A k \in 1 .. a.ni : Offered(a, d) => Offered(a, MixerOfferTrack(d, Inputs(a)[k]))
  BY <1>2, MixerOffersTrack
<1> HIDE DEF Offered
<1>5. Offered(a, Offer!Fold(0, a, Inputs(a)))
  BY <1>2, <1>3, <1>4, Offer!Folded
<1> QED
  BY <1>1, <1>5

\* What the code prepares for a round: if there is none, there could be none.
LEMMA MixerPrepares ==
    ASSUME NEW a, Mix(a), a.ret = "ok"
    PROVE  LET p == MixerPreprocess(a)
           IN  /\ Mix(p) /\ p.entry = a.entry /\ DOMAIN p.in = DOMAIN a.in
               /\ \A i \in DOMAIN a.in : Tame(a.in[i]) => Tame(p.in[i])
               /\ Mixing(a) => Mixing(p) /\ (p.ret = "no data" => ~Could(p))
<1> DEFINE o == MixOut(a)
           d == SetupProbe(a)
           x == OutputData(d, o)
           y == [x EXCEPT !.state = x.state \cup {"OUTPUT_SETUP"}]
           e == IF Has(d, "OUTPUT_SETUP") THEN d ELSE y
           f == FoldLeft(MixerOfferTrack, e, Inputs(e))
           Good(p) == /\ Mix(p) /\ p.entry = a.entry /\ DOMAIN p.in = DOMAIN a.in
                      /\ \A i \in DOMAIN a.in : Tame(a.in[i]) => Tame(p.in[i])
                      /\ Mixing(a) => Mixing(p)
<1>0. Made(a) /\ o \in DOMAIN a.out /\ ProbePort(a) \in DOMAIN a.out
  BY MixerPorts
<1>1. Beside(a, d) /\ d.state = a.state /\ d.ret = a.ret
  <2> DEFINE s == a.out[ProbePort(a)].flags \cup {"PROBE_SETUP"}
             z == [a EXCEPT !.out[ProbePort(a)].flags = s]
  <2>1. d = a \/ d = z
    BY DEF SetupProbe
  <2> HIDE DEF s
  <2>2. OneOutput(a, z, ProbePort(a))
    BY <1>0, OutFlagging
  <2> HIDE DEF z, d
  <2> QED
    BY <1>0, <2>1, <2>2 DEF OneOutput, Alike, Beside
<1> HIDE DEF d
<1>2. Beside(a, e) /\ e.ret = a.ret /\ (Staged(a.state) => Staged(e.state))
  <2>1. Made(d)
    BY <1>1 DEF Beside
  <2>2. Aside(d, x)
    BY <2>1, Answering DEF OutputData
  <2> HIDE DEF x
  <2>3. Made(x)
    BY <2>2 DEF Aside
  <2>4. Level(x, y) /\ y.state = x.state \cup {"OUTPUT_SETUP"} /\ y.ret = x.ret
    BY <2>3, States
  <2> HIDE DEF y
  <2>5. Beside(a, y) /\ y.ret = a.ret /\ y.state = a.state \cup {"OUTPUT_SETUP"}
    BY <1>1, <2>2, <2>4, AllBeside DEF Aside, Alike
  <2>6. Staged(a.state) => Staged(y.state)
    BY <2>5, Stages
  <2> QED
    BY <1>1, <2>5, <2>6
<1>3. MixOut(d) = o /\ MixOut(e) = o /\ Inputs(e) = Inputs(a) /\ ProbePort(d) = ProbePort(a)
  BY <1>1, <1>2, MixerPorts DEF Beside, Inputs
<1> HIDE DEF e
<1>4. Mix(e) /\ e.entry = a.entry /\ e.in = a.in /\ (Mixing(a) => Mixing(e))
  BY <1>2, ComingBeside DEF Beside
<1>5. Offered(e, f)
  BY <1>2, <1>4, MixerOffersAll
<1> HIDE DEF f
<1>6. Good(f)
  BY <1>4, <1>5 DEF Offered, Around, Mix
<1>7. Good(a) /\ Good(d)
  <2>1. Mix(d) /\ d.entry = a.entry /\ d.in = a.in /\ (Mixing(a) => Mixing(d))
    BY <1>1, ComingBeside DEF Beside
  <2> QED
    BY <2>1
<1>8. ASSUME NEW p, Good(p)
      PROVE  LET q == Fail(p, "no data")
             IN  /\ Good(q) /\ q.in = p.in /\ q.out = p.out /\ q.state = p.state /\ q.ni = p.ni
                 /\ q.no = p.no /\ q.probe = p.probe
  <2> DEFINE q == Fail(p, "no data")
  <2>1. \A why : Level(p, Fail(p, why)) /\ Fail(p, why).state = p.state
    BY <1>8, States DEF Mix
  <2>2. Level(p, q) /\ q.state = p.state
    BY <2>1
  <2> HIDE DEF q
  <2>3. Mix(q) /\ q.entry = p.entry /\ q.in = p.in /\ (Mixing(p) => Mixing(q))
    BY <1>8, <2>2, ComingBeside DEF Level, Beside
  <2> QED
    BY <1>8, <2>2, <2>3 DEF Level, Beside, q
<1> DEFINE blocked == \/ MixPaused(a)
                      \/ NeedsProbe(a) /\ a.out[ProbePort(a)].queue = <<>>
           p == MixerPreprocess(a)
<1>9. \/ p = Fail(a, "no data") /\ blocked
      \/ p = d
      \/ p = Fail(d, "no data") /\ d.out[o].queue = <<>>
      \/ p = Fail(f, "no data") /\ ActiveTracks(f) = {}
      \/ p = f
  <2>1. FoldLeft(MixerOfferTrack, e, Inputs(a)) = f
    BY <1>3 DEF f
  <2> DEFINE g == FoldLeft(MixerOfferTrack, e, Inputs(a))
  <2>2. p = CASE blocked -> Fail(a, "no data")
              [] ~blocked /\ ~Has(d, "OUTPUT_SETUP") /\ Has(d, "RUNTIME_INIT") -> d
              [] OTHER -> IF ~Has(d, "OUTPUT_SETUP") /\ d.out[o].queue = <<>> THEN Fail(d, "no data")
                          ELSE IF ActiveTracks(g) = {} THEN Fail(g, "no data") ELSE g
    BY DEF MixerPreprocess, d, e
  <2> HIDE DEF g, blocked, p
  <2> QED
    BY <2>1, <2>2 DEF g
<1>10. Mixing(a) => Staged(a.state)
  BY DEF Mixing
<1> HIDE DEF p, Good
<1>11. CASE p = Fail(a, "no data") /\ blocked
  <2>1. Good(p) /\ p.out = a.out /\ p.state = a.state /\ p.ni = a.ni /\ p.no = a.no /\ p.probe = a.probe
    BY <1>7, <1>8, <1>11
  <2>2. MixPaused(p) \/ ProbeWaits(p)
    BY <1>11, <2>1 DEF MixPaused, MixOut, NeedsProbe, ProbeWaits, ProbeOn, ProbePaused, ProbePort,
                       OutputReady, Has
  <2>3. ~Could(p)
    BY <2>2 DEF Could
  <2> QED
    BY <2>1, <2>3 DEF Good, p
<1>12. CASE p = d
  <2>1. p.ret # "no data"
    BY <1>1, <1>12
  <2> QED
    BY <1>7, <1>12, <2>1 DEF Good, p
<1>13. CASE p = Fail(d, "no data") /\ d.out[o].queue = <<>>
  <2>1. Good(p) /\ p.out = d.out /\ p.ni = d.ni
    BY <1>7, <1>8, <1>13
  <2>2. ~Could(p)
    BY <1>3, <1>13, <2>1 DEF Could, MixReady, OutputReady, MixOut
  <2> QED
    BY <2>1, <2>2 DEF Good, p
<1>14. CASE p = Fail(f, "no data") /\ ActiveTracks(f) = {}
  <2>1. Good(p) /\ p.in = f.in
    BY <1>6, <1>8, <1>14
  <2>2. ~Could(p)
    BY <1>14, <2>1 DEF Could, ActiveTracks
  <2> QED
    BY <2>1, <2>2 DEF Good, p
<1>15. CASE p = f
  <2>1. ASSUME Mixing(a), f.ret = "no data" PROVE ~Could(f)
    <3>1. PICK i \in ActiveTracks(f) : Starved(f.in[i])
      BY <1>4, <1>5, <2>1 DEF Offered
    <3>2. ~Fed(f.in[i])
      BY <3>1 DEF Starved, Fed
    <3> QED
      BY <3>2 DEF Could
  <2> QED
    BY <1>6, <1>15, <2>1 DEF Good, p
<1> QED
  BY <1>9, <1>11, <1>12, <1>13, <1>14, <1>15

-----------------------------------------------------------------------------
(* And what follows the round                                              *)

\* Data was taken from a track, which is idle after its end.
LEMMA MixerConsumes ==
    ASSUME NEW d, Made(d), NEW i \in DOMAIN d.in, IsSeq(d.in[i].queue), NEW n
    PROVE  LET e == MixerConsumed(d, i, n)
               p == d.in[i]
               q == e.in[i]
           IN  /\ OneInput(d, e, i) /\ IsSeq(q.queue) /\ (Tame(p) => Tame(q))
               /\ Port(p) /\ "PURGING" \notin p.flags /\ n \in Nat =>
                    Port(q) /\ "PURGING" \notin q.flags
<1> DEFINE p == d.in[i]
           s == p.flags \ {"INPUT_SETUP"}
           b == [d EXCEPT !.in[i].flags = s]
           f == InputConsume(b, i, n)
           r == f.in[i]
           g == InputPurge(f, i)
           t == Toggle(g.in[i].flags, {"ACTIVE", "IDLE"})
           h == [g EXCEPT !.in[i].flags = t]
           e == MixerConsumed(d, i, n)
           q == e.in[i]
           Tells(u) == /\ OneInput(d, u, i) /\ IsSeq(u.in[i].queue) /\ (Tame(p) => Tame(u.in[i]))
                       /\ Port(p) /\ "PURGING" \notin p.flags /\ n \in Nat =>
                            Port(u.in[i]) /\ "PURGING" \notin u.in[i].flags
<1>1. \/ e = d
      \/ e = h /\ p.flags \cap {"ACTIVE", "INPUT_SETUP"} # {} /\ Done(r)
      \/ e = f /\ p.flags \cap {"ACTIVE", "INPUT_SETUP"} # {}
  BY DEF MixerConsumed
<1>2. Tells(d)
  BY DEF OneInput, Alike
<1>3. /\ OneInput(d, b, i) /\ b.in[i].flags = s /\ b.in[i].queue = p.queue
      /\ Port(p) => Port(b.in[i])
  <2>1. s \cap BaseInputFlags = p.flags \cap BaseInputFlags
    BY DEF BaseInputFlags
  <2> HIDE DEF s
  <2> QED
    BY <2>1, Flagging
<1> HIDE DEF b
<1>4. Made(b) /\ i \in DOMAIN b.in
  BY <1>3 DEF OneInput
<1>5. /\ OneInput(d, f, i) /\ r.flags = s /\ r.queue = p.queue
      /\ Port(p) /\ n \in Nat => Port(r)
  <2>1. /\ OneInput(b, f, i) /\ r.flags = b.in[i].flags /\ r.queue = b.in[i].queue
        /\ Port(b.in[i]) /\ n \in Nat => Port(r)
    BY <1>4, Consuming
  <2> QED
    BY <1>3, <2>1, AtOne
<1> HIDE DEF f
<1>6. (OneState(r) <=> OneState(p)) /\ "INPUT_SETUP" \notin r.flags
      /\ ("PURGING" \in r.flags <=> "PURGING" \in p.flags) /\ (Done(r) <=> Done(p))
  <2>1. s \cap {"IDLE", "ACTIVE", "PAUSED"} = p.flags \cap {"IDLE", "ACTIVE", "PAUSED"}
    OBVIOUS
  <2> QED
    BY <1>5, <2>1 DEF OneState, Done
<1>7. Tells(f)
  <2>1. IsSeq(r.queue) /\ (Tame(p) => Tame(r))
    BY <1>5, <1>6 DEF Tame, EndsPaused
  <2> QED
    BY <1>5, <1>6, <2>1 DEF r
<1>8. ASSUME p.flags \cap {"ACTIVE", "INPUT_SETUP"} # {}, Done(r) PROVE Tells(h)
  <2>0. Made(f) /\ i \in DOMAIN f.in
    BY <1>5 DEF OneInput
  <2>1. /\ OneInput(f, g, i) /\ Stays(r, g.in[i])
        /\ "CREATED" \in r.flags => {"PURGING", "EOS"} \cap g.in[i].flags = {}
        /\ Port(r) => Port(g.in[i])
    BY <2>0, Purging DEF r
  <2> HIDE DEF g
  <2>2. /\ OneInput(g, h, i) /\ h.in[i].flags = t /\ h.in[i].queue = g.in[i].queue
        /\ Port(g.in[i]) => Port(h.in[i])
    <3>1. t \cap BaseInputFlags = g.in[i].flags \cap BaseInputFlags
      BY DEF BaseInputFlags, Toggle
    <3>2. Made(g) /\ i \in DOMAIN g.in
      BY <2>0, <2>1 DEF OneInput
    <3> HIDE DEF t
    <3> QED
      BY <3>1, <3>2, Flagging
  <2>3. OneInput(d, h, i)
    BY <1>5, <2>1, <2>2, AtOne
  <2>4. IsSeq(h.in[i].queue)
    BY <1>5, <2>1, <2>2 DEF Stays
  <2>5. Port(r) /\ "PURGING" \notin r.flags => Port(h.in[i]) /\ "PURGING" \notin h.in[i].flags
    <3>1. Port(r) => "PURGING" \notin g.in[i].flags
      BY <2>1 DEF Port
    <3>2. "PURGING" \in t => "PURGING" \in g.in[i].flags
      BY DEF Toggle
    <3> HIDE DEF t
    <3> QED
      BY <2>1, <2>2, <3>1, <3>2
  <2>6. Tame(p) => Tame(h.in[i])
    <3> SUFFICES ASSUME Tame(p) PROVE Tame(h.in[i])
      OBVIOUS
    <3>1. \A x : x \notin BaseInputFlags => (x \in g.in[i].flags <=> x \in r.flags)
      BY <2>1, CustomStates DEF Stays
    <3>2. "PAUSED" \notin p.flags
      BY <1>6, <1>8, OneOfThree DEF Tame, EndsPaused, Done
    <3>3. \/ "IDLE" \in p.flags /\ "ACTIVE" \notin p.flags
          \/ "IDLE" \notin p.flags /\ "ACTIVE" \in p.flags
      BY <3>2, OneOfThree DEF Tame
    <3>4. /\ "IDLE" \in g.in[i].flags <=> "IDLE" \in p.flags
          /\ "ACTIVE" \in g.in[i].flags <=> "ACTIVE" \in p.flags
          /\ "PAUSED" \notin g.in[i].flags
      BY <1>5, <3>1, <3>2 DEF BaseInputFlags
    <3>5. /\ "IDLE" \in t <=> "IDLE" \notin p.flags
          /\ "ACTIVE" \in t <=> "ACTIVE" \notin p.flags
          /\ "PAUSED" \notin t
      BY <3>4 DEF Toggle
    <3> HIDE DEF t
    <3>6. OneState(h.in[i])
      BY <2>2, <3>3, <3>5, OneOfThree
    <3> QED
      BY <2>2, <3>5, <3>6 DEF Tame, EndsPaused
  <2> HIDE DEF h
  <2> QED
    BY <1>5, <1>6, <2>3, <2>4, <2>5, <2>6
<1>9. Tells(e)
  <2> HIDE DEF Tells, e, h
  <2> QED
    BY <1>1, <1>2, <1>7, <1>8
<1> QED
  BY <1>9

\* What taking the data of all the tracks, a[2], makes of a[1].
Consumed(a, d) ==
    /\ Made(d) /\ Alike(a[1], d) /\ d.out = a[1].out /\ DOMAIN d.in = DOMAIN a[1].in
    /\ \A i \in DOMAIN a[1].in :
        /\ IsSeq(d.in[i].queue) /\ (Tame(a[1].in[i]) => Tame(d.in[i]))
        /\ Mixing(a[1]) /\ a[2][i] \in Nat => Port(d.in[i]) /\ "PURGING" \notin d.in[i].flags

Consume == INSTANCE FoldLemmas WITH
    Op <- LAMBDA arg, e, i : MixerConsumed(e, i, arg.consumed[i]), Good <- Consumed

\* The data of all the tracks is taken.
LEMMA MixerConsumesAll ==
    ASSUME NEW a, Mix(a), NEW o
    PROVE  LET d == Consume!Fold(o, a, Inputs(a))
           IN  /\ Mix(d) /\ Alike(a, d) /\ d.out = a.out /\ DOMAIN d.in = DOMAIN a.in
               /\ \A i \in DOMAIN a.in : Tame(a.in[i]) => Tame(d.in[i])
               /\ Mixing(a) /\ (\A i \in DOMAIN a.in : o.consumed[i] \in Nat) => Mixing(d)
<1> DEFINE d == Consume!Fold(o, a, Inputs(a))
           b == <<a, o.consumed>>
<1>2. /\ a.ni \in Nat /\ DOMAIN Inputs(a) = 1 .. a.ni
      /\ \A k \in 1 .. a.ni : Inputs(a)[k] \in DOMAIN a.in
  BY DEF Mix, Made, Inputs
<1>3. Consumed(b, a)
  BY DEF Consumed, Mix, Mixing, Alike
<1>4. ASSUME NEW e, Consumed(b, e), NEW i \in DOMAIN a.in
      PROVE  Consumed(b, MixerConsumed(e, i, o.consumed[i]))
  <2> DEFINE n == o.consumed[i]
             f == MixerConsumed(e, i, n)
             p == e.in[i]
             q == f.in[i]
  <2>1. Made(e) /\ Alike(a, e) /\ e.out = a.out /\ i \in DOMAIN e.in /\ IsSeq(p.queue)
        /\ DOMAIN e.in = DOMAIN a.in
    BY <1>4 DEF Consumed
  <2>2. /\ OneInput(e, f, i) /\ IsSeq(q.queue) /\ (Tame(p) => Tame(q))
        /\ Port(p) /\ "PURGING" \notin p.flags /\ n \in Nat => Port(q) /\ "PURGING" \notin q.flags
    BY <2>1, MixerConsumes
  <2> HIDE DEF f
  <2>3. ASSUME NEW j \in DOMAIN a.in
        PROVE  /\ IsSeq(f.in[j].queue) /\ (Tame(a.in[j]) => Tame(f.in[j]))
               /\ Mixing(a) /\ o.consumed[j] \in Nat => Port(f.in[j]) /\ "PURGING" \notin f.in[j].flags
    <3>1. /\ IsSeq(e.in[j].queue) /\ (Tame(a.in[j]) => Tame(e.in[j]))
          /\ Mixing(a) /\ o.consumed[j] \in Nat => Port(e.in[j]) /\ "PURGING" \notin e.in[j].flags
      BY <1>4 DEF Consumed
    <3>2. CASE j = i
      BY <2>2, <3>1, <3>2
    <3>3. CASE j # i
      BY <2>1, <2>2, <3>1, <3>3 DEF OneInput
    <3> QED
      BY <3>2, <3>3
  <2> QED
    BY <2>1, <2>2, <2>3 DEF Consumed, OneInput, Alike, f
<1>5. \A e : \A k \in 1 .. a.ni :
        Consumed(b, e) => Consumed(b, MixerConsumed(e, Inputs(a)[k], o.consumed[Inputs(a)[k]]))
  BY <1>2, <1>4
<1> HIDE DEF Consumed, b
<1>6. Consumed(b, Consume!Fold(o, a, Inputs(a)))
  BY <1>2, <1>3, <1>5, Consume!Folded
<1>7. Consumed(b, d)
  BY <1>6
<1> HIDE DEF d
<1> QED
  BY <1>7 DEF Consumed, Mix, Mixing, Alike, b, d

\* A stage gives way to the next.
LEMMA Advancing ==
    ASSUME NEW d, Made(d), NEW done
    PROVE  LET e == Advance(d, done)
           IN  /\ Level(d, e) /\ (Staged(d.state) => Staged(e.state))
               /\ done => \/ "EXECUTION" \notin e.state
                          \/ "RUNTIME_INIT" \in d.state
<1> DEFINE s == Toggle(d.state, {"RUNTIME_INIT", "EXECUTION"})
           t == Toggle(d.state, {"EXECUTION", "COMPLETED"})
           e == Advance(d, done)
<1>1. \/ e = [d EXCEPT !.state = s] /\ "RUNTIME_INIT" \in d.state
      \/ e = [d EXCEPT !.state = t] /\ "RUNTIME_INIT" \notin d.state /\ "EXECUTION" \in d.state
      \/ e = d /\ ~(done /\ "RUNTIME_INIT" \in d.state)
         /\ ~(done /\ "RUNTIME_INIT" \notin d.state /\ "EXECUTION" \in d.state)
  BY DEF Advance, Has
<1>2. Staged(d.state) /\ "RUNTIME_INIT" \in d.state => Staged(s)
  BY DEF Staged, Toggle
<1>3. Staged(d.state) /\ "EXECUTION" \in d.state => Staged(t)
  BY DEF Staged, Toggle
<1>4. "EXECUTION" \in d.state => "EXECUTION" \notin t
  BY DEF Toggle
<1> HIDE DEF s, t
<1>5. /\ Level(d, [d EXCEPT !.state = s]) /\ [d EXCEPT !.state = s].state = s
      /\ Level(d, [d EXCEPT !.state = t]) /\ [d EXCEPT !.state = t].state = t
  BY States
<1>6. Level(d, d)
  BY DEF Level, Beside
<1> HIDE DEF e
<1> QED
  BY <1>1, <1>2, <1>3, <1>4, <1>5, <1>6 DEF e

\* A buffer of an output is passed on, if there is one.
LEMMA MixerPasses ==
    ASSUME NEW a, Mix(a)
    PROVE  /\ \A o : LET d == MixerProduced(a, o)
                     IN  Beside(a, d) /\ d.state \in {a.state, a.state \ {"OUTPUT_SETUP"}}
           /\ \A x : LET d == ProduceProbe(a, x) IN Beside(a, d) /\ d.state = a.state
           /\ LET d == MixerCompleted(a) IN Beside(a, d) /\ d.state = a.state
<1>0. Made(a) /\ MixOut(a) \in DOMAIN a.out /\ ProbePort(a) \in DOMAIN a.out
  BY MixerPorts
<1>1. Beside(a, a)
  BY <1>0 DEF Beside
<1>2. ASSUME NEW o
      PROVE  LET d == MixerProduced(a, o)
             IN  Beside(a, d) /\ d.state \in {a.state, a.state \ {"OUTPUT_SETUP"}}
  <2> DEFINE b == OutputProduce(a, MixOut(a), 1)
             e == [b EXCEPT !.state = b.state \ {"OUTPUT_SETUP"}]
  <2>1. MixerProduced(a, o) = a \/ MixerProduced(a, o) = e
    BY DEF MixerProduced
  <2>2. OneOutput(a, b, MixOut(a))
    BY <1>0, Buffering
  <2> HIDE DEF b
  <2>3. Made(b)
    BY <2>2 DEF OneOutput
  <2>4. Level(b, e) /\ e.state = b.state \ {"OUTPUT_SETUP"}
    BY <2>3, States
  <2> HIDE DEF e
  <2>5. Beside(a, e) /\ e.state = a.state \ {"OUTPUT_SETUP"}
    BY <1>1, <2>2, <2>4, AllBeside DEF OneOutput, Alike
  <2> QED
    BY <1>1, <2>1, <2>5
<1>3. ASSUME NEW x PROVE LET d == ProduceProbe(a, x) IN Beside(a, d) /\ d.state = a.state
  <2> DEFINE p == ProbePort(a)
             b == OutputProduce(a, p, 1)
             s == Toggle(b.out[p].flags, {"PROBE_SETUP"})
             e == [b EXCEPT !.out[p].flags = s]
  <2>1. ProduceProbe(a, x) = a \/ ProduceProbe(a, x) = e
    BY DEF ProduceProbe
  <2>2. OneOutput(a, b, p)
    BY <1>0, Buffering
  <2> HIDE DEF b
  <2>3. Made(b) /\ p \in DOMAIN b.out
    BY <1>0, <2>2 DEF OneOutput
  <2> HIDE DEF s
  <2>4. OneOutput(b, e, p)
    BY <2>3, OutFlagging
  <2> HIDE DEF e
  <2>5. Beside(a, e) /\ e.state = a.state
    BY <2>2, <2>4 DEF OneOutput, Alike, Beside
  <2> QED
    BY <1>1, <2>1, <2>5
<1>4. LET d == MixerCompleted(a) IN Beside(a, d) /\ d.state = a.state
  <2> DEFINE b == OutputFlush(a, MixOut(a), "FILL")
             e == FlushProbe(b)
  <2>1. OneOutput(a, b, MixOut(a))
    BY <1>0, FlushingOut
  <2> HIDE DEF b
  <2>2. Made(b) /\ ProbePort(b) \in DOMAIN b.out
    BY <1>0, <2>1 DEF OneOutput, Alike, ProbePort
  <2>3. OneOutput(b, OutputFlush(b, ProbePort(b), "FLUSH"), ProbePort(b))
    BY <2>2, FlushingOut
  <2>4. e = b \/ e = OutputFlush(b, ProbePort(b), "FLUSH")
    BY DEF FlushProbe
  <2> HIDE DEF e
  <2>5. Beside(a, e) /\ e.state = a.state
    BY <2>1, <2>3, <2>4 DEF OneOutput, Alike, Beside
  <2> QED
    BY <2>5 DEF MixerCompleted, e, b
<1> QED
  BY <1>2, <1>3, <1>4

\* After a round the mixer goes on, unless it can not.
LEMMA MixerGoesOn ==
    ASSUME NEW a, Mix(a), NEW o
    PROVE  LET r == BaseProcess(a, o)
           IN  /\ Mix(r) /\ r.entry = a.entry /\ DOMAIN r.in = DOMAIN a.in
               /\ \A i \in DOMAIN a.in : Tame(a.in[i]) => OneState(r.in[i])
               /\ Mixing(a) /\ (\A i \in DOMAIN a.in : o.consumed[i] \in Nat) => Mixing(r) /\ Awake(r)
<1> DEFINE b == Advance(a, o.done)
           d == FoldLeft(LAMBDA e, i : MixerConsumed(e, i, o.consumed[i]), b, Inputs(b))
           e == MixerProduced(d, o)
           moved == o.produced > 0 \/ \E i \in DOMAIN b.in : o.consumed[i] > 0
           f == ProduceProbe(e, moved)
           u == OutputRouteAlloc(b, MixOut(b), o.memory)
           v == MixSchedule(u)
           w == OutputProduce(v, MixOut(b), 1)
           g == MixerCompleted(f)
           h == MixSchedule(f)
           r == BaseProcess(a, o)
           given == \A i \in DOMAIN a.in : o.consumed[i] \in Nat
           Good(x) == /\ Mix(x) /\ x.entry = a.entry /\ DOMAIN x.in = DOMAIN a.in
                      /\ \A i \in DOMAIN a.in : Tame(a.in[i]) => OneState(x.in[i])
                      /\ Mixing(a) /\ given => Mixing(x)
<1>0. Made(a)
  BY MixerPorts
<1>1. Level(a, b) /\ (Staged(a.state) => Staged(b.state))
  BY <1>0, Advancing
<1>2. \/ r = w
      \/ r = g /\ ~Has(b, "EXECUTION")
      \/ r = h
  <2>1. r = MixerPostprocess(b, o)
    <3>1. a.class = "mixer"
      BY DEF Mix
    <3>2. b.class = "mixer"
      BY <1>1, <3>1 DEF Level, Beside
    <3> HIDE DEF b
    <3> QED
      BY <3>2 DEF BaseProcess, Postprocess, b
  <2>2. r = CASE o.done /\ Has(b, "EXECUTION") -> w
              [] o.done /\ ~Has(b, "EXECUTION") -> g
              [] OTHER -> h
    BY <2>1 DEF MixerPostprocess, MixPrepareRuntime
  <2> HIDE DEF b, d, e, f, u, v, w, g, h, r
  <2> QED
    BY <2>2
<1> HIDE DEF b
<1>3. Mix(b) /\ b.entry = a.entry /\ b.in = a.in /\ (Mixing(a) => Mixing(b))
  BY <1>1, ComingBeside DEF Level, Beside
<1>4. /\ Mix(d) /\ Alike(b, d) /\ d.out = b.out /\ DOMAIN d.in = DOMAIN b.in
      /\ \A i \in DOMAIN b.in : Tame(b.in[i]) => Tame(d.in[i])
      /\ Mixing(b) /\ (\A i \in DOMAIN b.in : o.consumed[i] \in Nat) => Mixing(d)
  <2>1. Consume!Fold(o, b, Inputs(b)) = d
    BY DEF FoldLeft, MapThenFoldSet, Max, Consume!Fold, Consume!FoldLeft, Consume!MapThenFoldSet,
           Consume!Max
  <2> HIDE DEF d
  <2> QED
    BY <1>3, <2>1, MixerConsumesAll
<1> HIDE DEF d, given
<1>5. /\ Mix(d) /\ d.entry = a.entry /\ d.state = b.state /\ DOMAIN d.in = DOMAIN a.in
      /\ \A i \in DOMAIN a.in : Tame(a.in[i]) => OneState(d.in[i])
      /\ Mixing(a) /\ given => Mixing(d)
  BY <1>3, <1>4 DEF Alike, Tame, given
<1>6. ASSUME NEW x, Good(x), NEW y, Beside(x, y), Staged(x.state) => Staged(y.state) PROVE Good(y)
  <2>1. Mix(y) /\ y.entry = x.entry /\ y.in = x.in /\ (Mixing(x) => Mixing(y))
    BY <1>6, ComingBeside DEF Beside
  <2> QED
    BY <1>6, <2>1
<1>7. Good(d)
  BY <1>5
<1>8. Good(f) /\ f.state \in {b.state, b.state \ {"OUTPUT_SETUP"}}
  <2>1. Beside(d, e) /\ e.state \in {b.state, b.state \ {"OUTPUT_SETUP"}}
    BY <1>5, MixerPasses
  <2> HIDE DEF e
  <2>2. Staged(d.state) => Staged(e.state)
    BY <1>5, <2>1, Stages
  <2>3. Good(e)
    <3> HIDE DEF Good
    <3> QED
      BY <1>6, <1>7, <2>1, <2>2
  <2> HIDE DEF moved
  <2>4. Beside(e, f) /\ f.state = e.state
    BY <2>3, MixerPasses
  <2> HIDE DEF f
  <2>5. Good(f)
    <3> HIDE DEF Good
    <3> QED
      BY <1>6, <2>3, <2>4
  <2> QED
    BY <2>1, <2>4, <2>5
<1> HIDE DEF f
<1>9. Good(g) /\ g.state = f.state
  <2>1. Beside(f, g) /\ g.state = f.state
    BY <1>8, MixerPasses
  <2> HIDE DEF g, Good
  <2> QED
    BY <1>6, <1>8, <2>1
<1>10. ASSUME NEW x, Good(x)
       PROVE  /\ Good(MixSchedule(x)) /\ MixSchedule(x).out = x.out
              /\ Mixing(a) /\ given => Awake(MixSchedule(x))
  <2> DEFINE y == MixSchedule(x)
  <2>1. Level(x, y) /\ y.state \ {"SCHEDULE"} = x.state \ {"SCHEDULE"}
        /\ ("COMP_FATAL_ERROR" \notin x.state => Awake(y))
    BY <1>10, Waking
  <2> HIDE DEF y
  <2>2. Staged(x.state) => Staged(y.state)
    BY <2>1, Stages
  <2>3. Good(y)
    <3> HIDE DEF Good
    <3> QED
      BY <1>6, <1>10, <2>1, <2>2 DEF Level
  <2>4. Mixing(a) /\ given => "COMP_FATAL_ERROR" \notin x.state
    BY <1>10 DEF Mixing, Staged
  <2> QED
    BY <2>1, <2>3, <2>4 DEF Level, y
<1>11. Good(u)
  <2>1. OneOutput(b, u, MixOut(b))
    BY <1>3, MixerPorts, Routing
  <2> HIDE DEF u
  <2>2. Beside(b, u) /\ u.state = b.state
    BY <2>1 DEF OneOutput, Alike, Beside
  <2>3. Mix(u) /\ u.entry = b.entry /\ u.in = b.in /\ (Mixing(b) => Mixing(u))
    BY <1>3, <2>2, ComingBeside DEF Beside
  <2> QED
    BY <1>3, <2>3 DEF Tame
<1>12. Good(w) /\ (Mixing(a) /\ given => Awake(w))
  <2>1. Good(v) /\ (Mixing(a) /\ given => Awake(v)) /\ v.ni = b.ni
    <3>1. u.ni = b.ni
      <4>1. OneOutput(b, u, MixOut(b))
        BY <1>3, MixerPorts, Routing
      <4> QED
        BY <4>1 DEF OneOutput, Alike
    <3>2. Level(u, v)
      BY <1>11, Waking
    <3> QED
      BY <1>10, <1>11, <3>1, <3>2 DEF Level, Beside
  <2> HIDE DEF v
  <2>2. MixOut(v) = MixOut(b) /\ MixOut(v) \in DOMAIN v.out /\ Made(v)
    BY <2>1, MixerPorts DEF MixOut
  <2>3. /\ OneOutput(v, w, MixOut(v))
        /\ w.out[MixOut(v)].flags = v.out[MixOut(v)].flags \/ w.out[MixOut(v)].flags = v.out[MixOut(v)].flags \ {"IDLE"}
        /\ v.out[MixOut(v)].queue = <<>> => w.out[MixOut(v)].queue = <<>>
    BY <2>2, Buffering
  <2> HIDE DEF w
  <2>4. Beside(v, w) /\ w.state = v.state
    BY <2>3 DEF OneOutput, Alike, Beside
  <2>5. Good(w)
    <3> HIDE DEF Good
    <3> QED
      BY <1>6, <2>1, <2>4
  <2>6. Awake(v) => Awake(w)
    <3>1. \A q \in DOMAIN v.out :
            /\ w.out[q].queue # <<>> => v.out[q].queue # <<>>
            /\ Blocking \cap v.out[q].flags \subseteq w.out[q].flags
            /\ "PROBE_PAUSED" \in w.out[q].flags => "PROBE_PAUSED" \in v.out[q].flags
      BY <2>3 DEF OneOutput, Blocking
    <3>2. Near(v, w, MixOut(v)) /\ MixOut(v) \notin DOMAIN v.in
      BY <2>1, <2>4, AllNear, MixerPorts
    <3> QED
      BY <2>1, <2>4, <3>1, <3>2, CouldBefore
  <2> QED
    BY <2>1, <2>5, <2>6
<1>13. ~Has(b, "EXECUTION") => Awake(g)
  BY <1>8, <1>9, Asleep DEF Has
<1>14. Good(r) /\ (Mixing(a) /\ given => Awake(r))
  <2> HIDE DEF Good, r, g, w, h
  <2>1. Good(h) /\ (Mixing(a) /\ given => Awake(h))
    BY <1>8, <1>10 DEF h
  <2> QED
    BY <1>2, <1>9, <1>12, <1>13, <2>1
<1> HIDE DEF r
<1> QED
  BY <1>14 DEF Mixing, r, given
\* A round of a mixer: what it does to its tracks, and that it goes on.
LEMMA MixerProcesses ==
    ASSUME NEW a, Mix(a), a.ret = "ok", NEW memory, NEW r,
           LET p == Preprocess(Take(a))
           IN  \/ r = p /\ p.ret = "no data"
               \/ \E o \in Outcomes(p, memory) : r = BaseProcess(p, o)
    PROVE  /\ Mix(r) /\ r.entry = a.entry /\ DOMAIN r.in = DOMAIN a.in
           /\ \A i \in DOMAIN a.in : Tame(a.in[i]) => OneState(r.in[i])
           /\ Mixing(a) => Mixing(r) /\ Awake(r)
<1> DEFINE t == Take(a)
           p == MixerPreprocess(t)
<1>1. Level(a, t) /\ t.ret = a.ret /\ t.state = a.state \ {"SCHEDULE"}
  <2>1. Made(a)
    BY MixerPorts
  <2> QED
    BY <2>1, States
<1> HIDE DEF t
<1>2. Staged(a.state) => Staged(t.state)
  BY <1>1, Stages
<1>3. Mix(t) /\ t.entry = a.entry /\ t.in = a.in /\ t.ret = "ok" /\ (Mixing(a) => Mixing(t))
  BY <1>1, <1>2, ComingBeside DEF Level, Beside
<1>4. /\ Mix(p) /\ p.entry = a.entry /\ DOMAIN p.in = DOMAIN a.in
      /\ \A i \in DOMAIN a.in : Tame(a.in[i]) => Tame(p.in[i])
      /\ Mixing(a) => Mixing(p) /\ (p.ret = "no data" => ~Could(p))
  BY <1>3, MixerPrepares
<1>5. /\ p = Preprocess(t)
      /\ \/ r = p /\ p.ret = "no data"
         \/ \E o \in Outcomes(p, memory) : r = BaseProcess(p, o)
  <2>1. p = Preprocess(t)
    BY <1>3 DEF Preprocess, Mix
  <2> QED
    BY <2>1 DEF t
<1> HIDE DEF p
<1>6. CASE r = p /\ p.ret = "no data"
  BY <1>4, <1>6 DEF Tame, Awake
<1>7. ASSUME NEW o \in Outcomes(p, memory), r = BaseProcess(p, o)
      PROVE  /\ Mix(r) /\ r.entry = a.entry /\ DOMAIN r.in = DOMAIN a.in
             /\ \A i \in DOMAIN a.in : Tame(a.in[i]) => OneState(r.in[i])
             /\ Mixing(a) => Mixing(r) /\ Awake(r)
  <2> DEFINE take(S) == [i \in DOMAIN p.in |-> IF i \in S THEN p.avail[i] ELSE 0]
             set == {i \in ActiveTracks(p) : "INPUT_SETUP" \in p.in[i].flags}
  <2>1. o.consumed \in {take({}), take(set)}
    <3>1. o.consumed \in Reads(p)
      BY DEF Outcomes
    <3>2. p.class = "mixer"
      BY <1>4 DEF Mix
    <3> QED
      BY <3>1, <3>2 DEF Reads
  <2> HIDE DEF set
  <2>2. ASSUME Mixing(p), NEW i \in DOMAIN p.in PROVE o.consumed[i] \in Nat
    <3>1. o.consumed[i] \in {p.avail[i], 0}
      BY <2>1
    <3>2. p.avail[i] \in Nat
      BY <2>2 DEF Mixing
    <3>3. 0 \in Nat
      OBVIOUS
    <3> QED
      BY <3>1, <3>2, <3>3
  <2> QED
    BY <1>4, <1>7, <2>2, MixerGoesOn
<1> QED
  BY <1>5, <1>6, <1>7

-----------------------------------------------------------------------------
(* The steps *)

\* the component is a mixer, in order when it waits for what comes next,
\* unless it is gone
Orderly ==
    /\ "entry" \in DOMAIN c
    /\ \/ c.entry = "command" /\ Mix(c) /\ c.ret = "ok"
       \/ c.entry = "terminate" /\ Mix(c)
       \/ c.entry = "gone"

\* What is completed is sent on.
LEMMA Committing ==
    ASSUME NEW r, "entry" \in DOMAIN r, Commit(r)
    PROVE  /\ "entry" \in DOMAIN c' /\ c'.entry = r.entry
           /\ Made(r) => Level(r, c') /\ c'.state = r.state /\ c'.ret = "ok"
<1> DEFINE e(x, y) == Expect(Expect(r, x, "answered twice"), y, "answer to an interrupt")
           f(x, y) == [e(x, y) EXCEPT !.sent = <<>>, !.ret = "ok"]
<1>1. PICK x, y : c' = f(x, y)
  BY DEF Commit
<1> DEFINE d == e(x, y)
<1>2. "entry" \in DOMAIN d /\ d.entry = r.entry
  BY DEF Expect
<1>3. Made(r) => Aside(r, d)
  <2>1. ASSUME Made(r), NEW n1, NEW n2
        PROVE  Aside(r, Expect(Expect(r, x, n1), y, n2))
    <3> DEFINE b == Expect(r, x, n1)
    <3>1. Aside(r, b)
      BY <2>1, Answering
    <3> HIDE DEF b
    <3>2. Aside(b, Expect(b, y, n2))
      BY <3>1, Answering DEF Aside
    <3>3. Aside(r, Expect(b, y, n2))
      BY <3>1, <3>2, AtOne
    <3> QED
      BY <3>3 DEF b
  <2> QED
    BY <2>1
<1> HIDE DEF d
<1>4. c' = [d EXCEPT !.sent = <<>>, !.ret = "ok"]
  BY <1>1 DEF d
<1>5. Made(d) => Level(d, c') /\ c'.state = d.state /\ c'.ret = "ok"
  BY <1>4 DEF Level, Beside, Made, Fields
<1> QED
  BY <1>2, <1>3, <1>4, <1>5 DEF Aside, Alike, Level, Beside

\* A mixer as its factory makes it.
LEMMA MixerStarts ==
    ASSUME \A k \in Kinds : k.class = "mixer", Init
    PROVE  Orderly /\ Mixing(c) /\ c.entry = "command"
<1>1. PICK k \in Kinds : c = Component(k)
  BY DEF Init
<1>2. k.class = "mixer" /\ k.ni \in Nat /\ k.no = 1 /\ k.size \in Nat
  BY KindsAssumption DEF KindsAssumption
<1> DEFINE p == [InputPort(k.size) EXCEPT !.flags = @ \cup TrackFlags(k, {"mixer", "mimo"}, {"IDLE"})]
<1>3. /\ Fields \subseteq DOMAIN c /\ c.class = "mixer" /\ c.ni = k.ni /\ c.no = 1
      /\ c.entry = "command" /\ c.ret = "ok" /\ c.state = {}
      /\ DOMAIN c.in = 0 .. k.ni - 1 /\ DOMAIN c.avail = 0 .. k.ni - 1
      /\ DOMAIN c.out = k.ni .. k.ni + 1
  <2>1. (k.ni .. k.ni + k.no - 1) \cup {k.ni + k.no} = k.ni .. k.ni + 1
    <3>1. \A n \in Nat : (n .. n + 1 - 1) \cup {n + 1} = n .. n + 1
      OBVIOUS
    <3> QED
      BY <1>2, <3>1
  <2> QED
    BY <1>1, <1>2, <2>1 DEF Component, Fields
<1>4. \A i \in DOMAIN c.in : c.in[i] = p /\ c.avail[i] = 0
  BY <1>1 DEF Component
<1>5. \A o \in DOMAIN c.out : OutFields \subseteq DOMAIN c.out[o]
  <2>1. OutFields \subseteq DOMAIN OutputPort
    BY DEF OutputPort, OutFields
  <2> QED
    BY <1>1, <2>1 DEF Component
<1>6. InFields \subseteq DOMAIN p /\ IsSeq(p.queue) /\ Port(p) /\ "PURGING" \notin p.flags
  <2>1. /\ p.queue = <<>> /\ p.size = k.size /\ p.filled = 0 /\ ~p.access /\ p.remaining = 0
        /\ InFields \subseteq DOMAIN p
    BY DEF InputPort, InFields
  <2>2. "CREATED" \in p.flags /\ "PURGING" \notin p.flags /\ ~Done(p)
    BY <1>2 DEF InputPort, TrackFlags, Done
  <2>3. \A S : <<>> \in Seq(S)
    OBVIOUS
  <2> HIDE DEF p
  <2>4. IsSeq(p.queue)
    BY <2>1, <2>3 DEF IsSeq
  <2>5. p.queue \in Seq(Data) /\ p.filled \in 0 .. p.size
    BY <1>2, <2>1, <2>3
  <2>6. Exposed(p)
    BY <2>1, <2>2 DEF Exposed
  <2> QED
    BY <1>2, <2>1, <2>2, <2>4, <2>5, <2>6 DEF Port
<1> HIDE DEF p
<1>7. Made(c)
  BY <1>2, <1>3, <1>4, <1>5, <1>6 DEF Made
<1>8. Mix(c)
  BY <1>3, <1>4, <1>6, <1>7 DEF Mix
<1>9. Mixing(c)
  <2>1. Staged(c.state)
    BY <1>3 DEF Staged
  <2>2. \A i \in DOMAIN c.in : Port(c.in[i]) /\ "PURGING" \notin c.in[i].flags /\ c.avail[i] \in Nat
    BY <1>4, <1>6
  <2> QED
    BY <2>1, <2>2 DEF Mixing
<1> QED
  BY <1>3, <1>8, <1>9 DEF Orderly, Fields

\* A step of a mixer: how its tracks come out of it, and what may put it to
\* sleep.
Follows ==
    /\ Tracks(c, c')
    /\ Mixing(c) /\ OnlyDataIsEmptied =>
        Mixing(c') /\ (Awake(c) => Awake(c') \/ (inbox # <<>> /\ M.op = "FILL" /\ Returns(c, M)))

\* A handled command.
LEMMA MixerCommanded ==
    ASSUME Orderly, DoCommand
    PROVE  Orderly' /\ c.entry = "command" /\ (c'.entry = "command" => Follows)
<1>1. PICK o : Commit(Received(Command(c, M, o), M))
  BY DEF DoCommand
<1> DEFINE r == Command(c, M, o)
           d == Received(r, M)
           given == M.op = "EMPTY" => M \in Data
           because == M.op = "FILL" /\ Returns(c, M)
<1>2. inbox # <<>> /\ c.entry = "command" /\ Mix(c)
  BY DEF DoCommand, Orderly
<1>3. Comes(c, r, given, because)
  BY <1>2, MixerCommands
<1>4. OnlyDataIsEmptied => given
  BY <1>2 DEF OnlyDataIsEmptied, M, Range
<1> HIDE DEF r, given, because
<1>5. Mix(r) /\ r.entry = "command"
  BY <1>2, <1>3 DEF Comes
<1>6. /\ "entry" \in DOMAIN d
      /\ Aside(r, d) \/ d.entry = "gone" \/ (d.entry = "terminate" /\ Mix(d))
  BY <1>5, MixerIsAnswered
<1>7. Commit(d)
  BY <1>1 DEF r
<1> HIDE DEF d
<1>8. /\ "entry" \in DOMAIN c' /\ c'.entry = d.entry
      /\ Made(d) => Level(d, c') /\ c'.state = d.state /\ c'.ret = "ok"
  BY <1>6, <1>7, Committing
<1>9. ASSUME Mix(d) PROVE Comes(d, c', TRUE, FALSE) /\ c'.ret = "ok"
  <2>1. Made(d)
    BY <1>9 DEF Mix
  <2> QED
    BY <1>8, <1>9, <2>1, Unmoved
<1>10. CASE Aside(r, d)
  <2>1. Comes(r, d, TRUE, FALSE)
    BY <1>5, <1>10, Unmoved
  <2>2. Comes(d, c', TRUE, FALSE) /\ c'.ret = "ok"
    BY <1>9, <2>1 DEF Comes
  <2>3. Mix(c') /\ c'.entry = "command"
    BY <1>5, <2>1, <2>2 DEF Comes
  <2>4. Tracks(c, c')
    <3>1. d.in = r.in
      BY <1>10 DEF Aside
    <3>2. c'.in = d.in
      BY <1>8, <1>10 DEF Aside, Level, Beside
    <3> QED
      BY <1>3, <3>1, <3>2 DEF Comes, Tracks
  <2>5. ASSUME Mixing(c), OnlyDataIsEmptied
        PROVE  Mixing(c') /\ (Awake(c) => Awake(c') \/ because)
    BY <1>3, <1>4, <2>1, <2>2, <2>5 DEF Comes
  <2> QED
    BY <1>2, <1>8, <2>2, <2>3, <2>4, <2>5 DEF Orderly, Follows, because
<1>11. CASE d.entry = "gone"
  BY <1>2, <1>8, <1>11 DEF Orderly
<1>12. CASE d.entry = "terminate" /\ Mix(d)
  BY <1>2, <1>8, <1>9, <1>12 DEF Orderly, Comes
<1> QED
  BY <1>6, <1>10, <1>11, <1>12

\* A message while the mixer ends.
LEMMA MixerFinishes ==
    ASSUME Orderly, DoTerminate
    PROVE  Orderly' /\ c'.entry # "command"
<1> DEFINE r == Terminate(c, M)
           d == Received(r, M)
<1>1. c.entry = "terminate" /\ Mix(c)
  BY DEF DoTerminate, Orderly
<1>2. Mix(r) /\ r.entry = "terminate"
  <2>1. r = MixerTerminate(c, M)
    BY <1>1 DEF Terminate, Mix
  <2> QED
    BY <1>1, <2>1, MixerTerminates
<1>3. Commit(d)
  BY DEF DoTerminate
<1> HIDE DEF r
<1>4. /\ "entry" \in DOMAIN d
      /\ Aside(r, d) \/ d.entry = "gone" \/ (d.entry = "terminate" /\ Mix(d))
  BY <1>2, MixerIsAnswered
<1> HIDE DEF d
<1>5. "entry" \in DOMAIN c' /\ c'.entry = d.entry
      /\ (Made(d) => Level(d, c') /\ c'.state = d.state)
  BY <1>3, <1>4, Committing
<1>6. CASE d.entry = "gone"
  BY <1>5, <1>6 DEF Orderly
<1>7. CASE Aside(r, d) \/ (d.entry = "terminate" /\ Mix(d))
  <2>1. Mix(d) /\ d.entry = "terminate"
    <3>1. Aside(r, d) => Comes(r, d, TRUE, FALSE)
      BY <1>2, Unmoved
    <3> QED
      BY <1>2, <1>7, <3>1 DEF Comes
  <2>2. Comes(d, c', TRUE, FALSE)
    BY <1>5, <2>1, Unmoved DEF Mix
  <2> QED
    BY <1>5, <2>1, <2>2 DEF Orderly, Comes
<1> QED
  BY <1>4, <1>6, <1>7

\* A round of processing.
LEMMA MixerRounds ==
    ASSUME Orderly, Process
    PROVE  Orderly' /\ c.entry = "command" /\ Follows
<1> DEFINE p == Preprocess(Take(c))
<1>1. c.entry = "command" /\ Mix(c) /\ c.ret = "ok"
  BY DEF Process, Orderly
<1>2. \E r : /\ \/ r = p /\ p.ret = "no data"
                \/ \E o \in Outcomes(p, Memory) : r = BaseProcess(p, o)
             /\ Commit(r)
  <2>1. PICK r \in IF p.ret = "no data" THEN {p}
                   ELSE {BaseProcess(p, o) : o \in {x \in Outcomes(p, Memory) : x.done => Disarmed}} :
          Commit(r)
    BY DEF Process
  <2> HIDE DEF p
  <2> QED
    BY <2>1
<1>3. PICK r : /\ \/ r = p /\ p.ret = "no data"
                  \/ \E o \in Outcomes(p, Memory) : r = BaseProcess(p, o)
               /\ Commit(r)
  BY <1>2
<1>4. /\ Mix(r) /\ r.entry = c.entry /\ DOMAIN r.in = DOMAIN c.in
      /\ \A i \in DOMAIN c.in : Tame(c.in[i]) => OneState(r.in[i])
      /\ Mixing(c) => Mixing(r) /\ Awake(r)
  BY <1>1, <1>3, MixerProcesses
<1> HIDE DEF p
<1>5. Made(r) /\ "entry" \in DOMAIN r
  BY <1>4 DEF Mix, Made, Fields
<1>6. "entry" \in DOMAIN c' /\ Level(r, c') /\ c'.state = r.state /\ c'.ret = "ok"
  BY <1>3, <1>5, Committing
<1>7. Comes(r, c', TRUE, FALSE) /\ c'.in = r.in
  BY <1>4, <1>6, Unmoved DEF Level, Beside
<1> QED
  BY <1>1, <1>4, <1>6, <1>7 DEF Comes, Orderly, Follows, Tracks, Tame

\* Any step.
LEMMA MixerSteps ==
    ASSUME Orderly, [Next]_vars
    PROVE  /\ Orderly'
           /\ c'.entry = "command" => c.entry = "command" /\ Follows
<1>1. CASE DoCommand
  BY <1>1, MixerCommanded
<1>2. CASE DoTerminate
  BY <1>2, MixerFinishes
<1>3. CASE DoDispatchFailure
  <2>1. PICK s : Commit([c EXCEPT !.sent = s])
    BY <1>3 DEF DoDispatchFailure
  <2> DEFINE r == [c EXCEPT !.sent = s]
  <2>2. "entry" \in DOMAIN r /\ r.entry = "gone"
    BY <1>3 DEF DoDispatchFailure, Orderly
  <2> HIDE DEF r
  <2>3. "entry" \in DOMAIN c' /\ c'.entry = "gone"
    BY <2>1, <2>2, Committing DEF r
  <2> QED
    BY <2>3 DEF Orderly
<1>4. CASE Process
  BY <1>4, MixerRounds
<1>5. ASSUME "entry" \in DOMAIN c', c'.entry = c.entry, Mix(c) => Aside(c, c') /\ c'.ret = c.ret
      PROVE  Orderly' /\ (c'.entry = "command" => c.entry = "command" /\ Follows)
  <2>1. Mix(c) => Comes(c, c', TRUE, FALSE)
    BY <1>5, Unmoved
  <2> QED
    BY <1>5, <2>1 DEF Orderly, Follows, Comes
<1>6. CASE Interrupt
  <2>1. c' = [c EXCEPT !.irq = TRUE]
    BY <1>6 DEF Interrupt
  <2>2. "entry" \in DOMAIN c' /\ c'.entry = c.entry
    BY <2>1 DEF Orderly
  <2>3. Made(c) => Aside(c, c') /\ c'.ret = c.ret
    BY <2>1 DEF Made, Fields, Aside, Alike
  <2> QED
    BY <1>5, <2>2, <2>3 DEF Mix
<1>7. CASE UNCHANGED c
  <2>1. Made(c) => Aside(c, c')
    BY <1>7 DEF Aside, Alike, Made
  <2> QED
    BY <1>5, <1>7, <2>1 DEF Mix, Orderly
<1>8. DoCommand \/ DoTerminate \/ DoDispatchFailure \/ Process \/ Interrupt \/ UNCHANGED c
  BY DEF Next, vars, Handle, AppSetParam, AppStart, AppInput, AppInputOver, AppOutput, AppProbe,
         AppRoute, AppUnroute, AppPause, AppResume, AppUnregister, Send,
         FeedData, FeedOver, FeedFlush, Feed, FeedGone, SinkAnswer, SinkGone
<1> QED
  BY <1>1, <1>2, <1>3, <1>4, <1>6, <1>7, <1>8

-----------------------------------------------------------------------------
(* The theorems *)

\* A mixer stays one, in order.
LEMMA MixerInvariant ==
    ASSUME \A k \in Kinds : k.class = "mixer"
    PROVE  /\ Spec => []Orderly
           /\ Spec /\ []OnlyDataIsEmptied => [](c.entry = "command" => Mixing(c))
<1>1. Init => Orderly /\ (c.entry = "command" => Mixing(c))
  BY MixerStarts
<1>2. Orderly /\ [Next]_vars => Orderly'
  BY MixerSteps
<1>3. /\ Orderly /\ (c.entry = "command" => Mixing(c)) /\ OnlyDataIsEmptied /\ [Next]_vars
      => (c.entry = "command" => Mixing(c))'
  BY MixerSteps DEF Follows
<1>4. Spec => []Orderly
  BY <1>1, <1>2, PTL DEF Spec
<1>5. Spec /\ []OnlyDataIsEmptied => [](c.entry = "command" => Mixing(c))
  BY <1>1, <1>3, <1>4, PTL DEF Spec
<1> QED
  BY <1>4, <1>5

\* A track of a mixer is idle, active or paused (XA_TRACK_FLAG_IDLE, _ACTIVE
\* and _PAUSED of xa-class-mixer.c), and this is lost in one way only: a
\* track that is paused when its end is reached is made idle as well
\* (xa-class-mixer.c:1093). Where that does not happen it is an invariant.
\* This holds for any number of tracks, for buffers of any length and for
\* messages in any order.
THEOREM OneWayToLoseTheTrackState ==
    ASSUME \A k \in Kinds : k.class = "mixer"
    PROVE  /\ Spec => [][OneTrackState /\ ~OneTrackState' => \E i \in DOMAIN c.in : EndsPaused(c.in[i])]_vars
           /\ Spec /\ [](\A i \in DOMAIN c.in : ~EndsPaused(c.in[i])) => []OneTrackState
<1> DEFINE Ends == \E i \in DOMAIN c.in : EndsPaused(c.in[i])
<1>1. Orderly /\ [Next]_vars => (OneTrackState /\ ~OneTrackState' => Ends)
  <2> SUFFICES ASSUME Orderly, [Next]_vars, OneTrackState, ~OneTrackState'
               PROVE  \E i \in DOMAIN c.in : EndsPaused(c.in[i])
    OBVIOUS
  <2>1. c'.entry = "command" /\ \E i \in DOMAIN c'.in : ~OneState(c'.in[i])
    BY DEF OneTrackState, OneState
  <2>2. c.entry = "command" /\ Mix(c) /\ Follows
    BY <2>1, MixerSteps DEF Orderly
  <2>3. \A i \in DOMAIN c.in : OneState(c.in[i])
    BY <2>2 DEF OneTrackState, OneState, Mix
  <2> QED
    BY <2>1, <2>2, <2>3 DEF Follows, Tracks
<1>2. Init => OneTrackState
  <2>1. ASSUME Init, NEW i \in DOMAIN c.in PROVE OneState(c.in[i])
    <3>1. PICK k \in Kinds : c = Component(k)
      BY <2>1 DEF Init
    <3>2. c.in[i].flags = {"CREATED", "ENABLED"} \cup {"IDLE"}
      BY <2>1, <3>1 DEF Component, InputPort, TrackFlags
    <3> QED
      BY <3>2, OneOfThree
  <2> QED
    BY <2>1 DEF OneTrackState, OneState
<1>3. Ends <=> ~(\A i \in DOMAIN c.in : ~EndsPaused(c.in[i]))
  OBVIOUS
<1> HIDE DEF Ends
<1>4. Spec => [][OneTrackState /\ ~OneTrackState' => Ends]_vars
  BY <1>1, MixerInvariant, PTL DEF Spec
<1>5. Spec /\ [](\A i \in DOMAIN c.in : ~EndsPaused(c.in[i])) => []OneTrackState
  BY <1>1, <1>2, <1>3, MixerInvariant, PTL DEF Spec
<1> QED
  BY <1>4, <1>5 DEF Ends

\* The buffer comes back that ends the flush of a mixer's output.
FlushReturns == inbox # <<>> /\ M.op = "FILL" /\ Returns(c, M)

\* A mixer that could process is going to: its wake-up is lost in one way
\* only, when the buffer that ends the flush of its routed output comes back
\* while it executes, which does not schedule it (xa-class-mixer.c:381). Where
\* that does not happen, the wake-ups are an invariant. This holds for any
\* number of tracks and buffers of any length, as long as no buffer of a pool
\* comes back as a message with data.
THEOREM OneWayToLoseAWakeup ==
    ASSUME \A k \in Kinds : k.class = "mixer"
    PROVE  /\ Spec /\ []OnlyDataIsEmptied =>
                [][FlagMatchesTree /\ FlagMatchesTree' /\ NoLostWakeup /\ ~NoLostWakeup' => FlushReturns]_vars
           /\ Spec /\ []OnlyDataIsEmptied /\ []FlagMatchesTree /\ []~FlushReturns => []NoLostWakeup
<1>1. MixerCould /\ c.entry = "command" /\ Mix(c) <=> Could(c) /\ c.entry = "command" /\ Mix(c)
  BY DEF MixerCould, Could, Fed, Loaded, Mix, Done
<1>2. Mix(c) => ~CodecCould
  BY DEF Mix, CodecCould
<1>3. Mix(c) /\ c.entry = "command" /\ FlagMatchesTree => (NoLostWakeup <=> Awake(c))
  BY <1>1, <1>2 DEF NoLostWakeup, Awake, FlagMatchesTree
<1>4. (Mix(c) /\ c.entry = "command" /\ FlagMatchesTree => (NoLostWakeup <=> Awake(c)))'
  BY <1>3, PTL
<1> DEFINE IInv == Orderly /\ (c.entry = "command" => Mixing(c))
<1>5. IInv /\ OnlyDataIsEmptied /\ [Next]_vars =>
        (FlagMatchesTree /\ FlagMatchesTree' /\ NoLostWakeup /\ ~NoLostWakeup' => FlushReturns)
  <2> SUFFICES ASSUME Orderly, c.entry = "command" => Mixing(c), OnlyDataIsEmptied, [Next]_vars,
                      FlagMatchesTree, FlagMatchesTree', NoLostWakeup, ~NoLostWakeup'
               PROVE  FlushReturns
    OBVIOUS
  <2>1. c'.entry = "command"
    BY DEF NoLostWakeup
  <2>2. c.entry = "command" /\ Mix(c) /\ Follows /\ Orderly'
    BY <2>1, MixerSteps DEF Orderly
  <2>3. Mix(c)'
    BY <2>1, <2>2 DEF Orderly
  <2>4. Awake(c) /\ ~(Awake(c))'
    BY <1>3, <1>4, <2>1, <2>2, <2>3
  <2> QED
    BY <2>2, <2>4 DEF Follows, FlushReturns
<1>6. Init => NoLostWakeup
  <2>1. ASSUME Init PROVE c.class = "mixer" /\ ~Has(c, "EXECUTION")
    <3>1. PICK k \in Kinds : c = Component(k)
      BY <2>1 DEF Init
    <3> QED
      BY <3>1 DEF Component, Has
  <2> QED
    BY <2>1 DEF NoLostWakeup, MixerCould, CodecCould
<1>7. Spec /\ []OnlyDataIsEmptied => []IInv
  BY MixerInvariant, PTL
<1> HIDE DEF IInv
<1>8. Spec /\ []OnlyDataIsEmptied =>
        [][FlagMatchesTree /\ FlagMatchesTree' /\ NoLostWakeup /\ ~NoLostWakeup' => FlushReturns]_vars
  BY <1>5, <1>7, PTL DEF Spec
<1>9. Spec /\ []OnlyDataIsEmptied /\ []FlagMatchesTree /\ []~FlushReturns => []NoLostWakeup
  BY <1>5, <1>6, <1>7, PTL DEF Spec
<1> QED
  BY <1>8, <1>9
=============================================================================
