--------------------------- MODULE ConformanceProofs --------------------------
(*****************************************************************************)
(* HarnessSurvives: the harness survives the conformance suite, for every set*)
(* of faults, both drivers and all bounds.                                   *)
(*****************************************************************************)
EXTENDS ScriptProofs

-----------------------------------------------------------------------------
(* Flows.                                                                  *)

\* A sequence whose entries are changed one by one is a sequence.
LEMMA SeqChanged ==
    ASSUME NEW q, NEW r, IsSeq(q), DOMAIN r = DOMAIN q, r = [i \in DOMAIN q |-> r[i]]
    PROVE  IsSeq(r) /\ Len(r) = Len(q)
<1>1. DOMAIN q = 1 .. Len(q) /\ Len(q) \in Nat
  BY SeqLen
<1>2. PICK n : n = Len(q)
  OBVIOUS
<1>3. n \in Nat /\ r = [i \in 1 .. n |-> r[i]] /\ DOMAIN r = 1 .. n
  BY <1>1, <1>2
<1>4. r \in Seq({r[i] : i \in DOMAIN r}) /\ Len(r) = n
  BY ONLY <1>3
<1> QED BY <1>2, <1>4 DEF IsSeq

\* A part of a sequence.
LEMMA SeqPart ==
    ASSUME NEW q, IsSeq(q), NEW a \in Nat \ {0}, NEW b \in 0 .. Len(q)
    PROVE  /\ IsSeq(SubSeq(q, a, b))
           /\ a > b => SubSeq(q, a, b) = <<>>
           /\ \A i \in DOMAIN SubSeq(q, a, b) : \E g \in DOMAIN q : SubSeq(q, a, b)[i] = q[g]
<1> DEFINE T == {q[i] : i \in DOMAIN q}
<1>1. q \in Seq(T) /\ Len(q) \in Nat /\ DOMAIN q = 1 .. Len(q)
  BY SeqLen DEF IsSeq
<1> HIDE DEF T
<1>2. CASE a > b
  <2>1. SubSeq(q, a, b) = <<>>
    BY <1>1, <1>2
  <2>2. IsSeq(<<>>)
    BY ShortParts
  <2> QED BY <2>1, <2>2, <1>2
<1>3. CASE a <= b
  <2>1. \A i \in a .. b : q[i] \in T
    BY <1>1, <1>3 DEF T
  <2>2. SubSeq(q, a, b) \in Seq(T) /\ Len(SubSeq(q, a, b)) = b - a + 1
        /\ \A i \in 1 .. b - a + 1 : SubSeq(q, a, b)[i] = q[a + i - 1]
    BY <1>1, <1>3, SubSeqProperties
  <2>3. DOMAIN SubSeq(q, a, b) = 1 .. b - a + 1
    BY <2>2
  <2>4. ASSUME NEW i \in 1 .. b - a + 1
        PROVE  \E g \in DOMAIN q : SubSeq(q, a, b)[i] = q[g]
    <3>1. a + i - 1 \in DOMAIN q /\ SubSeq(q, a, b)[i] = q[a + i - 1]
      BY <1>1, <1>3, <2>2
    <3> QED BY <3>1
  <2>5. IsSeq(SubSeq(q, a, b))
    BY <2>2, SeqIs
  <2> QED BY <1>3, <2>3, <2>4, <2>5
<1> QED BY <1>1, <1>2, <1>3

\* One entry is replaced, or added at the end.
Replaced(q, p, x, f) == p \o <<x>> \o SubSeq(q, f + 1, Len(q))
EntriesOf(p, q) == \A i \in DOMAIN p : \E g \in DOMAIN q : p[i] = q[g]

\* A replaced entry is new or one of the old ones; the others are old.
LEMMA SeqReplaced ==
    ASSUME NEW q, NEW p, IsSeq(q), IsSeq(p), NEW x, NEW f \in 1 .. Len(q) + 1, EntriesOf(p, q)
    PROVE  LET r == Replaced(q, p, x, f) IN
           /\ IsSeq(r)
           /\ \A i \in DOMAIN r : r[i] = x \/ \E g \in DOMAIN q : r[i] = q[g]
<1>1. Len(q) \in Nat /\ f + 1 \in Nat \ {0} /\ Len(q) \in 0 .. Len(q)
  BY SeqLen
<1>2. PICK t : t = SubSeq(q, f + 1, Len(q))
  OBVIOUS
<1>3. IsSeq(t) /\ \A i \in DOMAIN t : \E g \in DOMAIN q : t[i] = q[g]
  BY <1>1, <1>2, SeqPart
<1>4. PICK y : y = <<x>>
  OBVIOUS
<1>5. IsSeq(y) /\ Len(y) = 1 /\ y[1] = x /\ DOMAIN y = 1 .. 1
  BY <1>4, ShortParts, SeqLen
<1>6. /\ IsSeq(p \o y) /\ Len(p \o y) = Len(p) + 1
      /\ \A i \in 1 .. Len(p) : (p \o y)[i] = p[i]
      /\ (p \o y)[Len(p) + 1] = x
  <2>1. /\ IsSeq(p \o y) /\ Len(p \o y) = Len(p) + Len(y)
        /\ \A i \in 1 .. Len(p) : (p \o y)[i] = p[i]
        /\ \A i \in 1 .. Len(y) : (p \o y)[Len(p) + i] = y[i]
    <3>1. IsSeq(p) /\ IsSeq(y)
      BY <1>5
    <3> QED BY ONLY <3>1, SeqConcat
  <2>2. 1 \in 1 .. Len(y)
    BY <1>5
  <2>3. (p \o y)[Len(p) + 1] = x
    BY <1>5, <2>1, <2>2
  <2> QED BY <1>5, <2>1, <2>3
<1>7. PICK z : z = p \o y
  OBVIOUS
<1>8. /\ IsSeq(z \o t) /\ DOMAIN (z \o t) = 1 .. Len(z) + Len(t)
      /\ \A i \in 1 .. Len(z) : (z \o t)[i] = z[i]
      /\ \A i \in 1 .. Len(t) : (z \o t)[Len(z) + i] = t[i]
  BY <1>3, <1>6, <1>7, SeqConcat
<1>9. /\ Len(p) \in Nat /\ Len(z) = Len(p) + 1 /\ Len(t) \in Nat
      /\ DOMAIN p = 1 .. Len(p) /\ DOMAIN t = 1 .. Len(t)
  BY <1>3, <1>6, <1>7, SeqLen
<1>10. ASSUME NEW i \in 1 .. Len(z) + Len(t)
       PROVE  (z \o t)[i] = x \/ \E g \in DOMAIN q : (z \o t)[i] = q[g]
  <2>1. CASE i \in 1 .. Len(p)
    <3>1. (z \o t)[i] = p[i] /\ i \in DOMAIN p
      BY <2>1, <1>6, <1>7, <1>8, <1>9
    <3> QED BY <3>1 DEF EntriesOf
  <2>2. CASE i = Len(p) + 1
    BY <2>2, <1>6, <1>7, <1>8, <1>9
  <2>3. CASE i > Len(p) + 1
    <3>1. i - Len(z) \in 1 .. Len(t) /\ Len(z) + (i - Len(z)) = i
      BY <2>3, <1>9
    <3>2. (z \o t)[i] = t[i - Len(z)] /\ i - Len(z) \in DOMAIN t
      BY <3>1, <1>8, <1>9
    <3> QED BY <3>2, <1>3
  <2> QED BY <2>1, <2>2, <2>3, <1>9
<1> QED BY <1>2, <1>4, <1>7, <1>8, <1>10 DEF Replaced

\* A flow that starts has a scenario and its code.
AsStarted(fl, a, b) == [fl EXCEPT !.scenario = a, !.todo = b]

\* What changes in a flow that has chosen its scenario.
LEMMA FlowStarted ==
    ASSUME NEW fl, FlowShape(fl), NEW a, NEW b
    PROVE  LET x == AsStarted(fl, a, b) IN
           /\ FlowShape(x)
           /\ x.kind = fl.kind /\ x.request = fl.request /\ x.session = fl.session
           /\ x.scenario = a /\ x.todo = b /\ x.status = fl.status
           /\ x.cancelled = fl.cancelled /\ x.answer = fl.answer /\ x.count = fl.count
<1>1. DOMAIN fl = {"kind", "request", "session", "scenario", "todo", "status",
                   "cancelled", "answer", "count"}
  BY DEF FlowShape
<1>2. PICK x : x = [fl EXCEPT !.scenario = a, !.todo = b]
  OBVIOUS
<1>3. /\ x.kind = fl.kind /\ x.request = fl.request /\ x.session = fl.session
      /\ x.scenario = a /\ x.todo = b /\ x.status = fl.status
      /\ x.cancelled = fl.cancelled /\ x.answer = fl.answer /\ x.count = fl.count
  BY <1>1, <1>2
<1>4. FlowShape(x)
  BY <1>1, <1>2 DEF FlowShape
<1> QED BY <1>2, <1>3, <1>4 DEF AsStarted

\* A flow that branches has another code.
AsBranched(fl, a) == [fl EXCEPT !.todo = a]

\* What changes in a flow that takes a branch.
LEMMA FlowBranched ==
    ASSUME NEW fl, FlowShape(fl), NEW a
    PROVE  LET x == AsBranched(fl, a) IN
           /\ FlowShape(x)
           /\ x.kind = fl.kind /\ x.request = fl.request /\ x.session = fl.session
           /\ x.scenario = fl.scenario /\ x.todo = a /\ x.status = fl.status
           /\ x.cancelled = fl.cancelled /\ x.answer = fl.answer /\ x.count = fl.count
<1>1. DOMAIN fl = {"kind", "request", "session", "scenario", "todo", "status",
                   "cancelled", "answer", "count"}
  BY DEF FlowShape
<1>2. PICK x : x = [fl EXCEPT !.todo = a]
  OBVIOUS
<1>3. /\ x.kind = fl.kind /\ x.request = fl.request /\ x.session = fl.session
      /\ x.scenario = fl.scenario /\ x.todo = a /\ x.status = fl.status
      /\ x.cancelled = fl.cancelled /\ x.answer = fl.answer /\ x.count = fl.count
  BY <1>1, <1>2
<1>4. FlowShape(x)
  BY <1>1, <1>2 DEF FlowShape
<1> QED BY <1>2, <1>3, <1>4 DEF AsBranched

\* A flow that ran has less to do.
AsRan(fl, a, b, c) == [fl EXCEPT !.todo = a, !.status = b, !.count = c]

\* What changes in a flow that ran to its next await.
LEMMA FlowRan ==
    ASSUME NEW fl, FlowShape(fl), NEW a, NEW b, NEW c
    PROVE  LET x == AsRan(fl, a, b, c) IN
           /\ FlowShape(x)
           /\ x.kind = fl.kind /\ x.request = fl.request /\ x.session = fl.session
           /\ x.scenario = fl.scenario /\ x.todo = a /\ x.status = b
           /\ x.cancelled = fl.cancelled /\ x.answer = fl.answer /\ x.count = c
<1>1. DOMAIN fl = {"kind", "request", "session", "scenario", "todo", "status",
                   "cancelled", "answer", "count"}
  BY DEF FlowShape
<1>2. PICK x : x = [fl EXCEPT !.todo = a, !.status = b, !.count = c]
  OBVIOUS
<1>3. /\ x.kind = fl.kind /\ x.request = fl.request /\ x.session = fl.session
      /\ x.scenario = fl.scenario /\ x.todo = a /\ x.status = b
      /\ x.cancelled = fl.cancelled /\ x.answer = fl.answer /\ x.count = c
  BY <1>1, <1>2
<1>4. FlowShape(x)
  BY <1>1, <1>2 DEF FlowShape
<1> QED BY <1>2, <1>3, <1>4 DEF AsRan

\* A flow that was answered.
AsAnswered(fl, a, b) == [fl EXCEPT !.status = a, !.answer = b]

\* What changes in a flow whose call is answered.
LEMMA FlowAnswered ==
    ASSUME NEW fl, FlowShape(fl), NEW a, NEW b
    PROVE  LET x == AsAnswered(fl, a, b) IN
           /\ FlowShape(x)
           /\ x.kind = fl.kind /\ x.request = fl.request /\ x.session = fl.session
           /\ x.scenario = fl.scenario /\ x.todo = fl.todo /\ x.status = a
           /\ x.cancelled = fl.cancelled /\ x.answer = b /\ x.count = fl.count
<1>1. DOMAIN fl = {"kind", "request", "session", "scenario", "todo", "status",
                   "cancelled", "answer", "count"}
  BY DEF FlowShape
<1>2. PICK x : x = [fl EXCEPT !.status = a, !.answer = b]
  OBVIOUS
<1>3. /\ x.kind = fl.kind /\ x.request = fl.request /\ x.session = fl.session
      /\ x.scenario = fl.scenario /\ x.todo = fl.todo /\ x.status = a
      /\ x.cancelled = fl.cancelled /\ x.answer = b /\ x.count = fl.count
  BY <1>1, <1>2
<1>4. FlowShape(x)
  BY <1>1, <1>2 DEF FlowShape
<1> QED BY <1>2, <1>3, <1>4 DEF AsAnswered

\* A flow of another status.
AsTurned(fl, a) == [fl EXCEPT !.status = a]

\* What changes in a flow whose status changes.
LEMMA FlowTurned ==
    ASSUME NEW fl, FlowShape(fl), NEW a
    PROVE  LET x == AsTurned(fl, a) IN
           /\ FlowShape(x)
           /\ x.kind = fl.kind /\ x.request = fl.request /\ x.session = fl.session
           /\ x.scenario = fl.scenario /\ x.todo = fl.todo /\ x.status = a
           /\ x.cancelled = fl.cancelled /\ x.answer = fl.answer /\ x.count = fl.count
<1>1. DOMAIN fl = {"kind", "request", "session", "scenario", "todo", "status",
                   "cancelled", "answer", "count"}
  BY DEF FlowShape
<1>2. PICK x : x = [fl EXCEPT !.status = a]
  OBVIOUS
<1>3. /\ x.kind = fl.kind /\ x.request = fl.request /\ x.session = fl.session
      /\ x.scenario = fl.scenario /\ x.todo = fl.todo /\ x.status = a
      /\ x.cancelled = fl.cancelled /\ x.answer = fl.answer /\ x.count = fl.count
  BY <1>1, <1>2
<1>4. FlowShape(x)
  BY <1>1, <1>2 DEF FlowShape
<1> QED BY <1>2, <1>3, <1>4 DEF AsTurned

\* A flow that was cancelled.
AsCancelled(fl, a) == [fl EXCEPT !.cancelled = a]

\* What changes in a flow that is cancelled.
LEMMA FlowCancelled ==
    ASSUME NEW fl, FlowShape(fl), NEW a
    PROVE  LET x == AsCancelled(fl, a) IN
           /\ FlowShape(x)
           /\ x.kind = fl.kind /\ x.request = fl.request /\ x.session = fl.session
           /\ x.scenario = fl.scenario /\ x.todo = fl.todo /\ x.status = fl.status
           /\ x.cancelled = a /\ x.answer = fl.answer /\ x.count = fl.count
<1>1. DOMAIN fl = {"kind", "request", "session", "scenario", "todo", "status",
                   "cancelled", "answer", "count"}
  BY DEF FlowShape
<1>2. PICK x : x = [fl EXCEPT !.cancelled = a]
  OBVIOUS
<1>3. /\ x.kind = fl.kind /\ x.request = fl.request /\ x.session = fl.session
      /\ x.scenario = fl.scenario /\ x.todo = fl.todo /\ x.status = fl.status
      /\ x.cancelled = a /\ x.answer = fl.answer /\ x.count = fl.count
  BY <1>1, <1>2
<1>4. FlowShape(x)
  BY <1>1, <1>2 DEF FlowShape
<1> QED BY <1>2, <1>3, <1>4 DEF AsCancelled

\* A new flow.
IsCode(t) == IsSeq(t) /\ t # <<>> /\ \A i \in DOMAIN t : IsSegment(t[i])

\* A new flow with code is a flow.
LEMMA FlowIsNew ==
    ASSUME NEW kind, NEW id, NEW t, IsCode(t), NEW x, x = NewFlow(kind, id, 1, t)
    PROVE  IsFlow(x)
<1>1. /\ FlowShape(x) /\ x.kind = kind /\ x.request = id /\ x.session = 1
      /\ x.todo = t /\ x.status = "ready" /\ x.cancelled = FALSE
  BY DEF NewFlow, FlowShape
<1>2. IsFlow(x)
  BY <1>1 DEF IsFlow, IsCode
<1> QED BY <1>2

\* Code of one segment.
LEMMA OneSegment ==
    ASSUME NEW g, IsSegment(g)
    PROVE  LET t == <<g>> IN
           /\ IsSeq(t) /\ Len(t) = 1 /\ DOMAIN t = {1} /\ t # <<>> /\ t[1] = g
           /\ IsCode(t) /\ Tail(t) = <<>>
<1>1. PICK t : t = <<g>>
  OBVIOUS
<1>2. t \in Seq({g}) /\ Len(t) = 1 /\ DOMAIN t = {1} /\ t # <<>> /\ t[1] = g /\ Tail(t) = <<>>
  BY <1>1
<1> QED BY <1>1, <1>2, SeqIs DEF IsCode

-----------------------------------------------------------------------------
(* Code that asks nothing.                                                 *)

\* Code that asks nothing.
HarmlessSegment(g) == IsSegment(g) /\ g.op \in HarmlessOps
HarmlessCode(t) == IsSeq(t) /\ t # <<>> /\ \A i \in DOMAIN t : HarmlessSegment(t[i])

\* What the segments are, and which of them are harmless.
LEMMA SegmentIs ==
    /\ \A op, what, push : /\ IsSegment(Segment(op, what, push))
                           /\ Segment(op, what, push).op = op
                           /\ Segment(op, what, push).what = what
                           /\ Segment(op, what, push).push = push
    /\ \A k : HarmlessSegment(Say(k)) /\ HarmlessSegment(Reply(k))
    /\ \A k, r : HarmlessSegment(SayNew(k, r))
    /\ HarmlessSegment(Goto("loop")) /\ HarmlessSegment(Goto("entries"))
    /\ HarmlessSegment(Segment("bad", "none", "none"))
    /\ HarmlessSegment(Segment("illegal", "none", "none"))
BY DEF IsSegment, Segment, HarmlessSegment, HarmlessOps, Say, SayNew, Reply, Goto

\* Code of one to four harmless segments is harmless.
LEMMA HarmlessTuples ==
    ASSUME NEW a, NEW b, NEW c, NEW d,
           HarmlessSegment(a), HarmlessSegment(b), HarmlessSegment(c), HarmlessSegment(d)
    PROVE  /\ HarmlessCode(<<a>>) /\ HarmlessCode(<<a, b>>)
           /\ HarmlessCode(<<a, b, c>>) /\ HarmlessCode(<<a, b, c, d>>)
<1>1. HarmlessCode(<<a>>)
  <2>1. PICK t : t = <<a>>
    OBVIOUS
  <2>2. t \in Seq({a}) /\ Len(t) = 1 /\ DOMAIN t = {1} /\ t[1] = a
    BY <2>1
  <2> QED BY <2>1, <2>2, SeqIs DEF HarmlessCode
<1>2. HarmlessCode(<<a, b>>)
  <2>1. PICK t : t = <<a, b>>
    OBVIOUS
  <2>2. t \in Seq({a, b}) /\ Len(t) = 2 /\ DOMAIN t = {1, 2} /\ t[1] = a /\ t[2] = b
    BY <2>1
  <2> QED BY <2>1, <2>2, SeqIs DEF HarmlessCode
<1>3. HarmlessCode(<<a, b, c>>)
  <2>1. PICK t : t = <<a, b, c>>
    OBVIOUS
  <2>2. /\ t \in Seq({a, b, c}) /\ Len(t) = 3 /\ DOMAIN t = {1, 2, 3}
        /\ t[1] = a /\ t[2] = b /\ t[3] = c
    BY <2>1
  <2> QED BY <2>1, <2>2, SeqIs DEF HarmlessCode
<1>4. HarmlessCode(<<a, b, c, d>>)
  <2>1. PICK t : t = <<a, b, c, d>>
    OBVIOUS
  <2>2. /\ t \in Seq({a, b, c, d}) /\ Len(t) = 4 /\ DOMAIN t = {1, 2, 3, 4}
        /\ t[1] = a /\ t[2] = b /\ t[3] = c /\ t[4] = d
    BY <2>1
  <2> QED BY <2>1, <2>2, SeqIs DEF HarmlessCode
<1> QED BY <1>1, <1>2, <1>3, <1>4

\* Harmless code put together is harmless.
LEMMA HarmlessJoin ==
    ASSUME NEW x, NEW y, HarmlessCode(x), HarmlessCode(y) \/ y = <<>>
    PROVE  HarmlessCode(x \o y)
<1>1. IsSeq(x) /\ IsSeq(y) /\ x # <<>>
  BY ShortParts DEF HarmlessCode
<1>2. \A i \in DOMAIN y : HarmlessSegment(y[i])
  BY DEF HarmlessCode
<1>3. Len(x) \in Nat /\ Len(x) # 0 /\ Len(y) \in Nat /\ DOMAIN x = 1 .. Len(x) /\ DOMAIN y = 1 .. Len(y)
  BY <1>1, SeqLen
<1>4. /\ IsSeq(x \o y) /\ Len(x \o y) = Len(x) + Len(y) /\ DOMAIN (x \o y) = 1 .. Len(x) + Len(y)
      /\ \A i \in 1 .. Len(x) : (x \o y)[i] = x[i]
      /\ \A i \in 1 .. Len(y) : (x \o y)[Len(x) + i] = y[i]
  BY ONLY <1>1, SeqConcat
<1>5. ASSUME NEW i \in 1 .. Len(x) + Len(y) PROVE HarmlessSegment((x \o y)[i])
  <2>1. CASE i \in 1 .. Len(x)
    BY <2>1, <1>3, <1>4 DEF HarmlessCode
  <2>2. CASE i \notin 1 .. Len(x)
    <3>1. i - Len(x) \in 1 .. Len(y) /\ Len(x) + (i - Len(x)) = i
      BY <1>3, <2>2
    <3> QED BY <1>2, <1>3, <1>4, <3>1
  <2> QED BY <2>1, <2>2
<1>6. x \o y # <<>>
  BY <1>3, <1>4, SeqLen
<1> QED BY <1>4, <1>5, <1>6 DEF HarmlessCode

\* The code that asks nothing: replies, rejection, the default and cancel scenarios.
LEMMA HarmlessCodes ==
    /\ \A stop : HarmlessCode(V1Reply(stop))
    /\ HarmlessCode(RejectedV1)
    /\ HarmlessCode(DefaultV1) /\ HarmlessCode(DefaultV2) /\ HarmlessCode(CancelV2)
    /\ \A k : HarmlessCode(<<Say(k)>>) /\ HarmlessCode(<<Reply(k)>>)
<1>1. HarmlessCode(TrailingFault) \/ TrailingFault = <<>>
  BY SegmentIs, HarmlessTuples DEF TrailingFault
<1>2. ASSUME NEW stop PROVE HarmlessCode(V1Reply(stop))
  <2>1. PICK r : r = IF "omit-v1-prompt-stop-reason" \in faults THEN "no_stop_reason" ELSE stop
    OBVIOUS
  <2>2. HarmlessCode(<<Reply(r)>>)
    BY SegmentIs, HarmlessTuples
  <2>3. HarmlessCode(<<Reply(r)>> \o TrailingFault)
    BY <1>1, <2>2, HarmlessJoin
  <2> QED BY <2>1, <2>3 DEF V1Reply
<1>3. HarmlessCode(RejectedV1)
  <2>1. PICK x : x = <<SayNew("tool_call_update", "agent"), Say("agent_message_chunk")>>
    OBVIOUS
  <2>2. HarmlessCode(x)
    BY <2>1, SegmentIs, HarmlessTuples
  <2>3. HarmlessCode(x \o V1Reply("end_turn"))
    BY <1>2, <2>2, HarmlessJoin
  <2> QED BY <2>1, <2>3 DEF RejectedV1
<1>4. HarmlessCode(DefaultV1)
  <2>1. PICK x : x = <<SayNew("user_message_chunk", "user"), SayNew("agent_message_chunk", "agent")>>
    OBVIOUS
  <2>2. HarmlessCode(x)
    BY <2>1, SegmentIs, HarmlessTuples
  <2>3. HarmlessCode(x \o V1Reply("end_turn"))
    BY <1>2, <2>2, HarmlessJoin
  <2> QED BY <2>1, <2>3 DEF DefaultV1
<1>5. HarmlessCode(DefaultV2)
  BY SegmentIs, HarmlessTuples DEF DefaultV2
<1>6. HarmlessCode(CancelV2)
  BY SegmentIs, HarmlessTuples DEF CancelV2
<1>7. \A k : HarmlessCode(<<Say(k)>>) /\ HarmlessCode(<<Reply(k)>>)
  BY SegmentIs, HarmlessTuples
<1> QED BY <1>2, <1>3, <1>4, <1>5, <1>6, <1>7

\* A run of such code ends before it asks anything.
LEMMA HarmlessBranch ==
    ASSUME NEW fl, IsFlow(fl), fl.todo # <<>>, NeverAsks(fl)
    PROVE  LET b == Branch(fl) IN
           /\ FlowShape(b) /\ b.session = 1
           /\ IsSeq(b.todo) /\ b.todo # <<>>
           /\ \A i \in DOMAIN b.todo : IsSegment(b.todo[i]) /\ (i # 1 => b.todo[i].op \in HarmlessOps)
           /\ b.todo[1].op # "ask"
           /\ b.todo[1].op = "sleep" => Len(b.todo) # 1
<1> DEFINE Good(t) == /\ IsSeq(t) /\ t # <<>>
                      /\ \A i \in DOMAIN t : IsSegment(t[i]) /\ (i # 1 => t[i].op \in HarmlessOps)
                      /\ t[1].op # "ask"
                      /\ t[1].op = "sleep" => Len(t) # 1
<1>1. ASSUME NEW t, HarmlessCode(t) PROVE Good(t)
  <2>1. 1 \in DOMAIN t
    BY <1>1, SeqLen DEF HarmlessCode
  <2> QED BY <1>1, <2>1 DEF HarmlessCode, HarmlessSegment, HarmlessOps
<1>2. ASSUME NEW t, NEW g, NEW h, t = <<g, h>>, IsSegment(g), g.op # "ask", HarmlessSegment(h)
      PROVE  Good(t)
  <2>1. IsSeq(t) /\ Len(t) = 2 /\ t[1] = g /\ t[2] = h
    BY <1>2, ShortParts
  <2>2. DOMAIN t = {1, 2} /\ t # <<>>
    BY <2>1, SeqLen
  <2> QED BY <1>2, <2>1, <2>2 DEF HarmlessSegment
<1> HIDE DEF Good
<1>3. FlowShape(fl) /\ fl.session = 1 /\ IsSeq(fl.todo) /\ 1 \in DOMAIN fl.todo
  BY SeqLen DEF IsFlow
<1>4. PICK o : o = fl.todo[1].op
  OBVIOUS
<1>8. \A l : fl.todo = <<Goto(l)>> => o = l
  <2>1. \A g : <<g>>[1] = g
    OBVIOUS
  <2>2. \A l : Goto(l).op = l
    BY DEF Goto, Segment
  <2> QED BY <1>4, <2>1, <2>2
<1>5. CASE o = "start"
  <2>1. 1 \in DOMAIN sessions /\ sessions[1].scenario \in Plain
    <3>1. ~(\A i \in DOMAIN fl.todo : fl.todo[i].op \in HarmlessOps)
      BY <1>3, <1>4, <1>5 DEF HarmlessOps
    <3>2. fl.todo # <<Goto("judgeV1")>>
      BY <1>5, <1>8
    <3> QED BY <3>1, <3>2 DEF NeverAsks
  <2>2. PICK sc : sc = sessions[1].scenario
    OBVIOUS
  <2>3. HarmlessCode(PromptScript(sc))
    BY <2>1, <2>2, HarmlessCodes DEF PromptScript, Plain
  <2>4. Branch(fl) = [fl EXCEPT !.scenario = sc, !.todo = PromptScript(sc)]
    BY <1>3, <1>4, <1>5, <2>2 DEF Branch, StartOf
  <2>5. PICK b : b = Branch(fl)
    OBVIOUS
  <2>7. PICK p : p = PromptScript(sc)
    OBVIOUS
  <2>8. FlowShape(fl) /\ b = AsStarted(fl, sc, p)
    BY <1>3, <2>4, <2>5, <2>7 DEF AsStarted
  <2>9. FlowShape(b) /\ b.session = fl.session /\ b.todo = p
    BY ONLY <2>8, FlowStarted
  <2>6. FlowShape(b) /\ b.session = 1 /\ b.todo = PromptScript(sc)
    BY <1>3, <2>7, <2>9
  <2> QED BY <1>1, <2>3, <2>5, <2>6 DEF Good
<1>6. CASE o \in {"judgeV1", "loop", "entries"}
  <2>1. \E t : Good(t) /\ Branch(fl) = [fl EXCEPT !.todo = t]
    <3>1. CASE o = "judgeV1"
      <4>1. fl.scenario \in {"v1-permission-reject", "v1-permission-cancel"}
        <5>1. ~(\A i \in DOMAIN fl.todo : fl.todo[i].op \in HarmlessOps)
          BY <1>3, <1>4, <3>1 DEF HarmlessOps
        <5>2. fl.todo # <<Goto("start")>>
          BY <3>1, <1>8
        <5> QED BY <5>1, <5>2 DEF NeverAsks
      <4>2. HarmlessCode(<<Segment("bad", "none", "none")>>)
        BY SegmentIs, HarmlessTuples
      <4>3. HarmlessCode(AfterPermissionV1(fl))
        BY <4>1, <4>2, HarmlessCodes DEF AfterPermissionV1
      <4>4. Branch(fl) = [fl EXCEPT !.todo = AfterPermissionV1(fl)]
        BY <1>4, <3>1 DEF Branch
      <4> QED BY <1>1, <4>3, <4>4
    <3>2. CASE o = "loop"
      <4>1. Branch(fl) = [fl EXCEPT !.todo = CancelLoop(fl)]
        BY <1>4, <3>2 DEF Branch
      <4>2. Good(<<Segment("sleep", "none", "none"), Goto("loop")>>)
        BY <1>2, SegmentIs
      <4>3. Good(CancelLoop(fl))
        BY <1>1, <4>2, HarmlessCodes DEF CancelLoop
      <4> QED BY <4>1, <4>3
    <3>3. CASE o = "entries"
      <4>1. Branch(fl) = [fl EXCEPT !.todo = ReplayLoop(fl)]
        BY <1>4, <3>3 DEF Branch
      <4>2. \A k : Good(<<Segment("replay", k, "none"), Goto("entries")>>)
        BY <1>2, SegmentIs
      <4>3. Good(ReplayLoop(fl))
        BY <1>1, <4>2, HarmlessCodes DEF ReplayLoop
      <4> QED BY <4>1, <4>3
    <3> QED BY <1>6, <3>1, <3>2, <3>3
  <2>2. PICK t : Good(t) /\ Branch(fl) = [fl EXCEPT !.todo = t]
    BY <2>1
  <2>3. PICK b : b = Branch(fl)
    OBVIOUS
  <2>5. FlowShape(fl) /\ b = AsBranched(fl, t)
    BY <1>3, <2>2, <2>3 DEF AsBranched
  <2>6. FlowShape(b) /\ b.session = fl.session /\ b.todo = t
    BY ONLY <2>5, FlowBranched
  <2>4. FlowShape(b) /\ b.session = 1 /\ b.todo = t
    BY <1>3, <2>6
  <2> QED BY <2>2, <2>3, <2>4 DEF Good
<1>7. CASE o \notin {"start", "judgeV1", "loop", "entries"}
  <2>1. \A i \in DOMAIN fl.todo : fl.todo[i].op \in HarmlessOps
    <3>1. fl.todo # <<Goto("start")>> /\ fl.todo # <<Goto("judgeV1")>>
      BY <1>7, <1>8
    <3> QED BY <3>1 DEF NeverAsks
  <2>2. o \in HarmlessOps /\ o \notin {"judgeV2"}
    BY <1>3, <1>4, <2>1 DEF HarmlessOps
  <2>3. Branch(fl) = fl
    BY <1>4, <1>7, <2>2 DEF Branch
  <2>4. HarmlessCode(fl.todo)
    BY <1>3, <2>1 DEF HarmlessCode, HarmlessSegment, IsFlow
  <2> QED BY <1>1, <1>3, <2>3, <2>4 DEF Good
<1> QED BY <1>5, <1>6, <1>7

-----------------------------------------------------------------------------
(* An agent that asks nothing.                                             *)

\* The sessions are the same, but for what they remember.
SessionsKept ==
    /\ IsSeq(sessions') /\ DOMAIN sessions' = DOMAIN sessions
    /\ \A i \in DOMAIN sessions :
          IsSession(sessions'[i]) /\ sessions'[i].scenario = sessions[i].scenario

\* Code that can run, and the flow that ran it.
Runnable(b) ==
    /\ FlowShape(b) /\ b.session = 1
    /\ IsSeq(b.todo) /\ b.todo # <<>> /\ \A i \in DOMAIN b.todo : IsSegment(b.todo[i])
    /\ b.todo[1].op = "sleep" => Len(b.todo) # 1
RanAs(x, b) ==
    /\ IsFlow(x) /\ x.todo = Tail(b.todo)
    /\ x.status = StatusAfter(b.todo[1], Tail(b.todo))
    /\ x.kind = b.kind /\ x.request = b.request /\ x.scenario = b.scenario
    /\ x.cancelled = b.cancelled /\ x.answer = b.answer
AfterRun(b, f) ==
    /\ SessionsKept
    /\ pendingClientCalls' =
          IF b.todo[1].op = "ask" THEN pendingClientCalls \cup {<<nextAgentRequestId, f>>}
          ELSE pendingClientCalls
    /\ nextAgentRequestId' = IdAfter(b.todo[1])
    /\ out' = Emitted(b, b.todo[1])

\* A flow that ran is a flow, and its session gains a line of its history.
LEMMA RanFlow ==
    ASSUME Shapes, NEW rest, NEW f, NEW fl, RunOn(rest, f, fl),
           fl.session = 1, Runnable(Branch(fl))
    PROVE  /\ \E x : flows' = Replaced(flows, rest, x, f) /\ RanAs(x, Branch(fl))
           /\ AfterRun(Branch(fl), f)
<1>0. PICK b : b = Branch(fl)
  OBVIOUS
<1>7. /\ FlowShape(b) /\ b.session = 1 /\ fl.session = 1
      /\ IsSeq(b.todo) /\ b.todo # <<>> /\ \A i \in DOMAIN b.todo : IsSegment(b.todo[i])
      /\ b.todo[1].op = "sleep" => Len(b.todo) # 1
  BY <1>0 DEF Runnable
<1>1. PICK t, st, c : /\ t = Tail(b.todo) /\ st = StatusAfter(b.todo[1], t)
                      /\ c = IF b.todo[1].op \in {"sleep", "replay"} THEN b.count + 1 ELSE b.count
  OBVIOUS
<1>2. PICK x : x = AsRan(b, t, st, c)
  OBVIOUS
<1>3. /\ FlowShape(x) /\ x.todo = t /\ x.status = st /\ x.session = 1
      /\ x.kind = b.kind /\ x.request = b.request /\ x.scenario = b.scenario
      /\ x.cancelled = b.cancelled /\ x.answer = b.answer
  BY <1>2, <1>7, FlowRan
<1>4. /\ flows' = rest \o <<x>> \o SubSeq(flows, f + 1, Len(flows))
      /\ pendingClientCalls' =
                 IF b.todo[1].op = "ask" THEN pendingClientCalls \cup {<<nextAgentRequestId, f>>}
                 ELSE pendingClientCalls
      /\ nextAgentRequestId' = IdAfter(b.todo[1])
      /\ out' = Emitted(b, b.todo[1])
      /\ sessions' = IF b.todo[1].push = "none" THEN sessions
                     ELSE [sessions EXCEPT ![1].history = Append(@, <<b.todo[1].push, f>>)]
  BY <1>0, <1>1, <1>2, <1>7 DEF RunOn, AsRan
<1>5. IsFlow(x)
  <2>1. /\ IsSeq(t) /\ Len(t) = Len(b.todo) - 1 /\ DOMAIN t = 1 .. Len(b.todo) - 1
        /\ \A i \in 1 .. Len(b.todo) - 1 : t[i] = b.todo[i + 1]
    BY <1>1, <1>7, SeqTail
  <2>2. Len(b.todo) \in Nat /\ DOMAIN b.todo = 1 .. Len(b.todo) /\ (t = <<>> <=> Len(t) = 0)
    BY ONLY <1>7, <2>1, SeqLen
  <2>3. ASSUME NEW i \in DOMAIN t PROVE IsSegment(t[i])
    <3>1. i + 1 \in DOMAIN b.todo /\ t[i] = b.todo[i + 1]
      BY <2>1, <2>2
    <3> QED BY <3>1, <1>7
  <2>4. st \in {"ready", "sleeping"} => t # <<>>
    <3>1. CASE b.todo[1].op = "sleep"
      BY <3>1, <1>7, <2>1, <2>2
    <3>2. CASE b.todo[1].op # "sleep"
      BY <3>2, <1>1 DEF StatusAfter
    <3> QED BY <3>1, <3>2
  <2> QED BY <1>3, <2>1, <2>3, <2>4 DEF IsFlow
<1>6. SessionsKept
  <2>1. IsSeq(sessions) /\ \A i \in DOMAIN sessions : IsSession(sessions[i])
    BY DEF Shapes
  <2>2. CASE b.todo[1].push = "none"
    BY <1>4, <2>1, <2>2 DEF SessionsKept
  <2>3. CASE b.todo[1].push # "none"
    <3>1. PICK h : h = Append(sessions[1].history, <<b.todo[1].push, f>>)
      OBVIOUS
    <3>2. sessions' = [sessions EXCEPT ![1] = [sessions[1] EXCEPT !.history = h]]
      BY <1>4, <2>3, <3>1
    <3>3. DOMAIN sessions' = DOMAIN sessions /\ IsSeq(sessions')
      <4>1. PICK q, r : q = sessions /\ r = sessions'
        OBVIOUS
      <4>2. PICK z : z = [sessions[1] EXCEPT !.history = h]
        OBVIOUS
      <4>3. IsSeq(q) /\ r = [q EXCEPT ![1] = z]
        BY <2>1, <3>2, <4>1, <4>2
      <4>4. IsSeq(q) /\ DOMAIN r = DOMAIN q /\ r = [i \in DOMAIN q |-> r[i]]
        BY ONLY <4>3
      <4>5. IsSeq(r)
        BY ONLY <4>4, SeqChanged
      <4> QED BY <4>1, <4>4, <4>5
    <3>4. ASSUME NEW i \in DOMAIN sessions
          PROVE  IsSession(sessions'[i]) /\ sessions'[i].scenario = sessions[i].scenario
      <4>1. IsSession(sessions[i])
        BY <2>1
      <4>2. sessions'[i] = IF i = 1 THEN [sessions[1] EXCEPT !.history = h] ELSE sessions[i]
        BY <3>2
      <4>3. CASE i = 1
        <5>1. PICK r : r = sessions[1]
          OBVIOUS
        <5>2. PICK y : y = [r EXCEPT !.history = h]
          OBVIOUS
        <5>3. DOMAIN r = {"history", "scenario"}
          BY <4>1, <4>3, <5>1 DEF IsSession
        <5>4. IsSession(y) /\ y.scenario = r.scenario
          BY <5>2, <5>3 DEF IsSession
        <5> QED BY <4>2, <4>3, <5>1, <5>2, <5>4
      <4>4. CASE i # 1
        BY <4>1, <4>2, <4>4
      <4> QED BY <4>3, <4>4
    <3> QED BY <3>3, <3>4 DEF SessionsKept
  <2> QED BY <2>2, <2>3
<1>8. flows' = Replaced(flows, rest, x, f)
  BY <1>4 DEF Replaced
<1>9. RanAs(x, b)
  BY <1>1, <1>3, <1>5 DEF RanAs
<1>10. AfterRun(b, f)
  BY <1>4, <1>6 DEF AfterRun
<1> QED BY <1>0, <1>8, <1>9, <1>10

FlowsHarmless == \A g \in DOMAIN flows : NeverAsks(flows[g]) /\ flows[g].status # "asking"

\* While the scenarios stay harmless, so do the flows.
LEMMA StillNeverAsks ==
    ASSUME NEW fl, NeverAsks(fl),
           1 \in DOMAIN sessions /\ sessions[1].scenario \in Plain
              => 1 \in DOMAIN sessions' /\ sessions'[1].scenario \in Plain
    PROVE  NeverAsks(fl)'
BY DEF NeverAsks

\* A run among flows that ask nothing.
LEMMA RunHarmless ==
    ASSUME Shapes, FlowsHarmless, NEW f \in 1 .. Len(flows) + 1, NEW rest, IsSeq(rest),
           EntriesOf(rest, flows),
           NEW fl, IsFlow(fl), fl.todo # <<>>, NeverAsks(fl), RunOn(rest, f, fl)
    PROVE  /\ IsSeq(flows') /\ \A g \in DOMAIN flows' : IsFlow(flows'[g])
           /\ FlowsHarmless' /\ SessionsKept
           /\ pendingClientCalls' = pendingClientCalls
<1>1. PICK b : b = Branch(fl)
  OBVIOUS
<1>2. /\ FlowShape(b) /\ b.session = 1 /\ IsSeq(b.todo) /\ b.todo # <<>>
      /\ \A i \in DOMAIN b.todo : IsSegment(b.todo[i]) /\ (i # 1 => b.todo[i].op \in HarmlessOps)
      /\ b.todo[1].op # "ask"
      /\ b.todo[1].op = "sleep" => Len(b.todo) # 1
  BY <1>1, HarmlessBranch
<1>3. fl.session = 1
  BY DEF IsFlow
<1>4. (\E x : flows' = Replaced(flows, rest, x, f) /\ RanAs(x, b)) /\ AfterRun(b, f)
  <2>1. Runnable(b)
    BY <1>2 DEF Runnable
  <2> QED BY <1>1, <1>3, <2>1, RanFlow
<1>5. PICK x : flows' = Replaced(flows, rest, x, f) /\ RanAs(x, b)
  BY <1>4
<1>12. SessionsKept /\ pendingClientCalls' = pendingClientCalls
  BY <1>2, <1>4 DEF AfterRun
<1>13. IsFlow(x) /\ x.todo = Tail(b.todo) /\ x.status = StatusAfter(b.todo[1], Tail(b.todo))
  BY <1>5 DEF RanAs
<1>6. x.status # "asking"
  BY <1>2, <1>13 DEF StatusAfter
<1>7. NeverAsks(x)'
  <2>1. /\ DOMAIN Tail(b.todo) = 1 .. Len(b.todo) - 1
        /\ \A i \in 1 .. Len(b.todo) - 1 : Tail(b.todo)[i] = b.todo[i + 1]
    BY <1>2, SeqTail
  <2>2. Len(b.todo) \in Nat /\ DOMAIN b.todo = 1 .. Len(b.todo)
    BY <1>2, SeqLen
  <2>3. ASSUME NEW i \in DOMAIN x.todo PROVE x.todo[i].op \in HarmlessOps
    <3>1. i \in Nat /\ i + 1 \in DOMAIN b.todo /\ i + 1 # 1 /\ x.todo[i] = b.todo[i + 1]
      BY <1>13, <2>1, <2>2
    <3> QED BY <3>1, <1>2
  <2> QED BY <2>3 DEF NeverAsks
<1>8. IsSeq(flows) /\ \A g \in DOMAIN flows : IsFlow(flows[g])
  BY DEF Shapes
<1>11. ASSUME NEW g \in DOMAIN flows, NEW y, y = flows[g]
       PROVE  IsFlow(y) /\ NeverAsks(y)' /\ y.status # "asking"
  <2>1. IsFlow(y) /\ NeverAsks(y) /\ y.status # "asking"
    BY <1>8, <1>11 DEF FlowsHarmless
  <2>2. 1 \in DOMAIN sessions /\ sessions[1].scenario \in Plain
              => 1 \in DOMAIN sessions' /\ sessions'[1].scenario \in Plain
    BY <1>12 DEF SessionsKept
  <2> QED BY <2>1, <2>2, StillNeverAsks
<1>9. /\ IsSeq(flows')
      /\ \A i \in DOMAIN flows' : flows'[i] = x \/ \E g \in DOMAIN flows : flows'[i] = flows[g]
  <2>1. PICK q : q = flows
    OBVIOUS
  <2>2. PICK r : r = Replaced(q, rest, x, f)
    OBVIOUS
  <2>3. /\ IsSeq(q) /\ IsSeq(rest) /\ f \in 1 .. Len(q) + 1
        /\ EntriesOf(rest, q)
    BY <1>8, <2>1
  <2>4. IsSeq(r) /\ \A i \in DOMAIN r : r[i] = x \/ \E g \in DOMAIN q : r[i] = q[g]
    BY ONLY <2>2, <2>3, SeqReplaced
  <2> QED BY <1>5, <2>1, <2>2, <2>4
<1>10. ASSUME NEW g \in DOMAIN flows'
       PROVE  IsFlow(flows'[g]) /\ NeverAsks(flows[g])' /\ flows'[g].status # "asking"
  <2>1. PICK y : y = flows'[g]
    OBVIOUS
  <2>2. IsFlow(y) /\ NeverAsks(y)' /\ y.status # "asking"
    <3>1. CASE y = x
      BY <1>13, <1>6, <1>7, <3>1 DEF NeverAsks
    <3>2. CASE y # x
      <4>1. PICK h \in DOMAIN flows : y = flows[h]
        BY <1>9, <2>1, <3>2
      <4> QED BY <4>1, <1>11
    <3> QED BY <3>1, <3>2
  <2>3. NeverAsks(flows[g])'
    BY <2>1, <2>2 DEF NeverAsks
  <2> QED BY <2>1, <2>2, <2>3
<1> QED BY <1>12, <1>9, <1>10 DEF FlowsHarmless

SameFlows ==
    /\ UNCHANGED <<flows, pendingClientCalls, nextAgentRequestId>>
    /\ ~crashed => ~crashed'

\* What a request may do to the flows and the sessions.
LEMMA RequestDoes ==
    ASSUME NEW l, HandleRequest(l)
    PROVE  \/ SameFlows /\ sessions' = sessions
           \/ SameFlows /\ sessions' = Append(sessions, [history |-> <<>>, scenario |-> "none"])
           \/ /\ l.method = "_conformance/set_scenario" /\ SameFlows
              /\ sessions' = [sessions EXCEPT ![l.session].scenario = l.arg]
           \/ Replay(l)
           \/ l.method = "session/prompt" /\ Known(l.session) /\ HandlePrompt(l)
<1>1. ASSUME NEW msgs, Emit(msgs) PROVE SameFlows /\ sessions' = sessions
  BY <1>1 DEF Emit, SameFlows, lifeVars, flowVars
<1>2. ASSUME NEW r, Answer(l, r) PROVE SameFlows /\ sessions' = sessions
  BY <1>1, <1>2 DEF Answer
<1>3. CASE l.method \in Extensions
  <2>1. HandleExtension(l)
    BY <1>3 DEF HandleRequest
  <2>2. CASE l.method = "_conformance/echo"
    BY <1>2, <2>1, <2>2 DEF HandleExtension
  <2>3. CASE l.method = "_conformance/set_scenario"
    BY <1>2, <2>1, <2>3 DEF HandleExtension, SameFlows, lifeVars, flowVars
  <2>4. CASE l.method = "_conformance/slow"
    BY <2>1, <2>4 DEF HandleExtension, SameFlows, lifeVars, flowVars
  <2>5. CASE l.method = "_unknown"
    BY <1>2, <2>1, <2>5 DEF HandleExtension
  <2> QED BY <1>3, <2>2, <2>3, <2>4, <2>5 DEF Extensions
<1>4. CASE l.method \notin Extensions /\ l.method = "initialize"
  <2>1. HandleInitialize(l)
    BY <1>4 DEF HandleRequest
  <2> QED BY <1>2, <2>1 DEF HandleInitialize, SameFlows, lifeVars, flowVars
<1>5. CASE l.method \notin Extensions /\ l.method # "initialize"
  <2>1. CASE version = 0 \/ l.method \notin KnownMethods \/ ~l.valid
    BY <1>2, <1>5, <2>1 DEF HandleRequest
  <2>2. CASE ~(version = 0 \/ l.method \notin KnownMethods \/ ~l.valid)
    <3>1. l.method \in {"session/new", "session/load", "session/list", "session/resume",
                        "session/close", "session/prompt"}
      BY <2>2 DEF KnownMethods
    <3>2. CASE l.method = "session/new"
      BY <1>5, <2>2, <3>2 DEF HandleRequest, HandleSessionNew, SameFlows, lifeVars, flowVars
    <3>3. CASE l.method = "session/load"
      <4>1. HandleSessionLoad(l)
        BY <1>5, <2>2, <3>3 DEF HandleRequest
      <4> QED BY <1>2, <4>1 DEF HandleSessionLoad
    <3>4. CASE l.method = "session/list"
      BY <1>2, <1>5, <2>2, <3>4 DEF HandleRequest
    <3>5. CASE l.method = "session/resume"
      <4>1. HandleSessionResume(l)
        BY <1>5, <2>2, <3>5 DEF HandleRequest
      <4> QED BY <1>2, <4>1 DEF HandleSessionResume
    <3>6. CASE l.method = "session/close"
      <4>1. HandleSessionClose(l)
        BY <1>5, <2>2, <3>6 DEF HandleRequest
      <4> QED BY <4>1 DEF HandleSessionClose, SameFlows, lifeVars, flowVars
    <3>7. CASE l.method = "session/prompt"
      <4>1. HandlePrompt(l)
        BY <1>5, <2>2, <3>7 DEF HandleRequest
      <4> QED BY <1>2, <4>1, <3>7 DEF HandlePrompt
    <3> QED BY <3>1, <3>2, <3>3, <3>4, <3>5, <3>6, <3>7
  <2> QED BY <2>1, <2>2
<1> QED BY <1>3, <1>4, <1>5

\* An agent that asks nothing, and in whose sessions nothing is chosen that asks.
AgentHarmless ==
    /\ IsSeq(sessions) /\ \A i \in DOMAIN sessions : IsSession(sessions[i])
    /\ IsSeq(flows) /\ \A f \in DOMAIN flows : IsFlow(flows[f])
    /\ FlowsHarmless /\ pendingClientCalls = {}
AllPlain == \A i \in DOMAIN sessions : sessions[i].scenario \in Plain

\* The flows stay as harmless as the sessions let them.
LEMMA SameFlowsHarmless ==
    ASSUME AgentHarmless, SameFlows, IsSeq(sessions'), \A i \in DOMAIN sessions' : IsSession(sessions'[i]),
           1 \in DOMAIN sessions /\ sessions[1].scenario \in Plain
              => 1 \in DOMAIN sessions' /\ sessions'[1].scenario \in Plain
    PROVE  AgentHarmless'
<1>1. flows' = flows /\ pendingClientCalls' = {}
  BY DEF AgentHarmless, SameFlows
<1>2. ASSUME NEW g \in DOMAIN flows PROVE NeverAsks(flows[g])'
  <2>1. PICK y : y = flows[g]
    OBVIOUS
  <2>2. NeverAsks(y)
    BY <2>1 DEF AgentHarmless, FlowsHarmless
  <2>3. NeverAsks(y)'
    BY <2>2, StillNeverAsks
  <2> QED BY <1>1, <2>1, <2>3 DEF NeverAsks
<1> QED BY <1>1, <1>2 DEF AgentHarmless, FlowsHarmless

\* A flow that asks nothing runs.
LEMMA RunStaysHarmless ==
    ASSUME AgentHarmless, Shapes, NEW f \in 1 .. Len(flows) + 1, NEW rest, IsSeq(rest),
           EntriesOf(rest, flows), NEW fl, IsFlow(fl), fl.todo # <<>>, NeverAsks(fl),
           RunOn(rest, f, fl)
    PROVE  AgentHarmless' /\ (AllPlain => AllPlain')
<1>1. FlowsHarmless
  BY DEF AgentHarmless
<1>2. /\ IsSeq(flows') /\ \A g \in DOMAIN flows' : IsFlow(flows'[g])
      /\ FlowsHarmless' /\ SessionsKept
      /\ pendingClientCalls' = pendingClientCalls
  BY <1>1, RunHarmless
<1> QED BY <1>2 DEF AgentHarmless, AllPlain, SessionsKept

\* A new flow that asks nothing leaves the agent harmless.
LEMMA RunNewHarmless ==
    ASSUME AgentHarmless, Shapes, NEW fl, IsFlow(fl), fl.todo # <<>>, NeverAsks(fl), RunNew(fl)
    PROVE  AgentHarmless' /\ (AllPlain => AllPlain')
<1>1. IsSeq(flows) /\ EntriesOf(flows, flows) /\ Len(flows) + 1 \in 1 .. Len(flows) + 1
  BY SeqLen DEF AgentHarmless, EntriesOf
<1> QED BY <1>1, RunStaysHarmless DEF RunNew

\* Flows are turned or marked, as long as they never ask.
LEMMA FlowsMarked ==
    ASSUME AgentHarmless, UNCHANGED <<sessions, pendingClientCalls>>,
           DOMAIN flows' = DOMAIN flows, flows' = [g \in DOMAIN flows |-> flows'[g]],
           \A g \in DOMAIN flows : /\ FlowShape(flows'[g]) /\ flows'[g].session = flows[g].session
                                   /\ flows'[g].scenario = flows[g].scenario
                                   /\ flows'[g].todo = flows[g].todo
                                   /\ \/ flows'[g].status = flows[g].status
                                      \/ flows'[g].status = "ready" /\ flows[g].status = "sleeping"
    PROVE  AgentHarmless' /\ (AllPlain => AllPlain')
<1>1. IsSeq(flows')
  <2>1. PICK q, r : q = flows /\ r = flows'
    OBVIOUS
  <2>2. IsSeq(q) /\ DOMAIN r = DOMAIN q /\ r = [g \in DOMAIN q |-> r[g]]
    BY <2>1 DEF AgentHarmless
  <2>3. IsSeq(r)
    BY ONLY <2>2, SeqChanged
  <2> QED BY <2>1, <2>3
<1>2. ASSUME NEW g \in DOMAIN flows
      PROVE  IsFlow(flows'[g]) /\ NeverAsks(flows[g])' /\ flows'[g].status # "asking"
  <2>1. PICK x, y : x = flows[g] /\ y = flows'[g]
    OBVIOUS
  <2>2. /\ FlowShape(y) /\ y.session = x.session /\ y.scenario = x.scenario /\ y.todo = x.todo
        /\ y.status = x.status \/ (y.status = "ready" /\ x.status = "sleeping")
    BY <2>1
  <2>3. IsFlow(x) /\ NeverAsks(x) /\ x.status # "asking"
    BY <2>1 DEF AgentHarmless, FlowsHarmless
  <2>4. IsFlow(y)
    BY <2>2, <2>3 DEF IsFlow
  <2>5. NeverAsks(y)'
    BY <2>2, <2>3 DEF NeverAsks
  <2>6. NeverAsks(flows[g])'
    BY <2>1, <2>5 DEF NeverAsks
  <2> QED BY <2>1, <2>2, <2>3, <2>4, <2>6
<1> QED BY <1>1, <1>2 DEF AgentHarmless, FlowsHarmless, AllPlain

\* A flow goes on.
LEMMA ContinueHarmless ==
    ASSUME Shapes, AgentHarmless, NEW f \in DOMAIN flows, Continue(f)
    PROVE  AgentHarmless' /\ (AllPlain => AllPlain')
<1>1. Run(f, flows[f]) /\ flows[f].status = "ready"
  BY DEF Continue
<1>2. IsSeq(flows) /\ Len(flows) \in Nat /\ f \in 1 .. Len(flows)
  BY SeqLen DEF AgentHarmless
<1>3. PICK fl : fl = flows[f]
  OBVIOUS
<1>4. IsFlow(fl) /\ fl.todo # <<>> /\ NeverAsks(fl)
  BY <1>1, <1>3 DEF AgentHarmless, FlowsHarmless, IsFlow
<1>5. PICK rest : rest = SubSeq(flows, 1, f - 1)
  OBVIOUS
<1>6. IsSeq(rest) /\ EntriesOf(rest, flows)
  <2>1. f - 1 \in 0 .. Len(flows) /\ 1 \in Nat \ {0}
    BY <1>2
  <2>2. PICK q, h : q = flows /\ h = f - 1
    OBVIOUS
  <2>3. IsSeq(q) /\ h \in 0 .. Len(q)
    BY <1>2, <2>1, <2>2
  <2>4. IsSeq(SubSeq(q, 1, h)) /\ \A i \in DOMAIN SubSeq(q, 1, h) : \E g \in DOMAIN q : SubSeq(q, 1, h)[i] = q[g]
    BY ONLY <2>1, <2>3, SeqPart
  <2> QED BY <1>5, <2>2, <2>4 DEF EntriesOf
<1>7. RunOn(rest, f, fl) /\ f \in 1 .. Len(flows) + 1
  BY <1>1, <1>2, <1>3, <1>5 DEF Run
<1> QED BY <1>4, <1>6, <1>7, RunStaysHarmless

\* A nap is over.
LEMMA WakeHarmless ==
    ASSUME AgentHarmless, NEW f \in DOMAIN flows, Wake(f)
    PROVE  AgentHarmless' /\ (AllPlain => AllPlain')
<1>1. /\ flows[f].status = "sleeping" /\ flows' = [flows EXCEPT ![f].status = "ready"]
      /\ UNCHANGED <<sessions, pendingClientCalls>>
  BY DEF Wake
<1>2. PICK x : x = AsTurned(flows[f], "ready")
  OBVIOUS
<1>3. flows' = [flows EXCEPT ![f] = x]
  BY <1>1, <1>2 DEF AsTurned
<1>4. /\ FlowShape(x) /\ x.session = flows[f].session /\ x.scenario = flows[f].scenario
      /\ x.todo = flows[f].todo /\ x.status = "ready"
  BY <1>2, FlowTurned DEF AgentHarmless, IsFlow
<1>5. ASSUME NEW g \in DOMAIN flows
      PROVE  /\ FlowShape(flows'[g]) /\ flows'[g].session = flows[g].session
             /\ flows'[g].scenario = flows[g].scenario
             /\ flows'[g].todo = flows[g].todo
             /\ \/ flows'[g].status = flows[g].status
                \/ flows'[g].status = "ready" /\ flows[g].status = "sleeping"
  BY <1>1, <1>3, <1>4 DEF AgentHarmless, IsFlow
<1>6. DOMAIN flows' = DOMAIN flows /\ flows' = [g \in DOMAIN flows |-> flows'[g]]
  BY <1>3
<1> QED BY <1>1, <1>5, <1>6, FlowsMarked

\* A turn is cancelled.
LEMMA CancelHarmless ==
    ASSUME AgentHarmless, NEW s, SessionCancel(s)
    PROVE  AgentHarmless' /\ (AllPlain => AllPlain')
<1>1. PICK f : f = IF Known(s) THEN promptContexts[s] ELSE 0
  OBVIOUS
<1>2. /\ flows' = IF f = 0 THEN flows ELSE [flows EXCEPT ![f].cancelled = TRUE]
      /\ UNCHANGED <<sessions, pendingClientCalls>>
  BY <1>1 DEF SessionCancel
<1>3. PICK x : x = AsCancelled(flows[f], TRUE)
  OBVIOUS
<1>4. flows' = IF f = 0 THEN flows ELSE [flows EXCEPT ![f] = x]
  BY <1>2, <1>3 DEF AsCancelled
<1>5. IsSeq(flows) /\ \A g \in DOMAIN flows : IsFlow(flows[g])
  BY DEF AgentHarmless
<1>6. ASSUME NEW g \in DOMAIN flows
      PROVE  /\ FlowShape(flows'[g]) /\ flows'[g].session = flows[g].session
             /\ flows'[g].scenario = flows[g].scenario
             /\ flows'[g].todo = flows[g].todo
             /\ flows'[g].status = flows[g].status
  <2>1. CASE f # 0 /\ g = f
    <3>1. FlowShape(flows[f])
      BY <1>5, <2>1 DEF IsFlow
    <3>2. /\ FlowShape(x) /\ x.session = flows[f].session /\ x.scenario = flows[f].scenario
          /\ x.todo = flows[f].todo /\ x.status = flows[f].status
      <4>1. PICK y, a : y = flows[f] /\ a = TRUE
        OBVIOUS
      <4>2. FlowShape(y) /\ x = AsCancelled(y, a)
        BY <1>3, <3>1, <4>1
      <4>3. /\ FlowShape(x) /\ x.session = y.session /\ x.scenario = y.scenario
            /\ x.todo = y.todo /\ x.status = y.status
        BY ONLY <4>2, FlowCancelled
      <4> QED BY <4>1, <4>3
    <3> QED BY <1>4, <2>1, <3>2
  <2>2. CASE ~(f # 0 /\ g = f)
    BY <1>4, <1>5, <2>2 DEF IsFlow
  <2> QED BY <2>1, <2>2
<1>7. DOMAIN flows' = DOMAIN flows /\ flows' = [g \in DOMAIN flows |-> flows'[g]]
  <2>1. flows = [g \in DOMAIN flows |-> flows[g]]
    BY <1>5 DEF IsSeq
  <2> QED BY <1>4, <2>1
<1> QED BY <1>2, <1>6, <1>7, FlowsMarked

\* The agent reads a line that does not make it ask.
LEMMA ReceiveHarmless ==
    ASSUME Shapes, AgentHarmless, NEW l, IsLine(l), Receive(l),
           IsCall(l, "_conformance/set_scenario") => l.arg \in Plain,
           IsCall(l, "session/prompt") => AllPlain
    PROVE  AgentHarmless' /\ ~crashed' /\ (AllPlain => AllPlain')
<1>1. ~crashed /\ l.session = 1
  BY DEF Receive, IsLine
<1>2. IsSeq(sessions) /\ \A i \in DOMAIN sessions : IsSession(sessions[i])
  BY DEF AgentHarmless
<1>3. ASSUME SameFlows, sessions' = sessions PROVE AgentHarmless' /\ ~crashed' /\ (AllPlain => AllPlain')
  <2>1. AgentHarmless'
    BY <1>2, <1>3, SameFlowsHarmless
  <2> QED BY <1>1, <1>3, <2>1 DEF SameFlows, AllPlain
<1>4. CASE l.type = "garbage"
  BY <1>3, <1>4 DEF Receive, Emit, SameFlows, flowVars, lifeVars
<1>5. CASE l.type = "request"
  <2>1. HandleRequest(l)
    BY <1>5 DEF Receive
  <2>2. CASE SameFlows /\ sessions' = Append(sessions, [history |-> <<>>, scenario |-> "none"])
    <3>1. PICK r : r = [history |-> <<>>, scenario |-> "none"]
      OBVIOUS
    <3>2. IsSession(r) /\ r.scenario \in Plain
      BY <3>1 DEF IsSession, Plain
    <3>3. /\ IsSeq(sessions') /\ DOMAIN sessions' = 1 .. Len(sessions) + 1
          /\ \A i \in 1 .. Len(sessions) : sessions'[i] = sessions[i]
          /\ sessions'[Len(sessions) + 1] = r
      BY <1>2, <2>2, <3>1, SeqAppend
    <3>4. DOMAIN sessions = 1 .. Len(sessions) /\ Len(sessions) \in Nat
      BY <1>2, SeqLen
    <3>5. \A i \in DOMAIN sessions' : IsSession(sessions'[i])
      BY <1>2, <3>2, <3>3, <3>4
    <3>6. AllPlain => AllPlain'
      BY <3>2, <3>3, <3>4 DEF AllPlain
    <3>7. AgentHarmless'
      BY <2>2, <3>3, <3>4, <3>5, SameFlowsHarmless
    <3> QED BY <1>1, <2>2, <3>6, <3>7 DEF SameFlows
  <2>3. CASE /\ l.method = "_conformance/set_scenario" /\ SameFlows
             /\ sessions' = [sessions EXCEPT ![l.session].scenario = l.arg]
    <3>1. l.arg \in Plain
      BY <1>5, <2>3 DEF IsCall
    <3>2. PICK x : x = [sessions[1] EXCEPT !.scenario = l.arg]
      OBVIOUS
    <3>3. sessions' = [sessions EXCEPT ![1] = x]
      BY <1>1, <2>3, <3>2
    <3>4. 1 \in DOMAIN sessions => IsSession(x) /\ x.scenario = l.arg
      <4>1. SUFFICES ASSUME 1 \in DOMAIN sessions PROVE IsSession(x) /\ x.scenario = l.arg
        OBVIOUS
      <4>2. DOMAIN sessions[1] = {"history", "scenario"}
        BY <1>2, <4>1 DEF IsSession
      <4> QED BY <3>2, <4>2 DEF IsSession
    <3>5. IsSeq(sessions') /\ DOMAIN sessions' = DOMAIN sessions
      <4>1. PICK q, r : q = sessions /\ r = sessions'
        OBVIOUS
      <4>2. IsSeq(q) /\ r = [q EXCEPT ![1] = x]
        BY <1>2, <3>3, <4>1
      <4>3. IsSeq(q) /\ DOMAIN r = DOMAIN q /\ r = [i \in DOMAIN q |-> r[i]]
        BY ONLY <4>2
      <4>4. IsSeq(r)
        BY ONLY <4>3, SeqChanged
      <4> QED BY <4>1, <4>3, <4>4
    <3>6. \A i \in DOMAIN sessions' : IsSession(sessions'[i])
      BY <1>2, <3>3, <3>4, <3>5
    <3>7. /\ AllPlain => AllPlain'
          /\ 1 \in DOMAIN sessions => 1 \in DOMAIN sessions' /\ sessions'[1].scenario \in Plain
      BY <3>1, <3>3, <3>4, <3>5 DEF AllPlain
    <3>8. AgentHarmless'
      BY <2>3, <3>5, <3>6, <3>7, SameFlowsHarmless
    <3> QED BY <1>1, <2>3, <3>7, <3>8 DEF SameFlows
  <2>4. CASE Replay(l)
    <3>1. PICK t : t = <<Goto("entries")>>
      OBVIOUS
    <3>8. PICK k, id, fl : k = "replay" /\ id = l.id /\ fl = NewFlow(k, id, 1, t)
      OBVIOUS
    <3>2. IsSeq(t) /\ t # <<>> /\ \A i \in DOMAIN t : IsSegment(t[i]) /\ t[i].op \in HarmlessOps
      BY <3>1, SegmentIs, HarmlessTuples DEF HarmlessCode, HarmlessSegment
    <3>3. IsFlow(fl) /\ fl.todo = t
      <4>1. fl = NewFlow(k, id, 1, t) /\ IsCode(t)
        BY <3>8, <3>2 DEF IsCode
      <4>2. IsFlow(fl)
        BY ONLY <4>1, FlowIsNew
      <4> QED BY <4>1, <4>2 DEF NewFlow
    <3>4. fl.todo # <<>> /\ NeverAsks(fl)
      BY <3>2, <3>3 DEF NeverAsks
    <3>5. RunNew(fl) /\ crashed' = crashed
      BY <1>1, <2>4, <3>1, <3>8 DEF Replay, lifeVars
    <3>6. AgentHarmless' /\ (AllPlain => AllPlain')
      BY <3>3, <3>4, <3>5, RunNewHarmless
    <3> QED BY <1>1, <3>5, <3>6
  <2>5. CASE l.method = "session/prompt" /\ Known(l.session) /\ HandlePrompt(l)
    <3>1. PICK t : t = <<Goto("start")>>
      OBVIOUS
    <3>8. PICK k, id, fl : k = "prompt" /\ id = l.id /\ fl = NewFlow(k, id, 1, t)
      OBVIOUS
    <3>2. IsFlow(fl) /\ fl.todo = t /\ fl.status = "ready" /\ t # <<>>
      <4>1. IsCode(t) /\ t # <<>>
        BY <3>1, SegmentIs, OneSegment DEF Goto
      <4>2. fl = NewFlow(k, id, 1, t)
        BY <3>8
      <4>3. IsFlow(fl)
        BY ONLY <4>1, <4>2, FlowIsNew
      <4> QED BY <4>1, <4>2, <4>3 DEF NewFlow
    <3>3. AllPlain /\ 1 \in DOMAIN sessions
      <4>1. IsCall(l, "session/prompt")
        BY <1>5, <2>5 DEF IsCall
      <4>2. 1 \in 1 .. Len(sessions) /\ DOMAIN sessions = 1 .. Len(sessions)
        BY <1>1, <1>2, <2>5, SeqLen DEF Known
      <4> QED BY <4>1, <4>2
    <3>4. fl.todo # <<>> /\ NeverAsks(fl)
      BY <3>1, <3>2, <3>3 DEF NeverAsks, AllPlain
    <3>5. CASE version = 1
      <4>1. RunNew(fl) /\ crashed' = crashed
        BY <1>1, <2>5, <3>1, <3>8, <3>5 DEF HandlePrompt, lifeVars
      <4>2. AgentHarmless' /\ (AllPlain => AllPlain')
        BY <3>2, <3>4, <4>1, RunNewHarmless
      <4> QED BY <1>1, <4>1, <4>2
    <3>6. CASE version # 1
      <4>1. /\ flows' = Append(flows, fl) /\ crashed' = crashed
            /\ UNCHANGED <<sessions, pendingClientCalls>>
        BY <1>1, <2>5, <3>1, <3>8, <3>6 DEF HandlePrompt, lifeVars
      <4>2. IsSeq(flows)
        BY DEF AgentHarmless
      <4>3. /\ IsSeq(flows') /\ DOMAIN flows' = 1 .. Len(flows) + 1
            /\ \A i \in 1 .. Len(flows) : flows'[i] = flows[i]
            /\ flows'[Len(flows) + 1] = fl
        BY <4>1, <4>2, SeqAppend
      <4>4. DOMAIN flows = 1 .. Len(flows) /\ Len(flows) \in Nat
        BY <4>2, SeqLen
      <4>5. ASSUME NEW f \in DOMAIN flows'
            PROVE  IsFlow(flows'[f]) /\ NeverAsks(flows[f])' /\ flows'[f].status # "asking"
        <5>1. PICK y : y = flows'[f]
          OBVIOUS
        <5>2. IsFlow(y) /\ NeverAsks(y) /\ y.status # "asking"
          <6>1. CASE f = Len(flows) + 1
            BY <3>2, <3>4, <4>3, <5>1, <6>1
          <6>2. CASE f # Len(flows) + 1
            <7>1. f \in DOMAIN flows /\ y = flows[f]
              BY <4>3, <4>4, <5>1, <6>2
            <7> QED BY <7>1 DEF AgentHarmless, FlowsHarmless
          <6> QED BY <6>1, <6>2
        <5>3. NeverAsks(flows[f])'
          BY <4>1, <5>1, <5>2 DEF NeverAsks
        <5> QED BY <5>1, <5>2, <5>3
      <4> QED BY <1>1, <4>1, <4>3, <4>5 DEF AgentHarmless, FlowsHarmless, AllPlain
    <3> QED BY <3>5, <3>6
  <2> QED BY <1>3, <2>1, <2>2, <2>3, <2>4, <2>5, RequestDoes
<1>6. CASE l.type = "notification"
  <2>1. HandleNotification(l)
    BY <1>6 DEF Receive
  <2>2. CASE SessionCancel(l.session)
    <3>1. AgentHarmless' /\ (AllPlain => AllPlain')
      BY <2>2, CancelHarmless
    <3> QED BY <1>1, <2>2, <3>1 DEF SessionCancel, lifeVars
  <2>3. CASE ~SessionCancel(l.session)
    BY <1>3, <2>1, <2>3 DEF HandleNotification, CancelRequest, Emit, SameFlows, flowVars, lifeVars
  <2> QED BY <2>2, <2>3
<1>7. CASE l.type = "response"
  <2>1. HandleResponse(l)
    BY <1>7 DEF Receive
  <2>2. {p[2] : p \in {q \in pendingClientCalls : q[1] = l.id}} = {}
    BY DEF AgentHarmless
  <2>3. flows = [f \in DOMAIN flows |-> flows[f]]
    BY DEF AgentHarmless, IsSeq
  <2>5. pendingClientCalls' = {} /\ pendingClientCalls = {} /\ nextAgentRequestId' = nextAgentRequestId /\ sessions' = sessions
    BY <2>1 DEF HandleResponse, AgentHarmless
  <2>6. flows' = flows /\ ~crashed'
    <3>1. CASE ~l.valid
      BY <1>1, <2>1, <2>2, <2>3, <3>1 DEF HandleResponse, Throw
    <3>2. CASE l.valid
      BY <1>1, <2>1, <2>2, <2>3, <3>2 DEF HandleResponse
    <3> QED BY <3>1, <3>2
  <2>4. SameFlows /\ sessions' = sessions
    BY <1>1, <2>5, <2>6 DEF SameFlows
  <2> QED BY <1>3, <2>4
<1> QED BY <1>4, <1>5, <1>6, <1>7 DEF IsLine

-----------------------------------------------------------------------------
(* Lines that make the agent ask nothing.                                  *)

\* The fields of a line of the client.
LEMMA ClientLineIs ==
    ASSUME NEW type, NEW method, NEW id, NEW arg, NEW l, l = ClientLine(type, method, id, arg)
    PROVE  /\ l.type = type /\ l.method = method /\ l.id = id /\ l.session = 1 /\ l.arg = arg
           /\ method # "initialize" => l.valid
           /\ type \in {"request", "notification", "response", "garbage"} => IsLine(l)
<1>1. /\ l.type = type /\ l.method = method /\ l.id = id /\ l.session = 1 /\ l.arg = arg
      /\ method # "initialize" => l.valid
  BY DEF ClientLine
<1> QED BY <1>1 DEF IsLine

\* The line without a method initializes nothing.
LEMMA EmptyIsNoMethod == "" # "initialize"
BY Zenon

\* The line that an answer, a notification or a raw line is.
LEMMA TellsLine ==
    ASSUME CaseTells
    PROVE  /\ Head(todo).op = "answer" =>
                 \E m : m # "initialize" /\
                        Says(ClientLine("response", m, log[LastCall.got.n].id, Head(todo).arg))
           /\ Head(todo).op = "notify" => Says(ClientLine("notification", Head(todo).what, 0, Latest))
           /\ Head(todo).op = "raw" => \E m, a : Says(ClientLine("garbage", m, 0, a))
<1>0. PICK empty : empty = ""
  OBVIOUS
<1>4. empty # "initialize"
  BY <1>0, EmptyIsNoMethod, Zenon
<1>1. Says(CASE Head(todo).op = "answer" ->
                   ClientLine("response", empty, log[LastCall.got.n].id, Head(todo).arg)
              [] Head(todo).op = "notify" ->
                   ClientLine("notification", Head(todo).what, 0, Latest)
              [] Head(todo).op = "raw" -> ClientLine("garbage", empty, 0, empty))
  BY <1>0, Zenon DEF CaseTells
<1>2. /\ Head(todo).op = "answer" =>
                 Says(ClientLine("response", empty, log[LastCall.got.n].id, Head(todo).arg))
      /\ Head(todo).op = "notify" => Says(ClientLine("notification", Head(todo).what, 0, Latest))
      /\ Head(todo).op = "raw" => Says(ClientLine("garbage", empty, 0, empty))
  BY ONLY <1>1
<1> QED BY ONLY <1>2, <1>4

\* The tail has entries of the whole only.
LEMMA TailEntries ==
    ASSUME NEW q, IsSeq(q), q # <<>>
    PROVE  IsSeq(Tail(q)) /\ EntriesOf(Tail(q), q)
<1>1. /\ IsSeq(Tail(q)) /\ DOMAIN Tail(q) = 1 .. Len(q) - 1
      /\ \A i \in 1 .. Len(q) - 1 : Tail(q)[i] = q[i + 1]
      /\ DOMAIN q = 1 .. Len(q) /\ Len(q) \in Nat
  BY SeqTail, SeqLen
<1>2. ASSUME NEW i \in DOMAIN Tail(q) PROVE \E g \in DOMAIN q : Tail(q)[i] = q[g]
  <2>1. i + 1 \in DOMAIN q /\ Tail(q)[i] = q[i + 1]
    BY <1>1
  <2> QED BY <2>1
<1> QED BY <1>1, <1>2 DEF EntriesOf

\* One more entry: the old ones, and the new one.
LEMMA AppendEntries ==
    ASSUME NEW q, IsSeq(q), NEW x
    PROVE  /\ IsSeq(Append(q, x))
           /\ \A i \in DOMAIN Append(q, x) : Append(q, x)[i] = x \/ \E g \in DOMAIN q : Append(q, x)[i] = q[g]
<1>1. /\ IsSeq(Append(q, x)) /\ DOMAIN Append(q, x) = 1 .. Len(q) + 1
      /\ \A i \in 1 .. Len(q) : Append(q, x)[i] = q[i]
      /\ Append(q, x)[Len(q) + 1] = x
      /\ DOMAIN q = 1 .. Len(q) /\ Len(q) \in Nat
  BY SeqAppend, SeqLen
<1> QED BY <1>1

\* A case that is closed while no call of the agent waits ends well.
LEMMA EndsWell ==
    ASSUME NEW status, NEW cause, EndCase(status, cause), ~crashed, at \in Nat \ {0},
           pendingClientCalls = {}
    PROVE  IInv'
<1>1. {p[2] : p \in pendingClientCalls} = {}
  OBVIOUS
<1>2. ~crashed'
  BY <1>1 DEF EndCase, AgentClose, Throw
<1>3. at' = at + 1 /\ phase' = "open"
  BY DEF EndCase
<1> QED BY <1>2, <1>3 DEF IInv

\* What is still to be said, by the case or on its way, chooses nothing that asks.
LinesHarmless ==
    /\ IsSeq(todo) /\ IsSeq(toAgent) /\ \A i \in DOMAIN toAgent : IsLine(toAgent[i])
    /\ SetsPlain
    /\ NoPrompt \/ AllPlain

\* Harmless, as what the agent does and what the lines say.
LEMMA HarmlessIs == Harmless <=> (Shapes /\ AgentHarmless /\ LinesHarmless)
BY DEF Harmless, Shapes, AgentHarmless, LinesHarmless, FlowsHarmless, AllPlain

\* A harmless agent and harmless lines make a harmless state.
LEMMA ShapesAre ==
    ASSUME AgentHarmless', LinesHarmless'
    PROVE  Harmless'
BY DEF Harmless, Shapes, AgentHarmless, LinesHarmless, FlowsHarmless, AllPlain

\* The lines stay harmless while they, and the script, get shorter.
LEMMA LinesShrink ==
    ASSUME LinesHarmless, AllPlain => AllPlain',
           IsSeq(todo'), EntriesOf(todo', todo), IsSeq(toAgent'), EntriesOf(toAgent', toAgent)
    PROVE  LinesHarmless'
<1>1. \A i \in DOMAIN toAgent' : IsLine(toAgent'[i])
  BY DEF LinesHarmless, EntriesOf
<1>2. SetsPlain'
  BY DEF LinesHarmless, SetsPlain, EntriesOf
<1>3. NoPrompt => NoPrompt'
  BY DEF NoPrompt, EntriesOf
<1> QED BY <1>1, <1>2, <1>3 DEF LinesHarmless

\* A sequence has its own entries.
LEMMA EntriesOfItself ==
    ASSUME NEW q
    PROVE  EntriesOf(q, q)
BY DEF EntriesOf

\* The case goes on, and the agent does nothing.
LEMMA HarmlessCaseGoesOn ==
    ASSUME Harmless, UNCHANGED agentVars,
           todo' = todo \/ (todo # <<>> /\ todo' = Tail(todo)), toAgent' = toAgent
    PROVE  Harmless'
<1>1. AgentHarmless /\ LinesHarmless
  BY HarmlessIs
<1>2. AgentHarmless' /\ (AllPlain => AllPlain')
  BY <1>1 DEF AgentHarmless, FlowsHarmless, NeverAsks, AllPlain, agentVars
<1>3. IsSeq(todo') /\ EntriesOf(todo', todo) /\ IsSeq(toAgent') /\ EntriesOf(toAgent', toAgent)
  BY <1>1, TailEntries, EntriesOfItself DEF LinesHarmless
<1>4. LinesHarmless'
  BY <1>1, <1>2, <1>3, LinesShrink
<1> QED BY <1>2, <1>4, ShapesAre

\* The case says a line that does not make the agent ask.
LEMMA HarmlessCaseSays ==
    ASSUME Harmless, UNCHANGED agentVars, todo # <<>>, todo' = Tail(todo),
           NEW l, toAgent' = Append(toAgent, l), IsLine(l),
           IsCall(l, "_conformance/set_scenario") => l.arg \in Plain,
           IsCall(l, "session/prompt") => ~NoPrompt
    PROVE  Harmless'
<1>1. AgentHarmless /\ LinesHarmless
  BY HarmlessIs
<1>2. AgentHarmless' /\ (AllPlain => AllPlain')
  BY <1>1 DEF AgentHarmless, FlowsHarmless, NeverAsks, AllPlain, agentVars
<1>3. IsSeq(todo') /\ EntriesOf(todo', todo)
  BY <1>1, TailEntries DEF LinesHarmless
<1>4. IsSeq(toAgent') /\ \A i \in DOMAIN toAgent' : toAgent'[i] = l \/ \E g \in DOMAIN toAgent : toAgent'[i] = toAgent[g]
  BY <1>1, AppendEntries DEF LinesHarmless
<1>5. \A i \in DOMAIN toAgent' : IsLine(toAgent'[i])
  BY <1>1, <1>4 DEF LinesHarmless
<1>6. SetsPlain'
  BY <1>1, <1>3, <1>4 DEF LinesHarmless, SetsPlain, EntriesOf
<1>7. NoPrompt => NoPrompt'
  BY <1>3, <1>4 DEF NoPrompt, EntriesOf
<1>8. LinesHarmless'
  BY <1>1, <1>2, <1>3, <1>4, <1>5, <1>6, <1>7 DEF LinesHarmless
<1> QED BY <1>2, <1>8, ShapesAre

\* While nothing makes the agent ask, nothing crashes it.
LEMMA HarmlessStays ==
    ASSUME IInv, phase = "running", Harmless, Next
    PROVE  IInv'
<1>1. AgentHarmless /\ LinesHarmless /\ Shapes
  BY HarmlessIs
<1>2. ~crashed /\ at \in Nat \ {0}
  BY DEF IInv
<1>3. ASSUME Harmless', ~crashed', at' = at PROVE IInv'
  BY <1>2, <1>3 DEF IInv
<1>4. ASSUME UNCHANGED agentVars, at' = at PROVE ~crashed' /\ at' = at
  BY <1>2, <1>4 DEF agentVars
<1>5. ASSUME NEW status, NEW cause, EndCase(status, cause) PROVE IInv'
  BY <1>1, <1>2, <1>5, EndsWell DEF AgentHarmless
<1>6. CASE CaseRequests
  <2>1. /\ todo # <<>> /\ Head(todo).op = "call" /\ todo' = Tail(todo) /\ UNCHANGED agentVars /\ at' = at
        /\ toAgent' = Append(toAgent, ClientLine("request", Head(todo).what, nextId, Head(todo).arg))
    BY <1>6 DEF CaseRequests, Now, Advance, Says, caseVars
  <2>2. PICK l : l = ClientLine("request", Head(todo).what, nextId, Head(todo).arg)
    OBVIOUS
  <2>3. IsLine(l) /\ l.type = "request" /\ l.method = Head(todo).what /\ l.arg = Head(todo).arg
    <3>1. PICK ty, m, i, a : ty = "request" /\ m = Head(todo).what /\ i = nextId /\ a = Head(todo).arg
      OBVIOUS
    <3>2. l = ClientLine(ty, m, i, a) /\ ty \in {"request", "notification", "response", "garbage"}
      BY <2>2, <3>1
    <3>3. l.type = ty /\ l.method = m /\ l.arg = a /\ IsLine(l)
      BY ONLY <3>2, ClientLineIs
    <3> QED BY <3>1, <3>3
  <2>4. 1 \in DOMAIN todo /\ Head(todo) = todo[1]
    BY <1>1, <2>1, SeqLen DEF LinesHarmless
  <2>5. IsCall(l, "_conformance/set_scenario") => l.arg \in Plain
    BY <1>1, <2>1, <2>3, <2>4 DEF LinesHarmless, SetsPlain, IsCall, IsCallOf
  <2>6. IsCall(l, "session/prompt") => ~NoPrompt
    BY <2>1, <2>3, <2>4 DEF NoPrompt, IsCall, IsCallOf
  <2>7. Harmless'
    BY <2>1, <2>2, <2>3, <2>5, <2>6, HarmlessCaseSays
  <2> QED BY <1>3, <1>4, <2>1, <2>7
<1>7. CASE CaseTells
  <2>1. /\ todo # <<>> /\ Head(todo).op \in {"answer", "notify", "raw"} /\ todo' = Tail(todo)
        /\ UNCHANGED agentVars /\ at' = at
    BY <1>7 DEF CaseTells, Now, Advance, caseVars
  <2>2. \E ty \in {"response", "notification", "garbage"} : \E m, i, a :
           toAgent' = Append(toAgent, ClientLine(ty, m, i, a))
    BY <1>7, <2>1, TellsLine DEF Says
  <2>3. PICK ty, m, i, a :
           /\ ty \in {"response", "notification", "garbage"}
           /\ toAgent' = Append(toAgent, ClientLine(ty, m, i, a))
    BY <2>2
  <2>4. PICK l : l = ClientLine(ty, m, i, a)
    OBVIOUS
  <2>5. IsLine(l) /\ l.type = ty
    <3>1. l = ClientLine(ty, m, i, a) /\ ty \in {"request", "notification", "response", "garbage"}
      BY <2>3, <2>4
    <3> QED BY ONLY <3>1, ClientLineIs
  <2>6. ~IsCall(l, "_conformance/set_scenario") /\ ~IsCall(l, "session/prompt")
    BY <2>3, <2>5 DEF IsCall
  <2>7. Harmless'
    BY <2>1, <2>3, <2>4, <2>5, <2>6, HarmlessCaseSays
  <2> QED BY <1>3, <1>4, <2>1, <2>7
<1>8. CASE CaseExpects
  <2>1. todo # <<>> /\ todo' = Tail(todo) /\ toAgent' = toAgent /\ UNCHANGED agentVars /\ at' = at
    BY <1>8 DEF CaseExpects, Now, Advance, caseVars
  <2> QED BY <1>3, <1>4, <2>1, HarmlessCaseGoesOn
<1>9. CASE CaseMarks
  <2>1. todo # <<>> /\ todo' = Tail(todo) /\ toAgent' = toAgent /\ UNCHANGED agentVars /\ at' = at
    BY <1>9 DEF CaseMarks, Now, Advance, caseVars
  <2> QED BY <1>3, <1>4, <2>1, HarmlessCaseGoesOn
<1>10. CASE CaseGoesOn
  <2>1. todo # <<>> /\ todo' = Tail(todo) /\ toAgent' = toAgent /\ UNCHANGED agentVars /\ at' = at
    BY <1>10 DEF CaseGoesOn, Awaits, Now, Advance, caseVars
  <2> QED BY <1>3, <1>4, <2>1, HarmlessCaseGoesOn
<1>11. CASE CaseFails \/ Throws \/ CaseSettles
  <2>1. \E status, cause : EndCase(status, cause)
    <3>1. CaseFails => EndCase("failed", Cause)
      BY DEF CaseFails
    <3>2. Throws => EndCase("failed", fatalCause)
      BY DEF Throws
    <3>3. CaseSettles => EndCase("failed", fatalCause) \/ EndCase("passed", <<>>)
      BY DEF CaseSettles
    <3> QED BY <1>11, <3>1, <3>2, <3>3
  <2> QED BY <1>5, <2>1
<1>12. CASE RunnerStep
  BY <1>12 DEF RunnerStep, OpenCase, SkipCase, WriteReport
<1>13. CASE AgentReads
  <2>1. /\ toAgent # <<>> /\ Receive(Head(toAgent)) /\ toAgent' = Tail(toAgent)
        /\ todo' = todo /\ at' = at
    BY <1>13 DEF AgentReads, Case_, caseVars
  <2>2. PICK l : l = Head(toAgent)
    OBVIOUS
  <2>3. 1 \in DOMAIN toAgent /\ l = toAgent[1]
    BY <1>1, <2>1, <2>2, SeqLen DEF LinesHarmless
  <2>4. IsLine(l) /\ (IsCall(l, "_conformance/set_scenario") => l.arg \in Plain)
    BY <1>1, <2>3 DEF LinesHarmless, SetsPlain
  <2>5. IsCall(l, "session/prompt") => AllPlain
    BY <1>1, <2>3 DEF LinesHarmless, NoPrompt
  <2>6. AgentHarmless' /\ ~crashed' /\ (AllPlain => AllPlain')
    BY <1>1, <2>1, <2>2, <2>4, <2>5, ReceiveHarmless
  <2>7. LinesHarmless'
    <3>1. IsSeq(todo') /\ EntriesOf(todo', todo) /\ IsSeq(toAgent') /\ EntriesOf(toAgent', toAgent)
      BY <1>1, <2>1, TailEntries, EntriesOfItself DEF LinesHarmless
    <3> QED BY <1>1, <2>6, <3>1, LinesShrink
  <2> QED BY <1>3, <2>1, <2>6, <2>7, ShapesAre
<1>14. ASSUME AgentHarmless', AllPlain => AllPlain', UNCHANGED <<toAgent, todo>>
       PROVE  Harmless'
  <2>1. IsSeq(todo') /\ EntriesOf(todo', todo) /\ IsSeq(toAgent') /\ EntriesOf(toAgent', toAgent)
    BY <1>1, <1>14, EntriesOfItself DEF LinesHarmless
  <2>2. LinesHarmless'
    BY <1>1, <1>14, <2>1, LinesShrink
  <2> QED BY <1>14, <2>2, ShapesAre
<1>15. CASE AgentGoesOn
  <2>1. PICK f \in DOMAIN flows : Continue(f) /\ UNCHANGED <<toAgent, todo, at>>
    BY <1>15 DEF AgentGoesOn, Case_, caseVars
  <2>2. AgentHarmless' /\ (AllPlain => AllPlain')
    BY <1>1, <2>1, ContinueHarmless
  <2>3. ~crashed'
    BY <1>2, <2>1 DEF Continue, lifeVars
  <2> QED BY <1>3, <1>14, <2>1, <2>2, <2>3
<1>16. CASE AgentWakes
  <2>1. PICK f \in DOMAIN flows : Wake(f) /\ UNCHANGED <<toAgent, todo, at>>
    BY <1>16 DEF AgentWakes, Case_, caseVars
  <2>2. AgentHarmless' /\ (AllPlain => AllPlain')
    BY <1>1, <2>1, WakeHarmless
  <2>3. ~crashed'
    BY <1>2, <2>1 DEF Wake, lifeVars
  <2> QED BY <1>3, <1>14, <2>1, <2>2, <2>3
<1>17. CASE HarnessReads \/ WriteReturns \/ TimesOut
  <2>1. UNCHANGED agentVars /\ toAgent' = toAgent /\ todo' = todo /\ at' = at
    BY <1>17 DEF HarnessReads, WriteReturns, TimesOut, Case_, caseVars
  <2> QED BY <1>3, <1>4, <2>1, HarmlessCaseGoesOn
<1> QED BY <1>6, <1>7, <1>8, <1>9, <1>10, <1>11, <1>12, <1>13, <1>15, <1>16, <1>17
        DEF Next, CaseStep, WireStep, TimerStep

-----------------------------------------------------------------------------
(* What the agent sends.                                                   *)

\* The agent says one thing more.
LEMMA EmitsOne ==
    ASSUME IsSeq(log), IsSeq(toHarness), NEW m, out' = <<m>>, Emits, log' = log
    PROVE  /\ IsSeq(toHarness') /\ Total' = Total + 1 /\ Total \in Nat
           /\ \A k \in 1 .. Total : L(k)' = L(k)
           /\ \A n : n = Total + 1 => L(n)' = m
<1>1. IsSeq(<<m>>) /\ Len(<<m>>) = 1 /\ <<m>>[1] = m
  BY ShortParts
<1>2. PICK t : t = <<m>>
  OBVIOUS
<1>3. toHarness' = toHarness \o t /\ IsSeq(t) /\ Len(t) = 1 /\ t[1] = m
  BY <1>1, <1>2 DEF Emits
<1>4. Len(log) \in Nat /\ Len(toHarness) \in Nat
  BY SeqLen
<1>5. /\ IsSeq(toHarness') /\ Len(toHarness') = Len(toHarness) + 1
      /\ \A i \in 1 .. Len(toHarness) : toHarness'[i] = toHarness[i]
      /\ toHarness'[Len(toHarness) + 1] = m
  <2>1. PICK w : w = toHarness \o t
    OBVIOUS
  <2>2. /\ IsSeq(w) /\ Len(w) = Len(toHarness) + Len(t)
        /\ \A i \in 1 .. Len(toHarness) : w[i] = toHarness[i]
        /\ \A i \in 1 .. Len(t) : w[Len(toHarness) + i] = t[i]
    <3>1. PICK q : q = toHarness
      OBVIOUS
    <3>2. IsSeq(q) /\ IsSeq(t)
      BY <1>3, <3>1
    <3>3. /\ IsSeq(q \o t) /\ Len(q \o t) = Len(q) + Len(t)
          /\ \A i \in 1 .. Len(q) : (q \o t)[i] = q[i]
          /\ \A i \in 1 .. Len(t) : (q \o t)[Len(q) + i] = t[i]
      BY ONLY <3>2, SeqConcat
    <3> QED BY ONLY <2>1, <3>1, <3>3
  <2>3. w[Len(toHarness) + 1] = m
    <3>1. \A i \in 1 .. Len(t) : w[Len(toHarness) + i] = t[i]
      BY <2>2
    <3>2. 1 \in 1 .. Len(t) /\ t[1] = m
      BY <1>3
    <3> QED BY ONLY <3>1, <3>2
  <2> QED BY <1>3, <2>1, <2>2, <2>3
<1>6. Total' = Total + 1 /\ Total \in Nat
  BY <1>4, <1>5 DEF Total
<1>7. ASSUME NEW k \in 1 .. Total PROVE L(k)' = L(k)
  <2>1. CASE k <= Len(log)
    BY <2>1 DEF L
  <2>2. CASE ~(k <= Len(log))
    <3>1. k - Len(log) \in 1 .. Len(toHarness)
      BY <1>4, <2>2 DEF Total
    <3> QED BY <1>5, <2>2, <3>1 DEF L
  <2> QED BY <2>1, <2>2
<1>8. ASSUME NEW n, n = Total + 1 PROVE L(n)' = m
  <2>1. n - Len(log) = Len(toHarness) + 1 /\ ~(n <= Len(log))
    BY <1>4, <1>8 DEF Total
  <2> QED BY <1>5, <2>1 DEF L
<1> QED BY <1>5, <1>6, <1>7, <1>8

\* The agent says nothing.
LEMMA EmitsNone ==
    ASSUME IsSeq(toHarness), out' = <<>>, Emits
    PROVE  toHarness' = toHarness
<1>1. PICK t : t = <<>>
  OBVIOUS
<1>2. IsSeq(t) /\ Len(t) = 0 /\ toHarness' = toHarness \o t
  BY <1>1, ShortParts DEF Emits
<1>3. Len(toHarness) \in Nat
  BY SeqLen
<1>4. /\ IsSeq(toHarness') /\ Len(toHarness') = Len(toHarness)
      /\ \A i \in 1 .. Len(toHarness) : toHarness'[i] = toHarness[i]
  BY <1>2, <1>3, SeqConcat
<1> QED BY <1>4, SameSeq

\* What the harness does in a turn does not depend on the rest.
LEMMA SameHarness ==
    ASSUME NEW s, NEW base, HarnessGoes(s, base),
           UNCHANGED <<nextId, pendingResponses, response, answeredBy, queued, waiters, calls,
                       received, fatalError, log, toHarness, mark, todo>>
    PROVE  HarnessGoes(s, base)' /\ Total' = Total
BY DEF HarnessGoes, HarnessShapes, ScriptGoes, AtCase, Pos, BoxGoes, ReadOf, ReplyGoes,
       Latest, WireGoes, L, Total

\* The agent says what is due next.
LEMMA EmitsDue ==
    ASSUME NEW s \in Scenarios, NEW base, HarnessGoes(s, base), NEW m, out' = <<m>>, Emits,
           UNCHANGED <<harnessVars, log, mark, todo>>,
           NEW n, n = Total + 1,
           n <= base - Behind(s) => IsOldReply(m, Latest),
           n = base /\ Behind(s) = 1 => m = Response(Latest, "ok"),
           n > base => m = Message(s, n - base)
    PROVE  HarnessGoes(s, base)' /\ Total' = Total + 1
<1>1. HarnessShapes /\ ScriptGoes(s) /\ BoxGoes(s, base) /\ ReplyGoes(s, base) /\ WireGoes(s, base)
  BY DEF HarnessGoes
<1>2. IsSeq(log) /\ IsSeq(toHarness)
  BY <1>1 DEF HarnessShapes
<1>3. /\ IsSeq(toHarness') /\ Total' = Total + 1 /\ Total \in Nat
      /\ \A k \in 1 .. Total : L(k)' = L(k)
      /\ L(n)' = m
  BY <1>2, EmitsOne
<1>4. HarnessShapes'
  BY <1>1, <1>3 DEF HarnessShapes, harnessVars
<1>5. ScriptGoes(s)' /\ BoxGoes(s, base)' /\ ReplyGoes(s, base)' /\ Latest' = Latest
  BY <1>1 DEF ScriptGoes, AtCase, Pos, BoxGoes, ReadOf, ReplyGoes, Latest, harnessVars
<1>6. WireGoes(s, base)'
  <2>1. ASSUME NEW k \in 1 .. Total + 1
        PROVE  /\ k <= base - Behind(s) => IsOldReply(L(k)', Latest)
               /\ k = base /\ Behind(s) = 1 => L(k)' = Response(Latest, "ok")
               /\ k > base => L(k)' = Message(s, k - base)
    <3>1. CASE k = n
      BY <3>1, <1>3
    <3>2. CASE k # n
      <4>1. k \in 1 .. Total
        BY <3>2, <1>3
      <4>2. L(k)' = L(k)
        BY <4>1, <1>3
      <4> QED BY <1>1, <4>1, <4>2 DEF WireGoes
    <3> QED BY <3>1, <3>2
  <2>2. \A k \in 1 .. Total' :
          /\ k <= base - Behind(s) => IsOldReply(L(k)', Latest')
          /\ k = base /\ Behind(s) = 1 => L(k)' = Response(Latest', "ok")
          /\ k > base => L(k)' = Message(s, k - base)
    BY <2>1, <1>3, <1>5
  <2> QED BY <2>2 DEF WireGoes
<1> QED BY <1>3, <1>4, <1>5, <1>6 DEF HarnessGoes

\* While the prompt is on its way, the agent answers an earlier request.
LEMMA EmitsOld ==
    ASSUME NEW s \in Scenarios, NEW base, HarnessGoes(s, base), base = Total + Behind(s),
           NEW m, out' = <<m>>, Emits, IsOldReply(m, Latest),
           UNCHANGED <<harnessVars, log, mark, todo>>,
           NEW after, after = base + 1
    PROVE  HarnessGoes(s, after)' /\ Total' = Total + 1
<1>1. HarnessShapes /\ ScriptGoes(s) /\ BoxGoes(s, base) /\ ReplyGoes(s, base) /\ WireGoes(s, base)
  BY DEF HarnessGoes
<1>2. IsSeq(log) /\ IsSeq(toHarness)
  BY <1>1 DEF HarnessShapes
<1>3. /\ IsSeq(toHarness') /\ Total' = Total + 1 /\ Total \in Nat
      /\ \A k \in 1 .. Total : L(k)' = L(k)
      /\ \A n : n = Total + 1 => L(n)' = m
  BY <1>2, EmitsOne
<1>4. HarnessShapes'
  BY <1>1, <1>3 DEF HarnessShapes, harnessVars
<1>5. ScriptGoes(s)' /\ Latest' = Latest
  BY <1>1 DEF ScriptGoes, AtCase, Pos, Latest, harnessVars
<1>6. /\ Len(log) \in Nat /\ Len(toHarness) \in Nat /\ base \in Nat
      /\ Len(calls) \in Nat /\ Behind(s) \in {0, 1}
  <2>1. s \in Scenarios /\ HarnessGoes(s, base)
    OBVIOUS
  <2> QED BY ONLY <2>1, GoesFacts
<1>7. Len(log) <= base /\ (Behind(s) = 1 => Len(log) < base) /\ ReadOf(base) = 0
  BY <1>6 DEF ReadOf, Total
<1>8. ReadOf(after)' = 0
  BY <1>6, <1>7 DEF ReadOf
<1>9. BoxGoes(s, after)'
  <2>1. CASE Len(calls) = 0
    <3>1. IsSeq(queued["events"]) /\ Len(queued["events"]) = 0 /\ waiters["events"] = <<>>
      BY <1>1, <1>7, <2>1 DEF BoxGoes
    <3>2. 0 >= 0 /\ 0 - 0 = 0 /\ 1 .. 0 = {}
      OBVIOUS
    <3> QED BY <1>8, <2>1, <3>1, <3>2 DEF BoxGoes, harnessVars
  <2>2. CASE Len(calls) # 0
    <3>1. ~(0 >= Len(calls))
      BY <1>6, <2>2
    <3>2. /\ 0 = Len(calls) - 1 /\ Pos(s) = Place(s, Len(calls)) + 1
          /\ queued["events"] = <<>> /\ waiters["events"] = <<Len(calls)>>
          /\ calls[Len(calls)].state = "waiting"
          /\ calls[Len(calls)].accepts = Script(s)[Place(s, Len(calls))].what
          /\ calls[Len(calls)] = [box |-> "events", accepts |-> calls[Len(calls)].accepts,
                                  state |-> "waiting", got |-> H!NoItem]
      BY <1>1, <1>7, <3>1 DEF BoxGoes
    <3>3. UNCHANGED <<calls, queued, waiters>> /\ Pos(s)' = Pos(s)
      BY DEF harnessVars, Pos
    <3> QED BY <1>8, <3>1, <3>2, <3>3 DEF BoxGoes
  <2> QED BY <2>1, <2>2
<1>10. ReplyGoes(s, after)'
  <2>1. after \in Nat /\ after > base
    BY <1>6
  <2>2. s = "v2-full-turn" => /\ Len(log) < base /\ Len(log) < after /\ mark < base
                              /\ mark \in Nat
    BY <1>1, <1>6, <1>7, <2>1 DEF Behind, ReplyGoes, HarnessShapes
  <2>3. s = "v2-full-turn" => mark < after
    BY <1>6, <2>1, <2>2
  <2> QED BY <1>1, <1>5, <2>1, <2>2, <2>3 DEF ReplyGoes, Pos, harnessVars
<1>11. WireGoes(s, after)'
  <2>1. after - Behind(s) = Total + 1 /\ after >= Total + 1 /\ (Behind(s) = 1 => after > Total + 1)
    BY <1>3, <1>6
  <2>2. ASSUME NEW k \in 1 .. Total + 1
        PROVE  /\ IsOldReply(L(k)', Latest)
               /\ ~(k > after) /\ ~(k = after /\ Behind(s) = 1)
    <3>1. CASE k = Total + 1
      BY <1>3, <2>1, <3>1
    <3>2. CASE k # Total + 1
      <4>1. k \in 1 .. Total /\ k <= base - Behind(s)
        BY <1>3, <1>6, <3>2
      <4> QED BY <1>1, <1>3, <1>6, <2>1, <4>1 DEF WireGoes
    <3> QED BY <3>1, <3>2
  <2>3. \A k \in 1 .. Total' :
          /\ k <= after - Behind(s) => IsOldReply(L(k)', Latest')
          /\ k = after /\ Behind(s) = 1 => L(k)' = Response(Latest', "ok")
          /\ k > after => L(k)' = Message(s, k - after)
    BY <2>2, <1>3, <1>5
  <2> QED BY <2>3 DEF WireGoes
<1> QED BY <1>3, <1>4, <1>5, <1>9, <1>10, <1>11 DEF HarnessGoes

-----------------------------------------------------------------------------
(* What the case asserts.                                                  *)

\* The response to the prompt of version 2 came before what the turn says.
LEMMA ResponseIsFirst ==
    ASSUME NEW base, HarnessGoes("v2-full-turn", base), ~(Len(log) < base)
    PROVE  ResponseFirst /\ log[base].kind = "ok"
<1>1. PICK s : s = "v2-full-turn"
  OBVIOUS
<1>2. s \in Scenarios /\ Behind(s) = 1
  BY <1>1 DEF Scenarios, Behind
<1>3. HarnessShapes /\ ReplyGoes(s, base) /\ WireGoes(s, base)
  BY <1>1 DEF HarnessGoes
<1>4. Len(log) \in Nat /\ Len(toHarness) \in Nat /\ base \in Nat /\ IsSeq(log)
  <2>1. s \in Scenarios /\ HarnessGoes(s, base)
    BY <1>1, <1>2
  <2> QED BY ONLY <2>1, GoesFacts
<1>5. mark \in Nat /\ mark < base
  BY <1>1, <1>3 DEF ReplyGoes, HarnessShapes
<1>6. ASSUME NEW k \in 1 .. base
      PROVE  /\ k = base => log[k] = Response(Latest, "ok")
             /\ k < base => IsOldReply(log[k], Latest)
  <2>1. k \in 1 .. Total /\ L(k) = log[k] /\ (k < base => k <= base - Behind(s))
    BY <1>2, <1>4 DEF Total, L
  <2> QED BY <1>2, <1>3, <2>1 DEF WireGoes
<1>7. log[base].type = "response" /\ log[base].kind = "ok"
  <2>1. log[base] = Response(Latest, "ok")
    BY <1>4, <1>5, <1>6
  <2> QED BY <2>1, MessageIs
<1>8. PICK i : i = base - mark
  OBVIOUS
<1>9. PICK n, m : n = Len(log) /\ m = mark
  OBVIOUS
<1>10. /\ i \in 1 .. n - m /\ m + i = base /\ DOMAIN Since = 1 .. n - m
       /\ \A j \in 1 .. n - m : Since[j] = log[m + j]
  <2>1. n \in Nat /\ m \in Nat /\ m < base /\ base <= n
    BY <1>4, <1>5, <1>9
  <2>2. i \in 1 .. n - m /\ m + i = base
    BY <1>4, <1>8, <1>9, <2>1
  <2>3. Since = SubSeq(log, m + 1, n)
    BY <1>9 DEF Since
  <2>4. IsSeq(From(log, m + 1)) /\ Len(From(log, m + 1)) = n - (m + 1) + 1
        /\ DOMAIN From(log, m + 1) = 1 .. n - (m + 1) + 1
        /\ \A j \in 1 .. n - (m + 1) + 1 : From(log, m + 1)[j] = log[(m + 1) + j - 1]
    <3>1. m + 1 \in 1 .. n + 1 /\ IsSeq(log) /\ n = Len(log)
      BY <1>4, <1>9, <2>1
    <3>2. PICK p : p = m + 1
      OBVIOUS
    <3>3. p \in 1 .. Len(log) + 1 /\ IsSeq(log)
      BY <3>1, <3>2
    <3>4. /\ IsSeq(From(log, p)) /\ Len(From(log, p)) = Len(log) - p + 1
          /\ DOMAIN From(log, p) = 1 .. Len(log) - p + 1
          /\ \A j \in 1 .. Len(log) - p + 1 : From(log, p)[j] = log[p + j - 1]
      BY ONLY <3>3, SeqFrom
    <3> QED BY ONLY <3>1, <3>2, <3>4
  <2>5. Since = From(log, m + 1)
    BY <1>9, <2>3 DEF From
  <2>6. n - (m + 1) + 1 = n - m
    BY <2>1
  <2>7. ASSUME NEW j \in 1 .. n - m PROVE Since[j] = log[m + j]
    <3>1. (m + 1) + j - 1 = m + j
      BY <2>1
    <3> QED BY <2>4, <2>5, <2>6, <3>1
  <2> QED BY <2>2, <2>4, <2>5, <2>6, <2>7
<1>11. Since[i].type = "response"
  BY <1>7, <1>10
<1>12. ASSUME NEW j \in 1 .. i - 1 PROVE Since[j].kind \notin Updates
  <2>1. j \in 1 .. n - m /\ m + j \in 1 .. base /\ m + j < base
    BY <1>4, <1>5, <1>8, <1>9, <1>10
  <2>2. IsOldReply(log[m + j], Latest)
    BY <1>6, <2>1
  <2> QED BY <1>10, <2>1, <2>2 DEF IsOldReply
<1> QED BY <1>7, <1>10, <1>11, <1>12 DEF ResponseFirst

\* What the case awaits holds when it comes.
LEMMA HoldsNow ==
    ASSUME NEW s \in Scenarios, NEW base, HarnessGoes(s, base), Total - base <= N(s),
           IsSeq(todo), Awaits, ~Waits
    PROVE  Holds
<1>1. Head(todo).op \in {"written", "await", "got", "check"}
  BY DEF Awaits, Now
<1>2. ScriptGoes(s) /\ BoxGoes(s, base) /\ ReplyGoes(s, base)
  BY DEF HarnessGoes
<1>3. /\ Len(log) \in Nat /\ base \in Nat /\ Len(calls) \in Nat /\ ReadOf(base) \in Nat
      /\ N(s) \in 1 .. 11
  <2>1. s \in Scenarios /\ HarnessGoes(s, base)
    OBVIOUS
  <2> QED BY ONLY <2>1, GoesFacts
<1>4. Gets(s) \/ ExpectsNext(s) \/ Answers(s) \/ Cancels(s) \/ Accepted(s)
  BY <1>2, ScriptNow
<1>5. PICK x : x = Len(calls)
  OBVIOUS
<1>6. CASE Gets(s)
  <2>1. Head(todo).op = "got" /\ x > 0 /\ (x <= N(s) => Events(s)[x] \in Head(todo).what)
    BY <1>5, <1>6 DEF Gets
  <2>2. calls[x].state # "waiting"
    BY <1>5, <2>1 DEF Waits, LastCall
  <2>3. ReadOf(base) >= x /\ calls[x].state = "resolved" /\ calls[x].got.n = base + x
    BY <1>2, <1>5, <2>1, <2>2 DEF BoxGoes
  <2>4. x \in 1 .. ReadOf(base) /\ ReadOf(base) <= N(s)
    BY <1>3, <1>5, <2>1, <2>3, ReadSoFar
  <2>5. log[base + x] = Message(s, x)
    BY <2>4, ReadSoFar
  <2>6. log[base + x].kind = Events(s)[x] /\ x <= N(s)
    BY <1>3, <2>4, <2>5, MessageIs
  <2> QED BY <1>5, <2>1, <2>3, <2>6 DEF Holds, LastCall
<1>7. CASE Cancels(s)
  <2>1. s = "v1-permission-cancel" /\ Head(todo).op = "await"
    BY <1>1, <1>7 DEF Cancels, IsAwait
  <2>2. Waits
    BY <1>2, <2>1 DEF Waits, ReplyGoes
  <2> QED BY <2>2
<1>8. CASE Accepted(s)
  <2>1. s = "v2-full-turn" /\ Pos(s) \in {9, 10, 11}
    BY <1>8 DEF Accepted
  <2>2. CASE Pos(s) = 9
    <3>1. Head(todo).op = "written"
      BY <1>8, <2>2 DEF Accepted
    <3> QED BY <3>1 DEF Holds
  <2>3. CASE Pos(s) = 10
    <3>1. Head(todo).op = "await" /\ Head(todo).what = "ok"
      BY <1>8, <2>3 DEF Accepted, IsAwait
    <3>2. response[Latest] # "waiting"
      BY <3>1 DEF Waits
    <3>3. ~(Len(log) < base) /\ response[Latest] = "resolved" /\ answeredBy[Latest] = base
      BY <1>2, <2>1, <3>2 DEF ReplyGoes
    <3>4. log[base].kind = "ok"
      BY <2>1, <3>3, ResponseIsFirst
    <3> QED BY <3>1, <3>3, <3>4 DEF Holds
  <2>4. CASE Pos(s) = 11
    <3>1. Head(todo).op = "check" /\ Head(todo).what = "response_first"
      BY <1>8, <2>4 DEF Accepted
    <3>2. ~(Len(log) < base)
      BY <1>2, <2>1, <2>4 DEF ReplyGoes
    <3>3. ResponseFirst
      BY <2>1, <3>2, ResponseIsFirst
    <3> QED BY <3>1, <3>3 DEF Holds
  <2> QED BY <2>1, <2>2, <2>3, <2>4
<1>9. ~(ExpectsNext(s) \/ Answers(s))
  <2>1. ExpectsNext(s) => Head(todo).op = "expect"
    BY Zenon DEF ExpectsNext, IsExpect
  <2>2. Answers(s) => Head(todo).op = "answer"
    BY Zenon DEF Answers
  <2> QED BY ONLY <1>1, <2>1, <2>2
<1> QED BY <1>4, <1>6, <1>7, <1>8, <1>9

-----------------------------------------------------------------------------
(* A turn.                                                                 *)

\* A turn of e lines so far.
InTurn(s, e, base) ==
    base = Total - e /\ AgentGoes(s, e) /\ LinesGo(s, e) /\ HarnessGoes(s, base)

\* A turn, with its number of events and of lines named.
LEMMA TurnIs ==
    ASSUME NEW s
    PROVE  Turn(s) <=> \E e \in 0 .. N(s) : \E base : InTurn(s, e, base)
BY DEF Turn, InTurn

\* The same, for the state after a step.
LEMMA TurnGoes ==
    ASSUME NEW s, NEW e \in 0 .. N(s), NEW base, InTurn(s, e, base)'
    PROVE  Turn(s)'
BY DEF Turn, InTurn

\* What holds in a turn, collected.
LEMMA TurnFacts ==
    ASSUME NEW s \in Scenarios, NEW e \in 0 .. N(s), NEW base, InTurn(s, e, base)
    PROVE  /\ AgentGoes(s, e) /\ LinesGo(s, e) /\ HarnessGoes(s, base)
           /\ Total = base + e /\ Total - base <= N(s) /\ base \in Nat /\ Total \in Nat
           /\ IsSeq(todo) /\ IsSeq(toAgent) /\ N(s) \in 1 .. 11
           /\ Questions(s) \subseteq 1 .. N(s) /\ N(s) \in Questions(s)
           /\ Pos(s) \in Nat /\ (\A i \in DOMAIN toAgent : IsLine(toAgent[i]))
<1>1. base = Total - e /\ AgentGoes(s, e) /\ LinesGo(s, e) /\ HarnessGoes(s, base)
  BY DEF InTurn
<1>2. base \in Nat /\ Total \in Nat /\ N(s) \in 1 .. 11 /\ Pos(s) \in Nat
  <2>1. s \in Scenarios /\ HarnessGoes(s, base)
    BY <1>1
  <2> QED BY ONLY <2>1, GoesFacts
<1>3. Total = base + e /\ Total - base <= N(s)
  BY <1>1, <1>2
<1>4. Shapes
  BY <1>1 DEF AgentGoes
<1>5. Questions(s) \subseteq 1 .. N(s) /\ N(s) \in Questions(s)
  <2>1. N(s) \in 0 .. N(s)
    BY <1>2
  <2> QED BY <2>1, Places
<1> QED BY <1>1, <1>2, <1>3, <1>4, <1>5 DEF Shapes

\* What is left of the prompt's code depends on the faults alone.
LEMMA CodeStays ==
    ASSUME faults' = faults, NEW s, NEW e
    PROVE  Code(s, e)' = Code(s, e) /\ RejectedV1' = RejectedV1 /\ AllowedV1' = AllowedV1
<1>1. TrailingFault' = TrailingFault
  BY DEF TrailingFault
<1>2. V1Reply("end_turn")' = V1Reply("end_turn")
  BY <1>1 DEF V1Reply
<1>3. RejectedV1' = RejectedV1
  BY <1>2 DEF RejectedV1
<1>4. AllowedV1' = AllowedV1
  BY <1>3 DEF AllowedV1
<1> QED BY <1>3, <1>4 DEF Code

\* Neither the agent nor the lines to it change.
LEMMA AgentSame ==
    ASSUME NEW s \in Scenarios, NEW e \in 0 .. N(s), AgentGoes(s, e), LinesGo(s, e),
           UNCHANGED <<agentVars, toAgent, nextId>>, IsSeq(todo'),
           \A j \in Questions(s) : HasAnswered(s, j)' = HasAnswered(s, j)
    PROVE  AgentGoes(s, e)' /\ LinesGo(s, e)'
<1>1. Shapes'
  BY DEF AgentGoes, Shapes, agentVars
<1>2. flows' = flows /\ (flows[1].status = "asking" => e \in Questions(s))
  BY DEF AgentGoes, TurnAsks, agentVars
<1>3. AgentGoes(s, e)'
  <2>1. UNCHANGED <<flows, pendingClientCalls, nextAgentRequestId, sessions, version>> /\ Latest' = Latest
    BY DEF agentVars, Latest
  <2>2. \A j \in Questions(s) : HasAnswered(s, j)' <=> HasAnswered(s, j)
    OBVIOUS
  <2>3. (\A j \in Questions(s) : j < e => HasAnswered(s, j)')
    BY <2>2 DEF AgentGoes
  <2>4. e \in Questions(s) => (HasAnswered(s, e)' <=> HasAnswered(s, e))
    BY <2>2
  <2>5. TurnFlow(s, e)' /\ TurnSession(s)'
    <3>1. TurnFlow(s, e) /\ TurnSession(s)
      BY DEF AgentGoes
    <3>2. TurnFlow(s, e)'
      <4>1. Code(s, e)' = Code(s, e)
        BY CodeStays DEF agentVars
      <4> QED BY <2>1, <3>1, <4>1 DEF TurnFlow
    <3>3. TurnSession(s)'
      BY <2>1, <3>1 DEF TurnSession
    <3> QED BY <3>2, <3>3
  <2>6. TurnAsks(s, e)'
    <3>1. TurnAsks(s, e)
      BY DEF AgentGoes
    <3>2. CASE flows[1].status = "asking"
      BY <2>1, <3>1, <3>2 DEF TurnAsks
    <3>3. CASE flows[1].status # "asking"
      <4>1. /\ flows'[1].status = "ready" /\ pendingClientCalls' = {} /\ e < N(s)
            /\ AllowedOn(s, e) => flows'[1].answer = "allow"
        BY <2>1, <3>1, <3>3 DEF TurnAsks
      <4>2. e \in Questions(s) => HasAnswered(s, e)'
        BY <2>4, <3>1, <3>3 DEF TurnAsks
      <4> QED BY <4>1, <4>2, <2>1 DEF TurnAsks
    <3> QED BY <3>2, <3>3
  <2> QED BY <1>1, <2>1, <2>3, <2>5, <2>6 DEF AgentGoes
<1>4. LinesGo(s, e)'
  <2>1. (flows[1].status = "asking" /\ HasAnswered(s, e))' <=> (flows[1].status = "asking" /\ HasAnswered(s, e))
    <3>1. flows[1].status = "asking" => (HasAnswered(s, e)' <=> HasAnswered(s, e))
      BY <1>2
    <3> QED BY <1>2, <3>1
  <2>2. toAgent' = toAgent
    OBVIOUS
  <2> QED BY <2>1, <2>2 DEF LinesGo
<1> QED BY <1>3, <1>4

\* The case goes a step further, without an answer.
LEMMA StepInTurn ==
    ASSUME NEW s \in Scenarios, NEW e \in 0 .. N(s), NEW base, InTurn(s, e, base),
           UNCHANGED <<agentVars, toAgent, nextId>>, UNCHANGED <<log, toHarness>>,
           HarnessGoes(s, base)', Pos(s)' = Pos(s) + 1, IsSeq(todo'),
           Script(s)[Pos(s)].op # "answer"
    PROVE  Turn(s)'
<1>1. AgentGoes(s, e) /\ LinesGo(s, e) /\ Pos(s) \in Nat /\ base = Total - e
  BY TurnFacts DEF InTurn
<1>2. \A j \in Questions(s) : HasAnswered(s, j)' = HasAnswered(s, j)
  BY <1>1, AnsweredStays
<1>3. AgentGoes(s, e)' /\ LinesGo(s, e)'
  BY <1>1, <1>2, AgentSame
<1>4. Total' = Total
  BY DEF Total
<1>5. InTurn(s, e, base)'
  BY <1>1, <1>3, <1>4 DEF InTurn
<1> QED BY <1>5, TurnGoes

\* The harness reads a line, or a write returns.
LEMMA ReadInTurn ==
    ASSUME NEW s \in Scenarios, NEW e \in 0 .. N(s), NEW base, InTurn(s, e, base),
           HarnessReads \/ WriteReturns
    PROVE  Turn(s)'
<1>1. /\ AgentGoes(s, e) /\ LinesGo(s, e) /\ HarnessGoes(s, base) /\ base = Total - e
      /\ Total - base <= N(s) /\ IsSeq(todo)
  BY TurnFacts DEF InTurn
<1>2. UNCHANGED <<agentVars, toAgent, todo>>
  BY DEF HarnessReads, WriteReturns, Case_
<1>3. HarnessGoes(s, base)' /\ Total' = Total /\ nextId' = nextId
  <2>1. CASE HarnessReads
    <3>1. nextId' = nextId
      <4>1. HarnessGoes(s, base)' /\ Total' = Total
        BY <1>1, <2>1, ReadsGoes
      <4>2. PICK m : m = Head(toHarness)
        OBVIOUS
      <4>3. \/ H!BadLine \/ H!EventLine(m.kind) \/ H!ResponseLine(m.id, m.valid)
        BY <2>1, <4>2 DEF HarnessReads
      <4> QED BY <4>3 DEF H!BadLine, H!FailAll, H!RejectAll, H!EventLine, H!ResponseLine,
                          H!requestVars, H!Settle
    <3> QED BY <1>1, <2>1, <3>1, ReadsGoes
  <2>2. CASE WriteReturns
    <3>1. UNCHANGED <<nextId, pendingResponses, response, answeredBy, queued, waiters, calls,
                      received, fatalError, log, toHarness, mark, todo>>
      BY <2>2 DEF WriteReturns, H!SendReturns, H!expectVars, wireVars, Case_
    <3> QED BY <1>1, <3>1, SameHarness
  <2> QED BY <2>1, <2>2
<1>4. \A j \in Questions(s) : HasAnswered(s, j)' = HasAnswered(s, j)
  BY <1>2 DEF HasAnswered, Pos
<1>5. AgentGoes(s, e)' /\ LinesGo(s, e)'
  BY <1>1, <1>2, <1>3, <1>4, AgentSame
<1>6. InTurn(s, e, base)'
  BY <1>1, <1>3, <1>5 DEF InTurn
<1> QED BY <1>6, TurnGoes

\* The case expects, or goes on.
LEMMA GoOnInTurn ==
    ASSUME NEW s \in Scenarios, NEW e \in 0 .. N(s), NEW base, InTurn(s, e, base),
           CaseExpects \/ CaseGoesOn
    PROVE  Turn(s)'
<1>1. HarnessGoes(s, base) /\ Total - base <= N(s) /\ IsSeq(todo)
  BY TurnFacts
<1>2. UNCHANGED <<agentVars, toAgent, nextId>> /\ UNCHANGED <<log, toHarness>>
  BY DEF CaseExpects, CaseGoesOn, H!Expect, H!requestVars, harnessVars, wireVars
<1>3. /\ HarnessGoes(s, base)' /\ Pos(s)' = Pos(s) + 1 /\ IsSeq(todo')
      /\ Script(s)[Pos(s)].op # "answer"
  BY <1>1, ExpectsGoes, GoesOn
<1> QED BY <1>2, <1>3, StepInTurn

-----------------------------------------------------------------------------
(* What cannot happen in a turn.                                           *)

\* Once it has prompted, a case makes no request, sets no mark and does not end.
LEMMA NoOtherSteps ==
    ASSUME NEW s \in Scenarios, NEW base, HarnessGoes(s, base), Total - base <= N(s), IsSeq(todo)
    PROVE  ~CaseRequests /\ ~CaseMarks /\ ~Throws /\ ~CaseSettles /\ ~CaseFails
<1>1. todo # <<>> /\ Head(todo).op \in LaterOps /\ ~fatalError
  BY ScriptNow DEF HarnessGoes, HarnessShapes
<1>2. Head(todo).op # "call" /\ Head(todo).op # "mark"
  BY <1>1 DEF LaterOps
<1>3. ~CaseRequests /\ ~CaseMarks
  BY <1>2 DEF CaseRequests, CaseMarks, Now
<1>4. ~Throws /\ ~CaseSettles
  BY <1>1 DEF Throws, CaseSettles
<1>5. ~CaseFails
  BY HoldsNow DEF CaseFails
<1> QED BY <1>3, <1>4, <1>5

\* No timer fires: what the case waits for is on its way.
LEMMA NoTimeout ==
    ASSUME NEW s \in Scenarios, NEW e \in 0 .. N(s), NEW base, InTurn(s, e, base)
    PROVE  ~TimesOut
<1> SUFFICES ASSUME TimesOut PROVE FALSE
  OBVIOUS
<1>1. /\ AgentGoes(s, e) /\ LinesGo(s, e) /\ HarnessGoes(s, base)
      /\ Total = base + e /\ Total - base <= N(s) /\ base \in Nat /\ Total \in Nat
      /\ IsSeq(todo) /\ N(s) \in 1 .. 11 /\ Questions(s) \subseteq 1 .. N(s) /\ N(s) \in Questions(s)
  BY TurnFacts
<1>2. Quiet /\ Awaits /\ (IF Head(todo).op = "got" THEN H!ExpectTimeout(Len(calls))
                          ELSE H!RequestTimeout(Latest))
  BY DEF TimesOut
<1>3. todo # <<>>
  BY <1>2 DEF Awaits, Now
<1>4. Waits /\ toAgent = <<>> /\ toHarness = <<>> /\ \A f \in DOMAIN flows : flows[f].status # "ready"
  BY <1>2, <1>3 DEF Quiet, Blocked
<1>5. DOMAIN flows = 1 .. 1
  BY <1>1, SeqLen DEF AgentGoes, Shapes
<1>6. flows[1].status # "ready"
  BY <1>4, <1>5
<1>7. flows[1].status = "asking" /\ e \in Questions(s)
  BY <1>1, <1>6 DEF AgentGoes, TurnAsks
<1>8. ~HasAnswered(s, e)
  BY <1>1, <1>4, <1>7 DEF LinesGo
<1>9. Len(log) = base + e /\ ReadOf(base) = e /\ e \in 1 .. N(s)
  <2>1. Len(toHarness) = 0
    BY <1>4, ShortParts
  <2>2. Len(log) \in Nat
    BY <1>1, SeqLen DEF HarnessGoes, HarnessShapes
  <2>3. Len(log) = base + e
    BY <1>1, <2>1, <2>2 DEF Total
  <2>4. e \in 1 .. N(s)
    BY <1>1, <1>7
  <2> QED BY <1>1, <2>2, <2>3, <2>4 DEF ReadOf
<1>10. Pos(s) < Place(s, e + 1) /\ Place(s, e + 1) \in Nat /\ Pos(s) \in Nat
  <2>1. e + 1 \in 0 .. N(s) + 1
    BY <1>1, <1>9
  <2>2. Place(s, e + 1) \in Nat /\ Pos(s) \in Nat
    BY <1>1, <2>1, GoesFacts
  <2> QED BY <1>8, <2>2 DEF HasAnswered
<1>11. Head(todo).op \in {"written", "await", "got", "check"}
  BY <1>2 DEF Awaits, Now
<1>12. ScriptGoes(s) /\ BoxGoes(s, base) /\ ReplyGoes(s, base)
  BY <1>1 DEF HarnessGoes
<1>13. Gets(s) \/ ExpectsNext(s) \/ Answers(s) \/ Cancels(s) \/ Accepted(s)
  BY <1>1, <1>12, ScriptNow
<1>14. ~Gets(s)
  <2> SUFFICES ASSUME Gets(s) PROVE FALSE
    OBVIOUS
  <2>1. PICK x : x = Len(calls)
    OBVIOUS
  <2>2. Head(todo).op = "got" /\ x > 0 /\ Pos(s) = Place(s, x) + 1
    BY <2>1 DEF Gets
  <2>3. calls[x].state = "waiting"
    BY <1>4, <2>1, <2>2 DEF Waits, LastCall
  <2>4. ~(e >= x) /\ e = x - 1
    BY <1>9, <1>12, <2>1, <2>2, <2>3 DEF BoxGoes
  <2>5. x \in Nat
    BY <1>1, <2>1, GoesFacts
  <2>6. x = e + 1
    BY <1>9, <2>4, <2>5
  <2> QED BY <1>10, <2>2, <2>6
<1>15. ~Cancels(s)
  <2> SUFFICES ASSUME Cancels(s) PROVE FALSE
    OBVIOUS
  <2>1. s = "v1-permission-cancel" /\ Pos(s) = Place(s, N(s) + 1)
    BY <1>11 DEF Cancels
  <2>2. e = N(s)
    BY <1>7, <2>1 DEF Questions, N
  <2> QED BY <1>10, <2>1, <2>2
<1>16. ~Accepted(s)
  <2> SUFFICES ASSUME Accepted(s) PROVE FALSE
    OBVIOUS
  <2>1. s = "v2-full-turn" /\ Head(todo).op # "got"
    <3>1. s = "v2-full-turn"
      BY DEF Accepted
    <3>2. Head(todo).op = "written" \/ Head(todo).op = "await" \/ Head(todo).op = "check"
      BY Zenon DEF Accepted, IsAwait
    <3> QED BY <3>1, <3>2
  <2>2. Latest \in pendingResponses
    BY <1>2, <2>1 DEF H!RequestTimeout
  <2>3. ~(Len(log) < base)
    BY <1>1, <1>9
  <2> QED BY <1>12, <2>1, <2>2, <2>3 DEF ReplyGoes
<1>17. ~(ExpectsNext(s) \/ Answers(s))
  <2>1. ExpectsNext(s) => Head(todo).op = "expect"
    BY Zenon DEF ExpectsNext, IsExpect
  <2>2. Answers(s) => Head(todo).op = "answer"
    BY Zenon DEF Answers
  <2> QED BY ONLY <1>11, <2>1, <2>2
<1> QED BY <1>13, <1>14, <1>15, <1>16, <1>17

\* The prompt does not sleep.
LEMMA NoNap ==
    ASSUME NEW s \in Scenarios, NEW e \in 0 .. N(s), NEW base, InTurn(s, e, base)
    PROVE  ~AgentWakes
<1>1. AgentGoes(s, e)
  BY DEF InTurn
<1>2. DOMAIN flows = 1 .. 1
  BY <1>1, SeqLen DEF AgentGoes, Shapes
<1>3. flows[1].status = "asking" \/ flows[1].status = "ready"
  BY <1>1 DEF AgentGoes, TurnAsks
<1>4. ASSUME NEW f \in DOMAIN flows, Wake(f) PROVE FALSE
  <2>1. f = 1 /\ flows[f].status = "sleeping"
    BY <1>2, <1>4 DEF Wake
  <2> QED BY <1>3, <2>1
<1> QED BY <1>4 DEF AgentWakes

-----------------------------------------------------------------------------
(* The code of a turn.                                                     *)

\* A segment of the agent's code that says event e of the turn.
Due(g, s, e) ==
    /\ IsSegment(g) /\ g.what = Events(s)[e]
    /\ IF e \in Questions(s) THEN g.op = "ask" ELSE g.op = "say"

\* What the segments that say, ask and branch are.
LEMMA AsksAndSays ==
    /\ \A k : IsSegment(Say(k)) /\ Say(k).op = "say" /\ Say(k).what = k
    /\ \A k, r : IsSegment(SayNew(k, r)) /\ SayNew(k, r).op = "say" /\ SayNew(k, r).what = k
    /\ \A k : IsSegment(Ask(k)) /\ Ask(k).op = "ask" /\ Ask(k).what = k
    /\ \A k : IsSegment(Goto(k)) /\ Goto(k).op = k
BY DEF IsSegment, Segment, Say, SayNew, Ask, Goto

\* The code of the v1 scenarios sends the first three events and branches.
LEMMA ScenarioV1Is ==
    LET t == ScenarioV1 IN
    /\ IsCode(t) /\ Len(t) = 4 /\ t[4] = Goto("judgeV1")
    /\ \A s \in Scenarios : s # "v2-full-turn" => Due(t[1], s, 1) /\ Due(t[2], s, 2) /\ Due(t[3], s, 3)
<1>1. PICK a, b, c, d : /\ a = SayNew("user_message_chunk", "user") /\ b = Say("tool_call")
                        /\ c = Ask("session/request_permission") /\ d = Goto("judgeV1")
  OBVIOUS
<1>2. PICK t : t = <<a, b, c, d>>
  OBVIOUS
<1>3. /\ t \in Seq({a, b, c, d}) /\ Len(t) = 4 /\ DOMAIN t = {1, 2, 3, 4}
      /\ t[1] = a /\ t[2] = b /\ t[3] = c /\ t[4] = d
  BY <1>2
<1>4. /\ IsSegment(a) /\ a.op = "say" /\ a.what = "user_message_chunk"
      /\ IsSegment(b) /\ b.op = "say" /\ b.what = "tool_call"
      /\ IsSegment(c) /\ c.op = "ask" /\ c.what = "session/request_permission"
      /\ IsSegment(d)
  BY <1>1, AsksAndSays
<1>5. IsCode(t)
  <2>1. IsSeq(t)
    BY <1>3, SeqIs
  <2>2. t # <<>>
    <3>1. Len(t) # 0
      BY <1>3
    <3> QED BY ONLY <2>1, <3>1, SeqLen
  <2>3. \A i \in DOMAIN t : IsSegment(t[i])
    BY <1>3, <1>4
  <2> QED BY <2>1, <2>2, <2>3 DEF IsCode
<1>6. ASSUME NEW s \in Scenarios, s # "v2-full-turn"
      PROVE  Due(a, s, 1) /\ Due(b, s, 2) /\ Due(c, s, 3)
  <2>1. /\ Events(s)[1] = "user_message_chunk" /\ Events(s)[2] = "tool_call"
        /\ Events(s)[3] = "session/request_permission"
    BY <1>6 DEF Scenarios, Events, PermissionV1
  <2>2. 1 \notin Questions(s) /\ 2 \notin Questions(s) /\ 3 \in Questions(s)
    BY <1>6 DEF Scenarios, Questions
  <2> QED BY <1>4, <2>1, <2>2 DEF Due
<1>7. t = ScenarioV1
  BY <1>1, <1>2 DEF ScenarioV1
<1> QED BY <1>1, <1>3, <1>5, <1>6, <1>7

\* The code after the permission of v1 sends the other eight and then asks nothing.
LEMMA AllowedV1Is ==
    LET t == AllowedV1 IN
    /\ IsCode(t) /\ Len(t) > 8
    /\ \A i \in 1 .. 8 : Due(t[i], "v1-full-turn", i + 3)
    /\ \A i \in 9 .. Len(t) : t[i].op \in HarmlessOps
<1>1. PICK a, b, c, d, e, f, g, h :
         /\ a = Ask("fs/read_text_file") /\ b = Ask("fs/write_text_file")
         /\ c = Ask("terminal/create") /\ d = Ask("terminal/output") /\ e = Ask("terminal/kill")
         /\ f = Ask("terminal/wait_for_exit") /\ g = Ask("terminal/release")
         /\ h = Ask("elicitation/create")
  OBVIOUS
<1>2. PICK q : q = <<a, b, c, d, e, f, g, h>>
  OBVIOUS
<1>3. /\ Len(q) = 8 /\ DOMAIN q = 1 .. 8
      /\ q[1] = a /\ q[2] = b /\ q[3] = c /\ q[4] = d
      /\ q[5] = e /\ q[6] = f /\ q[7] = g /\ q[8] = h
  BY <1>2
<1>4. IsSeq(q)
  BY <1>2, KindsAre
<1>5. PICK s : s = "v1-full-turn"
  OBVIOUS
<1>6. /\ Due(a, s, 4) /\ Due(b, s, 5) /\ Due(c, s, 6) /\ Due(d, s, 7) /\ Due(e, s, 8)
      /\ Due(f, s, 9) /\ Due(g, s, 10) /\ Due(h, s, 11)
  <2>1. Questions(s) = 3 .. 11
    BY <1>5 DEF Questions
  <2>2. Events(s) = <<"user_message_chunk", "tool_call", "session/request_permission",
              "fs/read_text_file", "fs/write_text_file", "terminal/create",
              "terminal/output", "terminal/kill", "terminal/wait_for_exit",
              "terminal/release", "elicitation/create">>
    BY <1>5 DEF Events
  <2>3. /\ Events(s)[4] = "fs/read_text_file" /\ Events(s)[5] = "fs/write_text_file"
        /\ Events(s)[6] = "terminal/create" /\ Events(s)[7] = "terminal/output"
        /\ Events(s)[8] = "terminal/kill" /\ Events(s)[9] = "terminal/wait_for_exit"
        /\ Events(s)[10] = "terminal/release" /\ Events(s)[11] = "elicitation/create"
    BY <2>2
  <2>4. ASSUME NEW i \in 4 .. 11, NEW x, x = Ask(Events(s)[i]) PROVE Due(x, s, i)
    <3>1. IsSegment(x) /\ x.op = "ask" /\ x.what = Events(s)[i]
      BY <2>4, AsksAndSays
    <3>2. i \in Questions(s)
      BY <2>1
    <3> QED BY <3>1, <3>2 DEF Due
  <2> QED BY <1>1, <2>3, <2>4
<1>7. \A i \in 1 .. 8 : Due(q[i], s, i + 3)
  <2>1. ASSUME NEW i \in 1 .. 8 PROVE Due(q[i], s, i + 3)
    <3>1. i = 1 \/ i = 2 \/ i = 3 \/ i = 4 \/ i = 5 \/ i = 6 \/ i = 7 \/ i = 8
      OBVIOUS
    <3> QED BY <1>3, <1>6, <3>1
  <2> QED BY <2>1
<1>8. PICK r : r = RejectedV1
  OBVIOUS
<1>9. IsSeq(r) /\ Len(r) \in Nat /\ Len(r) # 0 /\ DOMAIN r = 1 .. Len(r)
      /\ \A i \in DOMAIN r : HarmlessSegment(r[i])
  <2>1. IsSeq(r) /\ r # <<>> /\ \A i \in DOMAIN r : HarmlessSegment(r[i])
    BY <1>8, HarmlessCodes DEF HarmlessCode
  <2> QED BY <2>1, SeqLen
<1>10. PICK t : t = q \o r
  OBVIOUS
<1>11. /\ IsSeq(t) /\ Len(t) = 8 + Len(r)
       /\ \A i \in 1 .. 8 : t[i] = q[i]
       /\ \A i \in 1 .. Len(r) : t[8 + i] = r[i]
  <2>1. /\ IsSeq(q \o r) /\ Len(q \o r) = Len(q) + Len(r)
        /\ \A i \in 1 .. Len(q) : (q \o r)[i] = q[i]
        /\ \A i \in 1 .. Len(r) : (q \o r)[Len(q) + i] = r[i]
    BY ONLY <1>4, <1>9, SeqConcat
  <2> QED BY ONLY <1>3, <1>10, <2>1
<1>12. \A i \in 1 .. 8 : Due(t[i], s, i + 3)
  BY <1>7, <1>11
<1>13. ASSUME NEW i \in 9 .. Len(t) PROVE HarmlessSegment(t[i])
  <2>1. i - 8 \in 1 .. Len(r) /\ 8 + (i - 8) = i
    BY <1>9, <1>11
  <2> QED BY <1>9, <1>11, <2>1
<1>14. IsCode(t)
  <2>1. DOMAIN t = 1 .. Len(t) /\ t # <<>>
    BY <1>9, <1>11, SeqLen
  <2>2. ASSUME NEW i \in 1 .. Len(t) PROVE IsSegment(t[i])
    <3>1. i \in 1 .. 8 \/ i \in 9 .. Len(t)
      BY <1>9, <1>11
    <3> QED BY <1>12, <1>13, <3>1 DEF Due, HarmlessSegment
  <2> QED BY <1>11, <2>1, <2>2 DEF IsCode
<1>15. t = AllowedV1
  BY <1>1, <1>2, <1>8, <1>10 DEF AllowedV1
<1> QED BY <1>5, <1>9, <1>11, <1>12, <1>13, <1>14, <1>15 DEF HarmlessSegment

\* The code of the v2 scenario sends the first five events and branches.
LEMMA ScenarioV2Is ==
    LET t == ScenarioV2 IN
    /\ IsCode(t) /\ Len(t) = 6 /\ t[6] = Goto("judgeV2")
    /\ \A i \in 1 .. 5 : Due(t[i], "v2-full-turn", i)
<1>1. PICK a, b, c, d, e, f :
         /\ a = SayNew("user_message", "user") /\ b = Say("running") /\ c = Say("tool_call_update")
         /\ d = Ask("session/request_permission") /\ e = Say("requires_action")
         /\ f = Goto("judgeV2")
  OBVIOUS
<1>2. PICK t : t = <<a, b, c, d, e, f>>
  OBVIOUS
<1>3. /\ t \in Seq({a, b, c, d, e, f}) /\ Len(t) = 6 /\ DOMAIN t = {1, 2, 3, 4, 5, 6}
      /\ t[1] = a /\ t[2] = b /\ t[3] = c /\ t[4] = d /\ t[5] = e /\ t[6] = f
  BY <1>2
<1>4. /\ IsSegment(a) /\ a.op = "say" /\ a.what = "user_message"
      /\ IsSegment(b) /\ b.op = "say" /\ b.what = "running"
      /\ IsSegment(c) /\ c.op = "say" /\ c.what = "tool_call_update"
      /\ IsSegment(d) /\ d.op = "ask" /\ d.what = "session/request_permission"
      /\ IsSegment(e) /\ e.op = "say" /\ e.what = "requires_action"
      /\ IsSegment(f)
  BY <1>1, AsksAndSays
<1>5. IsCode(t)
  <2>1. IsSeq(t)
    BY <1>3, SeqIs
  <2>2. t # <<>>
    <3>1. Len(t) # 0
      BY <1>3
    <3> QED BY ONLY <2>1, <3>1, SeqLen
  <2>3. \A i \in DOMAIN t : IsSegment(t[i])
    BY <1>3, <1>4
  <2> QED BY <2>1, <2>2, <2>3 DEF IsCode
<1>6. PICK s : s = "v2-full-turn"
  OBVIOUS
<1>7. /\ Due(a, s, 1) /\ Due(b, s, 2) /\ Due(c, s, 3) /\ Due(d, s, 4) /\ Due(e, s, 5)
  <2>1. Events(s) = <<"user_message", "running", "tool_call_update", "session/request_permission",
              "requires_action", "running", "terminal_update", "terminal_output_chunk",
              "elicitation/create">>
    BY <1>6 DEF Events
  <2>2. /\ Events(s)[1] = "user_message" /\ Events(s)[2] = "running"
        /\ Events(s)[3] = "tool_call_update" /\ Events(s)[4] = "session/request_permission"
        /\ Events(s)[5] = "requires_action"
    BY <2>1
  <2>3. Questions(s) = {4, 9}
    BY <1>6 DEF Questions
  <2> QED BY <1>4, <2>2, <2>3 DEF Due
<1>8. ASSUME NEW i \in 1 .. 5 PROVE Due(t[i], s, i)
  <2>1. i = 1 \/ i = 2 \/ i = 3 \/ i = 4 \/ i = 5
    OBVIOUS
  <2> QED BY <1>3, <1>7, <2>1
<1>9. t = ScenarioV2
  BY <1>1, <1>2 DEF ScenarioV2
<1> QED BY <1>1, <1>3, <1>5, <1>6, <1>8, <1>9

\* The code after the permission of v2 sends the last four and then asks nothing.
LEMMA AllowedV2Is ==
    LET t == AllowedV2 IN
    /\ IsCode(t) /\ Len(t) = 6
    /\ \A i \in 1 .. 4 : Due(t[i], "v2-full-turn", i + 5)
    /\ \A i \in 5 .. 6 : t[i].op \in HarmlessOps
<1>1. PICK a, b, c, d, e, f :
         /\ a = Say("running") /\ b = Say("terminal_update") /\ c = Say("terminal_output_chunk")
         /\ d = Ask("elicitation/create") /\ e = SayNew("agent_message", "agent")
         /\ f = Say("idle_end_turn")
  OBVIOUS
<1>2. PICK t : t = <<a, b, c, d, e, f>>
  OBVIOUS
<1>3. /\ t \in Seq({a, b, c, d, e, f}) /\ Len(t) = 6 /\ DOMAIN t = {1, 2, 3, 4, 5, 6}
      /\ t[1] = a /\ t[2] = b /\ t[3] = c /\ t[4] = d /\ t[5] = e /\ t[6] = f
  BY <1>2
<1>4. /\ IsSegment(a) /\ a.op = "say" /\ a.what = "running"
      /\ IsSegment(b) /\ b.op = "say" /\ b.what = "terminal_update"
      /\ IsSegment(c) /\ c.op = "say" /\ c.what = "terminal_output_chunk"
      /\ IsSegment(d) /\ d.op = "ask" /\ d.what = "elicitation/create"
      /\ IsSegment(e) /\ e.op = "say" /\ IsSegment(f) /\ f.op = "say"
  BY <1>1, AsksAndSays
<1>5. IsCode(t)
  <2>1. IsSeq(t)
    BY <1>3, SeqIs
  <2>2. t # <<>>
    <3>1. Len(t) # 0
      BY <1>3
    <3> QED BY ONLY <2>1, <3>1, SeqLen
  <2>3. \A i \in DOMAIN t : IsSegment(t[i])
    BY <1>3, <1>4
  <2> QED BY <2>1, <2>2, <2>3 DEF IsCode
<1>6. PICK s : s = "v2-full-turn"
  OBVIOUS
<1>7. /\ Due(a, s, 6) /\ Due(b, s, 7) /\ Due(c, s, 8) /\ Due(d, s, 9)
  <2>1. Events(s) = <<"user_message", "running", "tool_call_update", "session/request_permission",
              "requires_action", "running", "terminal_update", "terminal_output_chunk",
              "elicitation/create">>
    BY <1>6 DEF Events
  <2>2. /\ Events(s)[6] = "running" /\ Events(s)[7] = "terminal_update"
        /\ Events(s)[8] = "terminal_output_chunk" /\ Events(s)[9] = "elicitation/create"
    BY <2>1
  <2>3. Questions(s) = {4, 9}
    BY <1>6 DEF Questions
  <2> QED BY <1>4, <2>2, <2>3 DEF Due
<1>8. ASSUME NEW i \in 1 .. 4 PROVE Due(t[i], s, i + 5)
  <2>1. i = 1 \/ i = 2 \/ i = 3 \/ i = 4
    OBVIOUS
  <2> QED BY <1>3, <1>7, <2>1
<1>9. \A i \in 5 .. 6 : t[i].op \in HarmlessOps
  <2>1. \A i \in 5 .. 6 : i = 5 \/ i = 6
    OBVIOUS
  <2> QED BY <1>3, <1>4, <2>1 DEF HarmlessOps
<1>10. t = AllowedV2
  BY <1>1, <1>2 DEF AllowedV2
<1> QED BY <1>3, <1>5, <1>6, <1>8, <1>9, <1>10

\* What is left of code is code.
LEMMA CodeFrom ==
    ASSUME NEW t, IsCode(t), NEW p \in 1 .. Len(t)
    PROVE  /\ IsCode(From(t, p)) /\ From(t, p)[1] = t[p]
           /\ Tail(From(t, p)) = From(t, p + 1)
           /\ p < Len(t) => Tail(From(t, p)) # <<>>
           /\ \A i \in DOMAIN From(t, p) : p + i - 1 \in p .. Len(t) /\ From(t, p)[i] = t[p + i - 1]
<1>1. IsSeq(t) /\ Len(t) \in Nat /\ DOMAIN t = 1 .. Len(t) /\ \A i \in DOMAIN t : IsSegment(t[i])
  BY SeqLen DEF IsCode
<1>2. p \in 1 .. Len(t) + 1 /\ p <= Len(t)
  BY <1>1
<1>3. /\ IsSeq(From(t, p)) /\ Len(From(t, p)) = Len(t) - p + 1
      /\ DOMAIN From(t, p) = 1 .. Len(t) - p + 1
      /\ \A i \in 1 .. Len(t) - p + 1 : From(t, p)[i] = t[p + i - 1]
      /\ From(t, p) # <<>> /\ Tail(From(t, p)) = From(t, p + 1)
  BY <1>1, <1>2, SeqFrom
<1>4. ASSUME NEW i \in DOMAIN From(t, p)
      PROVE  p + i - 1 \in p .. Len(t) /\ From(t, p)[i] = t[p + i - 1] /\ IsSegment(From(t, p)[i])
  <2>1. p + i - 1 \in p .. Len(t) /\ p + i - 1 \in DOMAIN t
    BY <1>1, <1>2, <1>3
  <2> QED BY <1>1, <1>3, <2>1
<1>5. From(t, p)[1] = t[p]
  <2>1. 1 \in 1 .. Len(t) - p + 1 /\ p + 1 - 1 = p
    BY <1>1, <1>2
  <2> QED BY <1>3, <2>1
<1>6. p < Len(t) => Tail(From(t, p)) # <<>>
  <2>1. Len(Tail(From(t, p))) = Len(t) - p
    BY <1>1, <1>2, <1>3, SeqTail
  <2>2. IsSeq(Tail(From(t, p)))
    BY <1>3, SeqTail
  <2>3. p < Len(t) => Len(Tail(From(t, p))) # 0
    <3>1. PICK m, n : m = Len(Tail(From(t, p))) /\ n = Len(t)
      OBVIOUS
    <3>2. n \in Nat /\ p \in 1 .. n /\ m = n - p
      BY <1>1, <2>1, <3>1
    <3>3. p < n => m # 0
      BY ONLY <3>2
    <3> QED BY ONLY <3>1, <3>3
  <2>4. PICK u : u = Tail(From(t, p))
    OBVIOUS
  <2>5. IsSeq(u) /\ (p < Len(t) => Len(u) # 0)
    BY <2>2, <2>3, <2>4
  <2>6. IsSeq(u)
    BY <2>5
  <2>7. u = <<>> <=> Len(u) = 0
    BY ONLY <2>6, SeqLen
  <2> QED BY ONLY <2>4, <2>5, <2>7
<1> QED BY <1>3, <1>4, <1>5, <1>6 DEF IsCode

\* The code that says the turn's next event, and how far it is.
CodeOf(s, e) ==
    IF s = "v2-full-turn"
    THEN IF e < 5 THEN ScenarioV2 ELSE AllowedV2
    ELSE IF e < 3 THEN ScenarioV1 ELSE AllowedV1
PlaceOf(s, e) ==
    IF s = "v2-full-turn"
    THEN IF e < 5 THEN e + 1 ELSE e - 4
    ELSE IF e < 3 THEN e + 1 ELSE e - 2

\* The segment that is next sends the event that is next.
LEMMA CodeDue ==
    ASSUME NEW s \in Scenarios, NEW e \in 0 .. N(s), e < N(s)
    PROVE  /\ IsCode(CodeOf(s, e)) /\ PlaceOf(s, e) \in 1 .. Len(CodeOf(s, e))
           /\ PlaceOf(s, e) < Len(CodeOf(s, e))
           /\ Due(CodeOf(s, e)[PlaceOf(s, e)], s, e + 1)
           /\ From(CodeOf(s, e), PlaceOf(s, e) + 1) = Code(s, e + 1)
<1>1. CASE s = "v2-full-turn" /\ e < 5
  <2>1. CodeOf(s, e) = ScenarioV2 /\ PlaceOf(s, e) = e + 1 /\ e + 1 \in 1 .. 5 /\ e \in 0 .. 4
    BY <1>1 DEF CodeOf, PlaceOf, N
  <2>2. Code(s, e + 1) = From(ScenarioV2, (e + 1) + 1)
    BY <1>1, <2>1 DEF Code
  <2>3. IsCode(ScenarioV2) /\ Len(ScenarioV2) = 6 /\ Due(ScenarioV2[e + 1], s, e + 1)
    BY <1>1, <2>1, ScenarioV2Is
  <2> QED BY <2>1, <2>2, <2>3
<1>2. CASE s = "v2-full-turn" /\ ~(e < 5)
  <2>1. CodeOf(s, e) = AllowedV2 /\ PlaceOf(s, e) = e - 4 /\ e - 4 \in 1 .. 4 /\ (e - 4) + 5 = e + 1
    BY <1>2 DEF CodeOf, PlaceOf, N
  <2>2. Code(s, e + 1) = From(AllowedV2, (e - 4) + 1)
    <3>1. e + 1 # 0 /\ ~(e + 1 \in 1 .. 5) /\ e + 1 > 5 /\ (e + 1) - 4 = (e - 4) + 1
      BY <1>2
    <3> QED BY <1>2, <3>1 DEF Code
  <2>3. IsCode(AllowedV2) /\ Len(AllowedV2) = 6 /\ Due(AllowedV2[e - 4], s, (e - 4) + 5)
    BY <1>2, <2>1, AllowedV2Is
  <2> QED BY <2>1, <2>2, <2>3
<1>3. CASE s # "v2-full-turn" /\ e < 3
  <2>1. CodeOf(s, e) = ScenarioV1 /\ PlaceOf(s, e) = e + 1 /\ e + 1 \in 1 .. 3 /\ e \in 0 .. 2
    BY <1>3 DEF CodeOf, PlaceOf
  <2>2. Code(s, e + 1) = From(ScenarioV1, (e + 1) + 1)
    BY <1>3, <2>1 DEF Code
  <2>3. IsCode(ScenarioV1) /\ Len(ScenarioV1) = 4 /\ Due(ScenarioV1[e + 1], s, e + 1)
    <3>1. e + 1 = 1 \/ e + 1 = 2 \/ e + 1 = 3
      BY <2>1
    <3> QED BY <1>3, <3>1, ScenarioV1Is
  <2> QED BY <2>1, <2>2, <2>3
<1>4. CASE s # "v2-full-turn" /\ ~(e < 3)
  <2>1. s = "v1-full-turn" /\ e \in 3 .. 10
    BY <1>4 DEF Scenarios, N
  <2>2. CodeOf(s, e) = AllowedV1 /\ PlaceOf(s, e) = e - 2 /\ e - 2 \in 1 .. 8 /\ (e - 2) + 3 = e + 1
    BY <1>4, <2>1 DEF CodeOf, PlaceOf
  <2>3. Code(s, e + 1) = From(AllowedV1, (e - 2) + 1)
    <3>1. e + 1 # 0 /\ ~(e + 1 \in 1 .. 3) /\ e + 1 > 3 /\ (e + 1) - 2 = (e - 2) + 1
      BY <2>1
    <3> QED BY <1>4, <3>1 DEF Code
  <2>4. IsCode(AllowedV1) /\ Len(AllowedV1) > 8 /\ Due(AllowedV1[e - 2], s, (e - 2) + 3)
    BY <2>1, <2>2, AllowedV1Is
  <2>5. Len(AllowedV1) \in Nat
    BY <2>4, SeqLen DEF IsCode
  <2> QED BY <2>2, <2>3, <2>4, <2>5
<1> QED BY <1>1, <1>2, <1>3, <1>4

\* The code from there on: it says the next event, and goes on as the code after it.
LEMMA NextSegment ==
    ASSUME NEW s \in Scenarios, NEW e \in 0 .. N(s), e < N(s),
           NEW t, t = From(CodeOf(s, e), PlaceOf(s, e))
    PROVE  IsCode(t) /\ Due(t[1], s, e + 1) /\ Tail(t) = Code(s, e + 1) /\ Tail(t) # <<>>
<1>1. PICK c, p : c = CodeOf(s, e) /\ p = PlaceOf(s, e)
  OBVIOUS
<1>2. /\ IsCode(c) /\ p \in 1 .. Len(c) /\ p < Len(c)
      /\ Due(c[p], s, e + 1) /\ From(c, p + 1) = Code(s, e + 1)
  BY <1>1, CodeDue
<1>3. IsCode(c) /\ p \in 1 .. Len(c)
  BY <1>2
<1>4. /\ IsCode(From(c, p)) /\ From(c, p)[1] = c[p] /\ Tail(From(c, p)) = From(c, p + 1)
      /\ p < Len(c) => Tail(From(c, p)) # <<>>
  BY ONLY <1>3, CodeFrom
<1> QED BY <1>1, <1>2, <1>4

\* Outside the places where it branches, the prompt's code is that code.
Branches(s, e) == e = 0 \/ (s # "v2-full-turn" /\ e = 3) \/ (s = "v2-full-turn" /\ e = 5)

\* Unless the code branches, it is the rest of one of the four pieces.
LEMMA CodeHere ==
    ASSUME NEW s \in Scenarios, NEW e \in 0 .. N(s)
    PROVE  /\ ~Branches(s, e) => Code(s, e) = From(CodeOf(s, e), PlaceOf(s, e))
           /\ e = 0 => Code(s, e) = <<Goto("start")>>
           /\ s # "v2-full-turn" /\ e = 3 => Code(s, e) = <<Goto("judgeV1")>>
           /\ s = "v2-full-turn" /\ e = 5 => Code(s, e) = <<Goto("judgeV2")>>
<1>1. N(s) \in 1 .. 11
  BY DEF N, Scenarios
<1>2. e \in Nat
  OBVIOUS
<1>3. ~Branches(s, e) => Code(s, e) = From(CodeOf(s, e), PlaceOf(s, e))
  <2>1. CASE s = "v2-full-turn"
    <3>1. CASE e \in 1 .. 4
      BY <2>1, <3>1 DEF Code, CodeOf, PlaceOf
    <3>2. CASE e > 5
      BY <2>1, <3>2 DEF Code, CodeOf, PlaceOf
    <3> QED BY <1>2, <2>1, <3>1, <3>2 DEF Branches
  <2>2. CASE s # "v2-full-turn"
    <3>1. CASE e \in 1 .. 2
      BY <2>2, <3>1 DEF Code, CodeOf, PlaceOf
    <3>2. CASE e > 3
      BY <2>2, <3>2 DEF Code, CodeOf, PlaceOf
    <3> QED BY <1>2, <2>2, <3>1, <3>2 DEF Branches
  <2> QED BY <2>1, <2>2
<1>4. e = 0 => Code(s, e) = <<Goto("start")>>
  BY DEF Code
<1>5. ASSUME NEW t, NEW n \in Nat \ {0}, IsCode(t), Len(t) = n PROVE From(t, n) = <<t[n]>>
  <2>1. n \in 1 .. Len(t) + 1 /\ n <= Len(t) /\ IsSeq(t) /\ Len(t) - n + 1 = 1
    BY <1>5 DEF IsCode
  <2>2. /\ IsSeq(From(t, n)) /\ Len(From(t, n)) = Len(t) - n + 1
        /\ \A i \in 1 .. Len(t) - n + 1 : From(t, n)[i] = t[n + i - 1]
    BY ONLY <2>1, SeqFrom
  <2>3. From(t, n)[1] = t[n]
    <3>1. IsCode(t) /\ n \in 1 .. Len(t)
      BY <1>5, <2>1
    <3> QED BY ONLY <3>1, CodeFrom
  <2>4. PICK w : w = <<t[n]>>
    OBVIOUS
  <2>5. IsSeq(w) /\ Len(w) = 1 /\ w[1] = t[n]
    BY <2>4, ShortParts
  <2>6. PICK u : u = From(t, n)
    OBVIOUS
  <2>7. IsSeq(u) /\ IsSeq(w) /\ Len(u) = Len(w) /\ \A i \in 1 .. Len(u) : u[i] = w[i]
    <3>1. Len(u) = 1 /\ u[1] = w[1] /\ IsSeq(u)
      BY ONLY <2>1, <2>2, <2>3, <2>5, <2>6
    <3>2. \A i \in 1 .. 1 : i = 1
      OBVIOUS
    <3> QED BY ONLY <2>5, <3>1, <3>2
  <2>8. u = w
    BY ONLY <2>7, SameSeq
  <2> QED BY <2>4, <2>6, <2>8
<1>6. s # "v2-full-turn" /\ e = 3 => Code(s, e) = <<Goto("judgeV1")>>
  <2>1. From(ScenarioV1, 4) = <<Goto("judgeV1")>>
    <3>1. PICK t, n : t = ScenarioV1 /\ n = 4
      OBVIOUS
    <3>2. n \in Nat \ {0} /\ IsCode(t) /\ Len(t) = n /\ t[n] = Goto("judgeV1")
      BY <3>1, ScenarioV1Is
    <3>3. From(t, n) = <<t[n]>>
      BY <1>5, <3>2
    <3> QED BY <3>1, <3>2, <3>3
  <2> QED BY <2>1 DEF Code
<1>7. s = "v2-full-turn" /\ e = 5 => Code(s, e) = <<Goto("judgeV2")>>
  <2>1. From(ScenarioV2, 6) = <<Goto("judgeV2")>>
    <3>1. PICK t, n : t = ScenarioV2 /\ n = 6
      OBVIOUS
    <3>2. n \in Nat \ {0} /\ IsCode(t) /\ Len(t) = n /\ t[n] = Goto("judgeV2")
      BY <3>1, ScenarioV2Is
    <3>3. From(t, n) = <<t[n]>>
      BY <1>5, <3>2
    <3> QED BY <3>1, <3>2, <3>3
  <2> QED BY <2>1 DEF Code
<1> QED BY <1>3, <1>4, <1>6, <1>7

-----------------------------------------------------------------------------
(* The agent goes on in a turn.                                            *)

\* The only flow there is runs, or the first one starts.
OnlyFlow(fl) == \/ Len(flows) = 1 /\ Run(1, fl)
                \/ flows = <<>> /\ RunNew(fl)

\* The run of the only flow, and what it leaves.
LEMMA OnlyFlowRuns ==
    ASSUME Shapes, NEW fl, fl.session = 1, Runnable(Branch(fl)), OnlyFlow(fl)
    PROVE  /\ \E x : flows' = <<x>> /\ RanAs(x, Branch(fl))
           /\ AfterRun(Branch(fl), 1)
<1>1. IsSeq(flows) /\ Len(flows) \in Nat
  BY SeqLen DEF Shapes
<1>2. PICK empty : empty = <<>>
  OBVIOUS
<1>3. IsSeq(empty) /\ Len(empty) = 0
  BY <1>2, ShortParts
<1>4. \E rest : rest = empty /\ RunOn(rest, 1, fl)
  <2>1. CASE Len(flows) = 1 /\ Run(1, fl)
    <3>1. SubSeq(flows, 1, 1 - 1) = empty
      <4>1. PICK z : z = 1 - 1
        OBVIOUS
      <4>2. 1 \in Nat \ {0} /\ z \in 0 .. Len(flows) /\ 1 > z /\ IsSeq(flows)
        BY <1>1, <4>1
      <4>3. SubSeq(flows, 1, z) = <<>>
        BY ONLY <4>2, SeqPart
      <4> QED BY <1>2, <4>1, <4>3
    <3> QED BY <2>1, <3>1 DEF Run
  <2>2. CASE flows = <<>> /\ RunNew(fl)
    <3>1. Len(flows) + 1 = 1
      BY <1>2, <1>3, <2>2
    <3>2. RunOn(flows, Len(flows) + 1, fl)
      BY <2>2 DEF RunNew
    <3>3. RunOn(flows, 1, fl)
      BY <3>1, <3>2
    <3> QED BY <1>2, <2>2, <3>3
  <2> QED BY <2>1, <2>2 DEF OnlyFlow
<1>5. PICK rest : rest = empty /\ RunOn(rest, 1, fl)
  BY <1>4
<1>6. /\ \E x : flows' = Replaced(flows, rest, x, 1) /\ RanAs(x, Branch(fl))
      /\ AfterRun(Branch(fl), 1)
  BY <1>5, RanFlow
<1>7. PICK x : flows' = Replaced(flows, rest, x, 1) /\ RanAs(x, Branch(fl))
  BY <1>6
<1>8. SubSeq(flows, 1 + 1, Len(flows)) = empty
  <2>1. PICK n, a : n = Len(flows) /\ a = 1 + 1
    OBVIOUS
  <2>2. n \in {0, 1}
    <3>1. Len(flows) = 1 \/ flows = <<>>
      BY Zenon DEF OnlyFlow
    <3> QED BY ONLY <3>1, <1>2, <1>3, <2>1
  <2>3. a \in Nat \ {0} /\ n \in 0 .. Len(flows) /\ a > n /\ IsSeq(flows)
    BY ONLY <1>1, <2>1, <2>2
  <2>4. SubSeq(flows, a, n) = <<>>
    BY ONLY <2>3, SeqPart
  <2> QED BY <1>2, <2>1, <2>4
<1>9. PICK w : w = <<x>>
  OBVIOUS
<1>10. IsSeq(w) /\ Len(w) = 1 /\ w[1] = x
  BY <1>9, ShortParts
<1>11. flows' = empty \o w \o empty
  BY <1>5, <1>7, <1>8, <1>9 DEF Replaced
<1>12. empty \o w = w /\ w \o empty = w
  <2>1. /\ IsSeq(empty \o w) /\ Len(empty \o w) = Len(empty) + Len(w)
        /\ \A i \in 1 .. Len(w) : (empty \o w)[Len(empty) + i] = w[i]
    BY ONLY <1>3, <1>10, SeqConcat
  <2>2. /\ IsSeq(w \o empty) /\ Len(w \o empty) = Len(w) + Len(empty)
        /\ \A i \in 1 .. Len(w) : (w \o empty)[i] = w[i]
    BY ONLY <1>3, <1>10, SeqConcat
  <2>3. PICK u, v : u = empty \o w /\ v = w \o empty
    OBVIOUS
  <2>4. /\ IsSeq(u) /\ IsSeq(w) /\ Len(u) = Len(w) /\ \A i \in 1 .. Len(u) : u[i] = w[i]
    <3>1. Len(u) = 1 /\ IsSeq(u) /\ \A i \in 1 .. 1 : u[0 + i] = w[i]
      BY ONLY <1>3, <1>10, <2>1, <2>3
    <3>2. \A i \in 1 .. 1 : 0 + i = i
      OBVIOUS
    <3> QED BY ONLY <1>10, <3>1, <3>2
  <2>5. /\ IsSeq(v) /\ IsSeq(w) /\ Len(v) = Len(w) /\ \A i \in 1 .. Len(v) : v[i] = w[i]
    BY ONLY <1>3, <1>10, <2>2, <2>3
  <2>6. u = w
    BY ONLY <2>4, SameSeq
  <2>7. v = w
    BY ONLY <2>5, SameSeq
  <2> QED BY <2>3, <2>6, <2>7
<1>13. flows' = w
  BY <1>11, <1>12
<1> QED BY <1>6, <1>7, <1>9, <1>13

\* The numbers of the questions are counted.
LEMMA NumberGrows ==
    ASSUME NEW s \in Scenarios, NEW e \in 0 .. N(s), e < N(s)
    PROVE  /\ Number(s, e) \in Nat
           /\ Number(s, e + 1) = IF e + 1 \in Questions(s) THEN Number(s, e) + 1 ELSE Number(s, e)
<1>1. CASE s = "v2-full-turn"
  <2>1. e \in 0 .. 8
    BY <1>1 DEF N
  <2>2. Questions(s) = {4, 9}
    BY <1>1 DEF Questions
  <2> QED BY <1>1, <2>1, <2>2 DEF Number
<1>2. CASE s = "v1-full-turn"
  <2>1. e \in 0 .. 10
    BY <1>2 DEF N
  <2>2. Questions(s) = 3 .. 11
    BY <1>2 DEF Questions
  <2> QED BY <1>2, <2>1, <2>2 DEF Number
<1>3. CASE s \in {"v1-permission-reject", "v1-permission-cancel"}
  <2>1. e \in 0 .. 2
    BY <1>3 DEF N
  <2>2. Questions(s) = {3}
    BY <1>3 DEF Questions
  <2>3. s # "v2-full-turn"
    BY <1>3
  <2> QED BY <2>1, <2>2, <2>3 DEF Number
<1> QED BY <1>1, <1>2, <1>3 DEF Scenarios

\* The turn's flow, ready to run: b, the flow past a branch.
TurnReady(b, s, e) ==
    /\ FlowShape(b) /\ b.session = 1
    /\ b.todo = From(CodeOf(s, e), PlaceOf(s, e))
    /\ b.kind = "prompt" /\ b.request = Latest /\ b.scenario = s
    /\ s # "v1-permission-cancel" => b.cancelled = FALSE
    /\ AllowedOn(s, e) => b.answer = "allow"

\* It says the next event of the turn, and asks if that is a question.
LEMMA TurnRuns ==
    ASSUME NEW s \in Scenarios, NEW e \in 0 .. N(s), e < N(s), Shapes,
           NEW fl, fl.session = 1, OnlyFlow(fl),
           NEW b, b = Branch(fl), TurnReady(b, s, e),
           pendingClientCalls = {}, nextAgentRequestId = Number(s, e) + 1,
           nextId' = nextId, faults' = faults, NEW d, d = e + 1
    PROVE  /\ \E x : flows' = <<x>> /\ IsFlow(x)
           /\ TurnFlow(s, d)' /\ TurnAsks(s, d)' /\ SessionsKept
           /\ nextAgentRequestId' = Number(s, d) + 1
           /\ out' = <<Message(s, d)>>
<1>1. PICK t : t = From(CodeOf(s, e), PlaceOf(s, e))
  OBVIOUS
<1>2. IsCode(t) /\ Due(t[1], s, e + 1) /\ Tail(t) = Code(s, e + 1) /\ Tail(t) # <<>>
  BY <1>1, NextSegment
<1>3. b.todo = t
  BY <1>1 DEF TurnReady
<1>4. PICK g : g = t[1]
  OBVIOUS
<1>5. /\ IsSegment(g) /\ g.what = Events(s)[d]
      /\ g.op = IF d \in Questions(s) THEN "ask" ELSE "say"
  BY <1>2, <1>4 DEF Due
<1>6. Runnable(b)
  <2>1. t[1].op # "sleep"
    BY <1>4, <1>5
  <2> QED BY <1>2, <1>3, <2>1 DEF Runnable, TurnReady, IsCode
<1>7. /\ \E x : flows' = <<x>> /\ RanAs(x, b)
      /\ AfterRun(b, 1)
  BY <1>6, OnlyFlowRuns
<1>8. PICK x : flows' = <<x>> /\ RanAs(x, b)
  BY <1>7
<1>9. PICK w : w = <<x>>
  OBVIOUS
<1>10. flows' = w /\ w[1] = x
  BY <1>8, <1>9, ShortParts
<1>11. /\ IsFlow(x) /\ x.todo = Code(s, d) /\ x.kind = "prompt" /\ x.request = Latest
       /\ x.scenario = s /\ x.cancelled = b.cancelled /\ x.answer = b.answer
       /\ x.status = StatusAfter(g, Tail(t))
  BY <1>2, <1>3, <1>4, <1>8 DEF RanAs, TurnReady
<1>12. x.status = IF d \in Questions(s) THEN "asking" ELSE "ready"
  BY <1>2, <1>5, <1>11 DEF StatusAfter
<1>13. /\ Number(s, e) \in Nat
       /\ Number(s, d) = IF d \in Questions(s) THEN Number(s, e) + 1 ELSE Number(s, e)
  BY NumberGrows
<1>14. /\ SessionsKept
       /\ pendingClientCalls' = IF d \in Questions(s) THEN {<<nextAgentRequestId, 1>>} ELSE {}
       /\ nextAgentRequestId' = IdAfter(g) /\ out' = Emitted(b, g)
  BY <1>3, <1>4, <1>5, <1>7 DEF AfterRun
<1>15. nextAgentRequestId' = Number(s, d) + 1
  BY <1>5, <1>13, <1>14 DEF IdAfter
<1>16. out' = <<Message(s, d)>>
  <2>1. CASE d \in Questions(s)
    <3>1. out' = <<Event(g.what, nextAgentRequestId)>>
      BY <1>5, <1>14, <2>1 DEF Emitted
    <3>2. Event(g.what, nextAgentRequestId) = Message(s, d)
      BY <1>5, <1>13, <2>1 DEF Event, Message
    <3> QED BY <3>1, <3>2
  <2>2. CASE d \notin Questions(s)
    <3>1. out' = <<Event(g.what, 0)>>
      BY <1>5, <1>14, <2>2 DEF Emitted
    <3>2. Event(g.what, 0) = Message(s, d)
      BY <1>5, <2>2 DEF Event, Message
    <3> QED BY <3>1, <3>2
  <2> QED BY <2>1, <2>2
<1>17. TurnFlow(s, d)'
  <2>1. Latest' = Latest
    BY DEF Latest
  <2>2. flows'[1] = x
    BY <1>10
  <2>3. Code(s, d)' = Code(s, d)
    BY CodeStays
  <2> QED BY <1>11, <2>1, <2>2, <2>3 DEF TurnFlow, TurnReady
<1>18. TurnAsks(s, d)'
  <2>1. flows'[1] = x
    BY <1>10
  <2>2. CASE d \in Questions(s)
    <3>1. pendingClientCalls' = {<<Number(s, d), 1>>}
      BY <1>13, <1>14, <2>2
    <3> QED BY <1>12, <2>1, <2>2, <3>1 DEF TurnAsks
  <2>3. CASE d \notin Questions(s)
    <3>1. d < N(s)
      <4>1. N(s) \in Questions(s) /\ N(s) \in Nat
        BY DEF N, Questions, Scenarios
      <4> QED BY <2>3, <4>1
    <3>2. AllowedOn(s, d) => x.answer = "allow"
      <4>1. AllowedOn(s, d) => AllowedOn(s, e)
        BY <2>3 DEF AllowedOn, Questions, Scenarios
      <4> QED BY <1>11, <4>1 DEF TurnReady
    <3> QED BY <1>12, <1>14, <2>1, <2>3, <3>1, <3>2 DEF TurnAsks
  <2> QED BY <2>2, <2>3
<1> QED BY <1>8, <1>11, <1>14, <1>15, <1>16, <1>17, <1>18

\* Places in the script are numbers.
LEMMA PlaceNat ==
    ASSUME NEW s \in Scenarios, NEW z \in 0 .. N(s) + 1
    PROVE  Place(s, z) \in Nat
BY DEF Place, N, Scenarios

\* The case has not answered a question that is still to come.
LEMMA NotYetAnswered ==
    ASSUME NEW s \in Scenarios, NEW e \in 0 .. N(s), e < N(s), NEW base, HarnessGoes(s, base),
           Total = base + e, NEW d, d = e + 1
    PROVE  ~HasAnswered(s, d)
<1>1. ScriptGoes(s) /\ BoxGoes(s, base)
  BY DEF HarnessGoes
<1>2. /\ IsSeq(log) /\ Len(log) \in Nat /\ Len(toHarness) \in Nat /\ base \in Nat
      /\ Len(calls) \in 0 .. N(s) + 1 /\ N(s) \in 1 .. 11 /\ ReadOf(base) \in Nat /\ Pos(s) \in Nat
  <2>1. s \in Scenarios /\ HarnessGoes(s, base)
    OBVIOUS
  <2> QED BY ONLY <2>1, GoesFacts
<1>3. ReadOf(base) <= e
  BY <1>2 DEF ReadOf, Total
<1>4. PICK x : x = Len(calls)
  OBVIOUS
<1>5. PICK r : r = ReadOf(base)
  OBVIOUS
<1>6. x \in 0 .. N(s) + 1 /\ r \in 0 .. e /\ e \in Nat
  BY <1>2, <1>3, <1>4, <1>5
<1>7. r >= x \/ (r = x - 1 /\ Pos(s) = Place(s, x) + 1)
  <2>1. CASE ~(ReadOf(base) >= Len(calls))
    BY <1>1, <1>4, <1>5, <2>1 DEF BoxGoes
  <2> QED BY <1>4, <1>5, <2>1
<1>0. e < N(s) /\ d = e + 1 /\ e \in 0 .. N(s) /\ N(s) \in 1 .. 11
  <2>1. e < N(s) /\ d = e + 1 /\ e \in 0 .. N(s)
    OBVIOUS
  <2> QED BY ONLY <2>1, <1>2
<1>8. d \in 0 .. N(s) /\ d + 1 \in 0 .. N(s) + 1 /\ d > 0
  BY ONLY <1>0
<1>9. Place(s, d) \in Nat /\ Place(s, d + 1) >= Place(s, d) + 2
  <2>1. /\ Place(s, d) \in 7 .. 100
        /\ Place(s, d + 1) =
                 Place(s, d) + IF d = 0 THEN 1 + 3 * Behind(s)
                               ELSE IF d \notin Questions(s) THEN 2
                               ELSE IF s = "v1-permission-cancel" THEN 4 ELSE 3
    BY <1>8, Places
  <2>2. PICK a : a = Place(s, d)
    OBVIOUS
  <2>3. a \in Nat /\ (Place(s, d + 1) = a + 2 \/ Place(s, d + 1) = a + 3 \/ Place(s, d + 1) = a + 4)
    BY ONLY <1>8, <2>1, <2>2
  <2> QED BY ONLY <2>2, <2>3
<1>10. CASE r >= x
  <2>1. x \in 0 .. e /\ x + 1 \in 0 .. N(s) + 1 /\ x <= N(s) /\ x + 1 <= d
    BY ONLY <1>0, <1>6, <1>10
  <2>2. Pos(s) <= Place(s, x + 1)
    BY <1>1, <1>2, <1>4, <2>1 DEF ScriptGoes
  <2>3. Place(s, x + 1) <= Place(s, d)
    <3>1. CASE x + 1 = d
      BY <1>9, <3>1
    <3>2. CASE x + 1 # d
      <4>1. PICK y : y = x + 1
        OBVIOUS
      <4>2. y \in 0 .. N(s) + 1 /\ d \in 0 .. N(s) + 1 /\ y < d
        BY ONLY <1>0, <1>6, <1>8, <2>1, <3>2, <4>1
      <4>3. Place(s, y) < Place(s, d)
        BY <4>2, PlacesGrow
      <4>4. Place(s, y) \in Nat
        <5> QED BY <4>2, PlaceNat
      <4> QED BY <1>9, <4>1, <4>3, <4>4
    <3> QED BY <3>1, <3>2
  <2>4. Place(s, x + 1) \in Nat
    <3> QED BY <2>1, PlaceNat
  <2>5. PICK a, b, c : a = Place(s, x + 1) /\ b = Place(s, d) /\ c = Place(s, d + 1)
    OBVIOUS
  <2>6. c \in Nat
    <3> QED BY <1>8, <2>5, PlaceNat
  <2>7. ~(Pos(s) >= c)
    BY ONLY <1>2, <1>9, <2>2, <2>3, <2>4, <2>5, <2>6
  <2> QED BY <2>5, <2>7 DEF HasAnswered
<1>11. CASE ~(r >= x)
  <2>1. r = x - 1 /\ Pos(s) = Place(s, x) + 1
    BY <1>7, <1>11
  <2>2. x = d \/ x < d
    BY <1>6, <2>1
  <2>3. CASE x = d
    <3>1. PICK b, c : b = Place(s, d) /\ c = Place(s, d + 1)
      OBVIOUS
    <3>2. b \in Nat /\ c >= b + 2 /\ Pos(s) = b + 1
      BY <1>9, <2>1, <2>3, <3>1
    <3>3. c \in Nat
      <4> QED BY <1>8, <3>1, PlaceNat
    <3>4. ~(Pos(s) >= c)
      BY ONLY <3>2, <3>3
    <3> QED BY <3>1, <3>4 DEF HasAnswered
  <2>4. CASE x < d
    <3>1. x \in 0 .. N(s) + 1 /\ d \in 0 .. N(s) + 1
      BY ONLY <1>0, <1>6
    <3>2. Place(s, x) < Place(s, d)
      BY <2>4, <3>1, PlacesGrow
    <3>3. PICK a, b, c : a = Place(s, x) /\ b = Place(s, d) /\ c = Place(s, d + 1)
      OBVIOUS
    <3>4. a \in Nat /\ c \in Nat
      <4> QED BY <1>8, <3>1, <3>3, PlaceNat
    <3>5. a < b /\ b \in Nat /\ c >= b + 2 /\ Pos(s) = a + 1
      BY <1>9, <2>1, <3>2, <3>3
    <3>6. ~(Pos(s) >= c)
      BY ONLY <3>4, <3>5
    <3> QED BY <3>3, <3>6 DEF HasAnswered
  <2> QED BY <2>2, <2>3, <2>4
<1> QED BY <1>10, <1>11

\* The next event makes the turn one event longer.
LEMMA TurnAdvances ==
    ASSUME NEW s \in Scenarios, NEW e \in 0 .. N(s), e < N(s), NEW d, d = e + 1,
           NEW base, HarnessGoes(s, base), Total = base + e, Shapes,
           \E x : flows' = <<x>> /\ IsFlow(x),
           TurnFlow(s, d)', TurnAsks(s, d)', TurnSession(s), SessionsKept, version' = version,
           nextAgentRequestId' = Number(s, d) + 1, out' = <<Message(s, d)>>, Emits,
           UNCHANGED <<harnessVars, log, mark, todo>>,
           IsSeq(toAgent'), \A i \in DOMAIN toAgent' : IsCancel(toAgent'[i]) /\ s = "v1-permission-cancel",
           \A j \in Questions(s) : j < d => HasAnswered(s, j)
    PROVE  Turn(s)'
<1>1. /\ base \in Nat /\ Total \in Nat /\ N(s) \in 1 .. 11 /\ Behind(s) \in {0, 1} /\ e \in Nat
  <2>1. s \in Scenarios /\ HarnessGoes(s, base)
    OBVIOUS
  <2>2. base \in Nat /\ Total \in Nat /\ N(s) \in 1 .. 11 /\ Behind(s) \in {0, 1}
    BY ONLY <2>1, GoesFacts
  <2> QED BY <2>2
<1>2. d \in 0 .. N(s) /\ d \in 1 - Behind(s) .. N(s)
  BY <1>1
<1>3. HarnessGoes(s, base)' /\ Total' = Total + 1
  <2>1. PICK m : m = Message(s, d)
    OBVIOUS
  <2>2. PICK n : n = Total + 1
    OBVIOUS
  <2>3. n > base /\ n - base = d /\ ~(n <= base - Behind(s)) /\ n # base
    BY <1>1, <2>2
  <2>4. out' = <<m>> /\ m = Message(s, n - base)
    BY <2>1, <2>3
  <2> QED BY <2>2, <2>3, <2>4, EmitsDue
<1>4. base = Total' - d
  BY <1>1, <1>3
<1>5. PICK x : flows' = <<x>> /\ IsFlow(x)
  OBVIOUS
<1>6. PICK w : w = <<x>>
  OBVIOUS
<1>7. flows' = w /\ IsSeq(w) /\ Len(w) = 1 /\ DOMAIN w = 1 .. 1 /\ w[1] = x
  <2>1. IsSeq(w) /\ Len(w) = 1 /\ w[1] = x
    BY <1>6, ShortParts
  <2> QED BY <1>5, <1>6, <2>1, SeqLen
<1>8. \A f \in DOMAIN flows' : IsFlow(flows'[f])
  <2>1. \A f \in 1 .. 1 : f = 1
    OBVIOUS
  <2> QED BY <1>5, <1>7, <2>1
<1>9. \A i \in DOMAIN toAgent' : IsLine(toAgent'[i])
  BY DEF IsCancel
<1>10. Shapes'
  BY <1>7, <1>8, <1>9 DEF Shapes, SessionsKept
<1>11. TurnSession(s)'
  BY DEF TurnSession, SessionsKept
<1>12. \A j \in Questions(s) : j < d => HasAnswered(s, j)'
  BY DEF HasAnswered, Pos
<1>13. AgentGoes(s, d)'
  BY <1>2, <1>7, <1>10, <1>11, <1>12 DEF AgentGoes
<1>14. ~HasAnswered(s, d)'
  <2>1. ~HasAnswered(s, d)
    BY NotYetAnswered
  <2> QED BY <2>1 DEF HasAnswered, Pos
<1>15. LinesGo(s, d)'
  BY <1>14 DEF LinesGo
<1>16. InTurn(s, d, base)'
  BY <1>3, <1>4, <1>13, <1>15 DEF InTurn
<1> QED BY <1>2, <1>16, TurnGoes

-----------------------------------------------------------------------------
(* The end of a turn.                                                      *)

\* Past the prompt, the case makes no call.
LEMMA LaterTodo ==
    ASSUME NEW s \in Scenarios, ScriptGoes(s), IsSeq(todo)
    PROVE  \A i \in DOMAIN todo : todo[i].op \in LaterOps
<1>1. PICK t, p : t = Script(s) /\ p = Pos(s)
  OBVIOUS
<1>2. todo = From(t, p) /\ p \in Nat /\ p > 0
  <2>1. todo = From(Script(s), Pos(s)) /\ Pos(s) > 0
    BY DEF ScriptGoes, AtCase
  <2>2. Pos(s) \in 1 .. Len(Script(s))
    BY ScriptNow
  <2> QED BY <1>1, <2>1, <2>2
<1>3. IsSeq(t) /\ Len(t) \in Nat /\ \A i \in Place(s, 0) + 1 .. Len(t) : t[i].op \in LaterOps
  BY <1>1, ShapeOf DEF ScriptShape
<1>4. p \in 1 .. Len(t) + 1
  BY <1>1, <1>3, ScriptNow
<1>5. /\ DOMAIN From(t, p) = 1 .. Len(t) - p + 1
      /\ \A i \in 1 .. Len(t) - p + 1 : From(t, p)[i] = t[p + i - 1]
  BY ONLY <1>3, <1>4, SeqFrom
<1>6. PICK z : z = Place(s, 0)
  OBVIOUS
<1>7. z \in Nat /\ p >= z + 1
  <2>1. PICK x : x = Len(calls)
    OBVIOUS
  <2>2. /\ x \in 0 .. N(s) + 1
        /\ Pos(s) \in Place(s, x) + 1 .. IF x > N(s) THEN Place(s, x) + 1 ELSE Place(s, x + 1)
    BY <2>1 DEF ScriptGoes
  <2>3. N(s) \in 1 .. 11
    BY DEF N, Scenarios
  <2>4. 0 \in 0 .. N(s) + 1
    BY <2>3
  <2>5. Place(s, 0) \in Nat
    <3> QED BY <2>4, PlaceNat
  <2>6. Place(s, x) \in Nat
    <3> QED BY <2>2, PlaceNat
  <2>7. Place(s, x) >= Place(s, 0)
    <3>1. CASE x = 0
      BY <3>1, <2>5
    <3>2. CASE x # 0
      <4>1. 0 < x
        BY <2>2, <2>3, <3>2
      <4>2. Place(s, 0) < Place(s, x)
        BY <2>2, <2>4, <4>1, PlacesGrow
      <4> QED BY <2>5, <2>6, <4>2
    <3> QED BY <3>1, <3>2
  <2>8. p >= Place(s, x) + 1
    BY <1>1, <1>2, <2>2, <2>6
  <2>9. PICK y : y = Place(s, x)
    OBVIOUS
  <2> QED BY ONLY <1>2, <1>6, <2>5, <2>6, <2>7, <2>8, <2>9
<1>8. ASSUME NEW i \in 1 .. Len(t) - p + 1 PROVE From(t, p)[i].op \in LaterOps
  <2>1. p + i - 1 \in z + 1 .. Len(t)
    BY <1>2, <1>3, <1>7
  <2>2. PICK j : j = p + i - 1
    OBVIOUS
  <2>3. From(t, p)[i] = t[j] /\ j \in z + 1 .. Len(t)
    BY <1>5, <2>1, <2>2
  <2> QED BY <1>3, <1>6, <2>3
<1> QED BY <1>2, <1>5, <1>8

\* So what is still to be said chooses no scenario, and prompts nothing.
LEMMA QuietLines ==
    ASSUME NEW s \in Scenarios, ScriptGoes(s), IsSeq(todo), todo' = todo, IsSeq(toAgent'),
           \A i \in DOMAIN toAgent' : IsLine(toAgent'[i]) /\ toAgent'[i].type # "request"
    PROVE  LinesHarmless'
<1>1. \A i \in DOMAIN todo' : todo'[i].op \in LaterOps
  BY LaterTodo
<1>2. \A i \in DOMAIN todo' : todo'[i].op # "call"
  BY <1>1 DEF LaterOps
<1>3. SetsPlain' /\ NoPrompt'
  BY <1>2 DEF SetsPlain, NoPrompt, IsCall, IsCallOf
<1> QED BY <1>3 DEF LinesHarmless

\* The only flow runs code that asks nothing.
LEMMA HarmlessAfter ==
    ASSUME Shapes, NEW fl, fl.session = 1, OnlyFlow(fl),
           NEW b, b = Branch(fl), FlowShape(b), b.session = 1, HarmlessCode(b.todo),
           pendingClientCalls = {}
    PROVE  AgentHarmless'
<1>1. PICK t : t = b.todo
  OBVIOUS
<1>2. /\ IsSeq(t) /\ t # <<>> /\ Len(t) \in Nat /\ DOMAIN t = 1 .. Len(t) /\ 1 \in DOMAIN t
      /\ \A i \in DOMAIN t : IsSegment(t[i]) /\ t[i].op \in HarmlessOps
  <2>1. IsSeq(t) /\ t # <<>> /\ \A i \in DOMAIN t : IsSegment(t[i]) /\ t[i].op \in HarmlessOps
    BY <1>1 DEF HarmlessCode, HarmlessSegment
  <2> QED BY <2>1, SeqLen
<1>3. t[1].op \notin {"ask", "sleep"}
  BY <1>2 DEF HarmlessOps
<1>4. Runnable(b)
  BY <1>1, <1>2, <1>3 DEF Runnable
<1>5. /\ \E x : flows' = <<x>> /\ RanAs(x, b)
      /\ AfterRun(b, 1)
  BY <1>4, OnlyFlowRuns
<1>6. PICK x : flows' = <<x>> /\ RanAs(x, b)
  BY <1>5
<1>7. IsFlow(x) /\ x.todo = Tail(t) /\ x.status # "asking"
  BY <1>1, <1>3, <1>6 DEF RanAs, StatusAfter
<1>8. \A i \in DOMAIN x.todo : x.todo[i].op \in HarmlessOps
  <2>1. DOMAIN Tail(t) = 1 .. Len(t) - 1 /\ \A i \in 1 .. Len(t) - 1 : Tail(t)[i] = t[i + 1]
    BY <1>2, SeqTail
  <2>2. ASSUME NEW i \in DOMAIN x.todo PROVE x.todo[i].op \in HarmlessOps
    <3>1. i + 1 \in DOMAIN t /\ x.todo[i] = t[i + 1]
      BY <1>2, <1>7, <2>1
    <3> QED BY <1>2, <3>1
  <2> QED BY <2>2
<1>9. NeverAsks(x)'
  BY <1>8 DEF NeverAsks
<1>10. PICK w : w = <<x>>
  OBVIOUS
<1>11. flows' = w /\ IsSeq(w) /\ DOMAIN w = 1 .. 1 /\ w[1] = x
  <2>1. IsSeq(w) /\ Len(w) = 1 /\ w[1] = x
    BY <1>10, ShortParts
  <2> QED BY <1>6, <1>10, <2>1, SeqLen
<1>12. ASSUME NEW g \in DOMAIN flows' PROVE flows'[g] = x
  BY <1>11
<1>13. FlowsHarmless'
  BY <1>7, <1>9, <1>12 DEF FlowsHarmless, NeverAsks
<1>14. pendingClientCalls' = {} /\ SessionsKept
  BY <1>1, <1>3, <1>5 DEF AfterRun
<1> QED BY <1>7, <1>11, <1>12, <1>13, <1>14 DEF AgentHarmless, SessionsKept

-----------------------------------------------------------------------------
(* Branches of a turn.                                                     *)

\* The whole of a sequence.
LEMMA FromFirst ==
    ASSUME NEW t, IsSeq(t), t # <<>>
    PROVE  From(t, 1) = t
<1>1. PICK n : n = 1
  OBVIOUS
<1>2. Len(t) \in Nat /\ n \in 1 .. Len(t) + 1
  BY <1>1, SeqLen
<1>3. PICK u : u = From(t, n)
  OBVIOUS
<1>4. /\ IsSeq(From(t, n)) /\ Len(From(t, n)) = Len(t) - n + 1
      /\ \A i \in 1 .. Len(t) - n + 1 : From(t, n)[i] = t[n + i - 1]
  BY <1>2, SeqFrom
<1>5. IsSeq(u) /\ IsSeq(t) /\ Len(u) = Len(t) /\ \A i \in 1 .. Len(u) : u[i] = t[i]
  BY <1>1, <1>2, <1>3, <1>4
<1>6. u = t
  BY ONLY <1>5, SameSeq
<1> QED BY <1>1, <1>3, <1>6

\* The turn's flow, ready to run, before a branch.
TurnStart(fl, s, e) ==
    /\ FlowShape(fl) /\ fl.session = 1 /\ fl.todo = Code(s, e)
    /\ fl.kind = "prompt" /\ fl.request = Latest
    /\ e > 0 => fl.scenario = s
    /\ s # "v1-permission-cancel" => fl.cancelled = FALSE
    /\ AllowedOn(s, e) => fl.answer = "allow"

\* The code of v2 after the permission.
LEMMA AllowedInV2 ==
    <<Say("running")>> \o <<Say("terminal_update"), Say("terminal_output_chunk"),
                            Ask("elicitation/create"), SayNew("agent_message", "agent"),
                            Say("idle_end_turn")>> = AllowedV2
<1>1. PICK a, b, c, d, e, f :
         /\ a = Say("running") /\ b = Say("terminal_update") /\ c = Say("terminal_output_chunk")
         /\ d = Ask("elicitation/create") /\ e = SayNew("agent_message", "agent")
         /\ f = Say("idle_end_turn")
  OBVIOUS
<1>2. PICK x, y, z : x = <<a>> /\ y = <<b, c, d, e, f>> /\ z = <<a, b, c, d, e, f>>
  OBVIOUS
<1>3. /\ x \in Seq({a}) /\ y \in Seq({b, c, d, e, f}) /\ z \in Seq({a, b, c, d, e, f})
      /\ Len(x) = 1 /\ Len(y) = 5 /\ Len(z) = 6
      /\ x[1] = a /\ y[1] = b /\ y[2] = c /\ y[3] = d /\ y[4] = e /\ y[5] = f
      /\ z[1] = a /\ z[2] = b /\ z[3] = c /\ z[4] = d /\ z[5] = e /\ z[6] = f
  BY <1>2
<1>4. IsSeq(x) /\ IsSeq(y) /\ IsSeq(z)
  BY <1>3, SeqIs
<1>5. PICK w : w = x \o y
  OBVIOUS
<1>6. /\ IsSeq(x \o y) /\ Len(x \o y) = Len(x) + Len(y)
      /\ \A i \in 1 .. Len(x) : (x \o y)[i] = x[i]
      /\ \A i \in 1 .. Len(y) : (x \o y)[Len(x) + i] = y[i]
  BY ONLY <1>4, SeqConcat
<1>7. IsSeq(w) /\ Len(w) = 6 /\ w[1] = x[1] /\ \A i \in 1 .. 5 : w[1 + i] = y[i]
  BY ONLY <1>3, <1>5, <1>6
<1>8. w[2] = y[1] /\ w[3] = y[2] /\ w[4] = y[3] /\ w[5] = y[4] /\ w[6] = y[5]
  <2>1. w[1 + 1] = y[1] /\ w[1 + 2] = y[2] /\ w[1 + 3] = y[3] /\ w[1 + 4] = y[4] /\ w[1 + 5] = y[5]
    BY ONLY <1>7
  <2> QED BY ONLY <2>1
<1>9. IsSeq(w) /\ IsSeq(z) /\ Len(w) = Len(z) /\ \A i \in 1 .. Len(w) : w[i] = z[i]
  <2>1. ASSUME NEW i \in 1 .. 6 PROVE w[i] = z[i]
    <3>1. i = 1 \/ i = 2 \/ i = 3 \/ i = 4 \/ i = 5 \/ i = 6
      BY <2>1
    <3> QED BY ONLY <1>3, <1>7, <1>8, <3>1
  <2> QED BY ONLY <1>3, <1>4, <1>7, <2>1
<1>10. w = z
  BY ONLY <1>9, SameSeq
<1> QED BY <1>1, <1>2, <1>5, <1>10 DEF AllowedV2

\* Where the code branches, it goes on with the turn, or with a fault.
LEMMA TurnBranches ==
    ASSUME NEW s \in Scenarios, NEW e \in 0 .. N(s), e < N(s), NEW fl, TurnStart(fl, s, e),
           TurnSession(s), NEW b, b = Branch(fl)
    PROVE  TurnReady(b, s, e) \/ (FlowShape(b) /\ b.session = 1 /\ HarmlessCode(b.todo))
<1>1. CASE ~Branches(s, e)
  <2>1. Code(s, e) = From(CodeOf(s, e), PlaceOf(s, e))
    BY <1>1, CodeHere
  <2>2. PICK t : t = From(CodeOf(s, e), PlaceOf(s, e))
    OBVIOUS
  <2>3. Due(t[1], s, e + 1)
    BY <2>2, NextSegment
  <2>4. fl.todo[1].op \in {"ask", "say"}
    BY <2>1, <2>2, <2>3 DEF TurnStart, Due
  <2>5. b = fl
    BY <2>4 DEF Branch
  <2>6. e > 0
    BY <1>1 DEF Branches
  <2> QED BY <2>1, <2>5, <2>6 DEF TurnStart, TurnReady
<1>2. CASE e = 0
  <2>1. fl.todo = <<Goto("start")>>
    BY <1>2, CodeHere DEF TurnStart
  <2>2. fl.todo[1].op = "start"
    BY <2>1 DEF Goto, Segment
  <2>3. PICK p : p = PromptScript(s)
    OBVIOUS
  <2>4. sessions[1].scenario = s /\ fl.session = 1
    BY DEF TurnSession, TurnStart
  <2>5. b = AsStarted(fl, s, p) /\ FlowShape(fl)
    BY <2>2, <2>3, <2>4 DEF Branch, StartOf, AsStarted, TurnStart
  <2>6. /\ FlowShape(b) /\ b.kind = fl.kind /\ b.request = fl.request /\ b.session = fl.session
        /\ b.scenario = s /\ b.todo = p /\ b.cancelled = fl.cancelled
    BY ONLY <2>5, FlowStarted
  <2>7. p = CodeOf(s, e) /\ PlaceOf(s, e) = 1
    BY <1>2, <2>3 DEF PromptScript, CodeOf, PlaceOf, Scenarios
  <2>8. IsSeq(p) /\ p # <<>>
    BY <2>7, CodeDue DEF IsCode
  <2>9. b.todo = From(CodeOf(s, e), PlaceOf(s, e))
    BY <2>6, <2>7, <2>8, FromFirst
  <2>10. ~AllowedOn(s, e)
    BY <1>2 DEF AllowedOn
  <2> QED BY <2>6, <2>9, <2>10 DEF TurnStart, TurnReady
<1>3. CASE s # "v2-full-turn" /\ e = 3
  <2>1. s = "v1-full-turn"
    BY <1>3 DEF N, Scenarios
  <2>2. fl.todo = <<Goto("judgeV1")>>
    BY <1>3, CodeHere DEF TurnStart
  <2>3. fl.todo[1].op = "judgeV1"
    BY <2>2 DEF Goto, Segment
  <2>4. PICK p : p = AfterPermissionV1(fl)
    OBVIOUS
  <2>5. b = AsBranched(fl, p) /\ FlowShape(fl)
    BY <2>3, <2>4 DEF Branch, AsBranched, TurnStart
  <2>6. /\ FlowShape(b) /\ b.kind = fl.kind /\ b.request = fl.request /\ b.session = fl.session
        /\ b.scenario = fl.scenario /\ b.todo = p /\ b.cancelled = fl.cancelled
        /\ b.answer = fl.answer
    BY ONLY <2>5, FlowBranched
  <2>7. fl.answer = "allow" /\ fl.cancelled = FALSE /\ fl.scenario = s
    BY <1>3, <2>1 DEF TurnStart, AllowedOn
  <2>8. CASE "midturn-bad-update-v1" \in faults
    <3>1. p = <<Segment("bad", "none", "none")>>
      BY <2>4, <2>8 DEF AfterPermissionV1
    <3>2. HarmlessCode(p)
      BY <3>1, SegmentIs, HarmlessTuples
    <3> QED BY <2>6, <3>2 DEF TurnStart
  <2>9. CASE "midturn-bad-update-v1" \notin faults
    <3>1. p = AllowedV1
      BY <2>1, <2>4, <2>7, <2>9 DEF AfterPermissionV1
    <3>2. CodeOf(s, e) = p /\ PlaceOf(s, e) = 1
      BY <1>3, <3>1 DEF CodeOf, PlaceOf
    <3>3. IsSeq(p) /\ p # <<>>
      BY <3>2, CodeDue DEF IsCode
    <3>4. b.todo = From(CodeOf(s, e), PlaceOf(s, e))
      BY <2>6, <3>2, <3>3, FromFirst
    <3> QED BY <2>6, <2>7, <3>4 DEF TurnStart, TurnReady
  <2> QED BY <2>8, <2>9
<1>4. CASE s = "v2-full-turn" /\ e = 5
  <2>2. fl.todo = <<Goto("judgeV2")>>
    BY <1>4, CodeHere DEF TurnStart
  <2>3. fl.todo[1].op = "judgeV2"
    BY <2>2 DEF Goto, Segment
  <2>4. PICK p : p = AfterPermissionV2(fl)
    OBVIOUS
  <2>5. b = AsBranched(fl, p) /\ FlowShape(fl)
    BY <2>3, <2>4 DEF Branch, AsBranched, TurnStart
  <2>6. /\ FlowShape(b) /\ b.kind = fl.kind /\ b.request = fl.request /\ b.session = fl.session
        /\ b.scenario = fl.scenario /\ b.todo = p /\ b.cancelled = fl.cancelled
        /\ b.answer = fl.answer
    BY ONLY <2>5, FlowBranched
  <2>7. fl.answer = "allow" /\ fl.cancelled = FALSE /\ fl.scenario = s
    BY <1>4 DEF TurnStart, AllowedOn
  <2>8. CASE "illegal-v2-fs-read-text-file" \in faults
    <3>1. p = <<Say("running")>> \o <<Segment("illegal", "none", "none")>>
      BY <2>4, <2>7, <2>8 DEF AfterPermissionV2
    <3>2. HarmlessCode(<<Say("running")>>) /\ HarmlessCode(<<Segment("illegal", "none", "none")>>)
      BY SegmentIs, HarmlessTuples
    <3>3. HarmlessCode(p)
      BY <3>1, <3>2, HarmlessJoin
    <3> QED BY <2>6, <3>3 DEF TurnStart
  <2>9. CASE "illegal-v2-fs-read-text-file" \notin faults
    <3>1. p = AllowedV2
      BY <2>4, <2>7, <2>9, AllowedInV2 DEF AfterPermissionV2
    <3>2. CodeOf(s, e) = p /\ PlaceOf(s, e) = 1
      BY <1>4, <3>1 DEF CodeOf, PlaceOf
    <3>3. IsSeq(p) /\ p # <<>>
      BY <3>2, CodeDue DEF IsCode
    <3>4. b.todo = From(CodeOf(s, e), PlaceOf(s, e))
      BY <2>6, <3>2, <3>3, FromFirst
    <3> QED BY <2>6, <2>7, <3>4 DEF TurnStart, TurnReady
  <2> QED BY <2>8, <2>9
<1> QED BY <1>1, <1>2, <1>3, <1>4 DEF Branches

\* A turn's flow that is not asking has what it needs to go on.
LEMMA TurnOn ==
    ASSUME NEW s \in Scenarios, NEW e \in 0 .. N(s), AgentGoes(s, e), LinesGo(s, e),
           flows[1].status # "asking"
    PROVE  /\ TurnStart(flows[1], s, e) /\ IsFlow(flows[1]) /\ DOMAIN flows = 1 .. 1
           /\ flows[1].status = "ready" /\ pendingClientCalls = {} /\ e < N(s)
           /\ \A j \in Questions(s) : j < e + 1 => HasAnswered(s, j)
           /\ \A i \in DOMAIN toAgent : IsCancel(toAgent[i]) /\ s = "v1-permission-cancel"
<1>1. Shapes /\ Len(flows) = 1 /\ TurnFlow(s, e) /\ TurnAsks(s, e)
      /\ \A j \in Questions(s) : j < e => HasAnswered(s, j)
  BY DEF AgentGoes
<1>2. IsSeq(flows) /\ DOMAIN flows = 1 .. 1
  BY <1>1, SeqLen DEF Shapes
<1>3. IsFlow(flows[1])
  BY <1>1, <1>2 DEF Shapes
<1>4. PICK fl : fl = flows[1]
  OBVIOUS
<1>5. /\ fl.status = "ready" /\ pendingClientCalls = {} /\ e < N(s)
      /\ e \in Questions(s) => HasAnswered(s, e)
      /\ AllowedOn(s, e) => fl.answer = "allow"
  BY <1>1, <1>4 DEF TurnAsks
<1>6. TurnStart(fl, s, e)
  BY <1>1, <1>3, <1>4, <1>5 DEF TurnStart, TurnFlow, IsFlow
<1>7. ASSUME NEW j \in Questions(s), j < e + 1 PROVE HasAnswered(s, j)
  <2>1. j \in Int
    BY DEF Questions, Scenarios
  <2>2. j < e \/ j = e
    BY <1>7, <2>1
  <2> QED BY <1>1, <1>5, <2>2
<1>8. \A i \in DOMAIN toAgent : IsCancel(toAgent[i]) /\ s = "v1-permission-cancel"
  BY DEF LinesGo
<1> QED BY <1>2, <1>3, <1>4, <1>5, <1>6, <1>7, <1>8

\* The agent goes on with the turn: it sends the next events, or asks no more.
LEMMA ContinueInTurn ==
    ASSUME NEW s \in Scenarios, NEW e \in 0 .. N(s), NEW base, InTurn(s, e, base), AgentGoesOn
    PROVE  Turn(s)' \/ Harmless'
<1>1. /\ AgentGoes(s, e) /\ LinesGo(s, e) /\ HarnessGoes(s, base) /\ Total = base + e
      /\ IsSeq(todo) /\ IsSeq(toAgent)
  BY TurnFacts
<1>2. Shapes /\ Len(flows) = 1 /\ TurnSession(s) /\ nextAgentRequestId = Number(s, e) + 1
  BY <1>1 DEF AgentGoes
<1>3. DOMAIN flows = 1 .. 1
  <2>1. IsSeq(flows)
    BY <1>2 DEF Shapes
  <2> QED BY <1>2, <2>1, SeqLen
<1>4. /\ Continue(1) /\ Emits
      /\ UNCHANGED <<harnessVars, fatalCause, log, toAgent, Case_>>
  <2>1. PICK f \in DOMAIN flows : Continue(f) /\ Emits
                 /\ UNCHANGED <<harnessVars, fatalCause, log, toAgent, Case_>>
    BY DEF AgentGoesOn
  <2>2. f = 1
    BY <1>3
  <2> QED BY <2>1, <2>2
<1>5. PICK fl : fl = flows[1]
  OBVIOUS
<1>6. /\ fl.status = "ready" /\ Run(1, fl) /\ version' = version /\ faults' = faults
  BY <1>4, <1>5 DEF Continue, lifeVars, startVars
<1>7. /\ TurnStart(fl, s, e) /\ pendingClientCalls = {} /\ e < N(s)
      /\ \A j \in Questions(s) : j < e + 1 => HasAnswered(s, j)
      /\ \A i \in DOMAIN toAgent : IsCancel(toAgent[i]) /\ s = "v1-permission-cancel"
  BY <1>1, <1>5, <1>6, TurnOn
<1>8. OnlyFlow(fl) /\ fl.session = 1
  BY <1>2, <1>6, <1>7 DEF OnlyFlow, TurnStart
<1>9. PICK b : b = Branch(fl)
  OBVIOUS
<1>10. UNCHANGED <<harnessVars, log, mark, todo>> /\ toAgent' = toAgent /\ nextId' = nextId
  BY <1>4 DEF Case_, harnessVars
<1>11. CASE TurnReady(b, s, e)
  <2>1. PICK d : d = e + 1
    OBVIOUS
  <2>2. /\ \E x : flows' = <<x>> /\ IsFlow(x)
        /\ TurnFlow(s, d)' /\ TurnAsks(s, d)' /\ SessionsKept
        /\ nextAgentRequestId' = Number(s, d) + 1
        /\ out' = <<Message(s, d)>>
    BY <1>2, <1>6, <1>7, <1>8, <1>9, <1>10, <1>11, <2>1, TurnRuns
  <2>3. IsSeq(toAgent') /\ \A i \in DOMAIN toAgent' : IsCancel(toAgent'[i]) /\ s = "v1-permission-cancel"
    BY <1>1, <1>7, <1>10
  <2>4. \A j \in Questions(s) : j < d => HasAnswered(s, j)
    BY <1>7, <2>1
  <2>5. Emits
    BY <1>4
  <2>6. Shapes /\ TurnSession(s) /\ e < N(s)
    BY <1>2, <1>7
  <2>7. s \in Scenarios /\ e \in 0 .. N(s) /\ version' = version
    BY <1>6
  <2>8. UNCHANGED <<harnessVars, log, mark, todo>> /\ HarnessGoes(s, base) /\ Total = base + e
    BY <1>1, <1>10
  <2>9. Turn(s)'
    BY ONLY <2>1, <2>2, <2>3, <2>4, <2>5, <2>6, <2>7, <2>8, TurnAdvances
  <2> QED BY <2>9
<1>12. CASE FlowShape(b) /\ b.session = 1 /\ HarmlessCode(b.todo)
  <2>1. AgentHarmless'
    BY <1>2, <1>7, <1>8, <1>9, <1>12, HarmlessAfter
  <2>2. \A i \in DOMAIN toAgent' : IsLine(toAgent'[i]) /\ toAgent'[i].type # "request"
    BY <1>7, <1>10 DEF IsCancel
  <2>3. LinesHarmless'
    BY <1>1, <1>10, <2>2, QuietLines DEF HarnessGoes
  <2> QED BY <2>1, <2>3, ShapesAre
<1> QED BY <1>2, <1>7, <1>9, <1>11, <1>12, TurnBranches

-----------------------------------------------------------------------------
(* The agent reads a line in a turn.                                       *)

\* The flow as it was, but for the mark of its context.
SameButCancelled(x, y) ==
    /\ IsFlow(x) /\ x.kind = y.kind /\ x.request = y.request /\ x.scenario = y.scenario
    /\ x.todo = y.todo /\ x.status = y.status /\ x.answer = y.answer

\* A cancel leaves a flow all but its cancelled flag.
LEMMA CancelMarks ==
    ASSUME IsSeq(flows), Len(flows) = 1, IsFlow(flows[1]), NEW z, SessionCancel(z) \/ flows' = flows
    PROVE  IsSeq(flows') /\ Len(flows') = 1 /\ SameButCancelled(flows'[1], flows[1])
<1>1. PICK y : y = flows[1]
  OBVIOUS
<1>2. SameButCancelled(y, y) /\ FlowShape(y)
  BY <1>1 DEF SameButCancelled, IsFlow
<1>3. CASE flows' = flows
  BY <1>1, <1>2, <1>3
<1>4. CASE SessionCancel(z)
  <2>1. PICK f : f = IF Known(z) THEN promptContexts[z] ELSE 0
    OBVIOUS
  <2>2. flows' = IF f = 0 THEN flows ELSE [flows EXCEPT ![f].cancelled = TRUE]
    BY <1>4, <2>1 DEF SessionCancel
  <2>3. CASE f = 0 \/ f # 1
    <3>1. DOMAIN flows = 1 .. 1 /\ flows = [g \in DOMAIN flows |-> flows[g]]
      BY SeqLen DEF IsSeq
    <3>2. flows' = flows
      <4>1. CASE f = 0
        BY <2>2, <4>1
      <4>2. CASE f # 0
        <5>1. PICK x : x = [flows[f] EXCEPT !.cancelled = TRUE]
          OBVIOUS
        <5>2. flows' = [flows EXCEPT ![f] = x]
          BY <2>2, <4>2, <5>1
        <5>3. f \notin DOMAIN flows
          BY <2>3, <3>1, <4>2
        <5> QED BY <3>1, <5>2, <5>3
      <4> QED BY <4>1, <4>2
    <3> QED BY <1>3, <3>2
  <2>4. CASE f = 1
    <3>1. PICK x : x = AsCancelled(y, TRUE)
      OBVIOUS
    <3>2. flows' = [flows EXCEPT ![1] = x]
      BY <1>1, <2>2, <2>4, <3>1 DEF AsCancelled
    <3>3. /\ FlowShape(x) /\ x.kind = y.kind /\ x.request = y.request /\ x.session = y.session
          /\ x.scenario = y.scenario /\ x.todo = y.todo /\ x.status = y.status /\ x.answer = y.answer
      <4>1. PICK a : a = TRUE
        OBVIOUS
      <4>2. FlowShape(y) /\ x = AsCancelled(y, a)
        BY <1>2, <3>1, <4>1
      <4>3. /\ FlowShape(x)
            /\ x.kind = y.kind /\ x.request = y.request /\ x.session = y.session
            /\ x.scenario = y.scenario /\ x.todo = y.todo /\ x.status = y.status
            /\ x.answer = y.answer
        BY ONLY <4>2, FlowCancelled
      <4> QED BY <4>3
    <3>4. SameButCancelled(x, y)
      BY <1>1, <3>3 DEF SameButCancelled, IsFlow
    <3>5. PICK q, r : q = flows /\ r = flows'
      OBVIOUS
    <3>6. IsSeq(q) /\ Len(q) = 1 /\ r = [q EXCEPT ![1] = x]
      BY <3>2, <3>5
    <3>7. IsSeq(q) /\ DOMAIN r = DOMAIN q /\ r = [g \in DOMAIN q |-> r[g]]
      <4>1. r = [q EXCEPT ![1] = x]
        BY <3>6
      <4>2. DOMAIN r = DOMAIN q /\ r = [g \in DOMAIN q |-> r[g]]
        BY ONLY <4>1
      <4> QED BY <3>6, <4>2
    <3>8. IsSeq(r) /\ Len(r) = Len(q)
      BY ONLY <3>7, SeqChanged
    <3>9. 1 \in DOMAIN flows
      BY SeqLen
    <3> QED BY <1>1, <3>2, <3>4, <3>5, <3>6, <3>8, <3>9
  <2> QED BY <2>3, <2>4
<1> QED BY <1>3, <1>4

\* The line that the agent reads, and the lines that are left.
LEMMA LinesMove ==
    ASSUME IsSeq(toAgent), toAgent # <<>>, toAgent' = Tail(toAgent),
           \A i \in DOMAIN toAgent : IsLine(toAgent[i])
    PROVE  /\ Len(toAgent) \in Nat \ {0} /\ DOMAIN toAgent = 1 .. Len(toAgent) /\ 1 \in DOMAIN toAgent
           /\ Head(toAgent) = toAgent[1] /\ IsLine(toAgent[1])
           /\ IsSeq(toAgent') /\ Len(toAgent') = Len(toAgent) - 1
           /\ DOMAIN toAgent' = 1 .. Len(toAgent) - 1
           /\ \A i \in 1 .. Len(toAgent) - 1 : toAgent'[i] = toAgent[i + 1] /\ IsLine(toAgent'[i])
<1>1. PICK q : q = toAgent
  OBVIOUS
<1>2. Len(q) \in Nat /\ DOMAIN q = 1 .. Len(q) /\ Head(q) = q[1] /\ Len(q) # 0
  BY <1>1, SeqLen
<1>3. /\ IsSeq(Tail(q)) /\ Len(Tail(q)) = Len(q) - 1 /\ DOMAIN Tail(q) = 1 .. Len(q) - 1
      /\ \A i \in 1 .. Len(q) - 1 : Tail(q)[i] = q[i + 1]
  BY <1>1, SeqTail
<1>4. 1 \in DOMAIN q
  BY <1>2
<1>5. ASSUME NEW i \in 1 .. Len(q) - 1 PROVE IsLine(q[i + 1])
  <2>1. i + 1 \in DOMAIN q
    BY <1>2
  <2> QED BY <1>1, <2>1
<1> QED BY <1>1, <1>2, <1>3, <1>4, <1>5

\* The agent reads that the turn is cancelled.
LEMMA CancelInTurn ==
    ASSUME NEW s \in Scenarios, NEW e \in 0 .. N(s), NEW base, InTurn(s, e, base), AgentReads,
           s = "v1-permission-cancel", IsCancel(Head(toAgent)),
           flows[1].status = "asking" /\ HasAnswered(s, e) => Len(toAgent) # 1
    PROVE  Turn(s)' /\ crashed' = crashed
<1>1. /\ AgentGoes(s, e) /\ LinesGo(s, e) /\ HarnessGoes(s, base) /\ base = Total - e
      /\ IsSeq(todo) /\ IsSeq(toAgent) /\ (\A i \in DOMAIN toAgent : IsLine(toAgent[i]))
  BY TurnFacts DEF InTurn
<1>2. Shapes /\ Len(flows) = 1 /\ TurnSession(s) /\ TurnFlow(s, e) /\ TurnAsks(s, e)
  BY <1>1 DEF AgentGoes
<1>3. IsSeq(flows) /\ IsFlow(flows[1])
  <2>1. IsSeq(flows)
    BY <1>2 DEF Shapes
  <2>2. 1 \in DOMAIN flows
    BY <1>2, <2>1, SeqLen
  <2> QED BY <1>2, <2>1, <2>2 DEF Shapes
<1>4. PICK l : l = Head(toAgent)
  OBVIOUS
<1>5. /\ toAgent # <<>> /\ HandleNotification(l) /\ toAgent' = Tail(toAgent) /\ Emits
      /\ UNCHANGED <<harnessVars, fatalCause, log, mark, todo, caseVars>>
  BY <1>4 DEF AgentReads, Receive, IsCancel, Case_
<1>6. SessionCancel(l.session) \/ Emit(<<>>)
  BY <1>4, <1>5 DEF HandleNotification, IsCancel
<1>7. /\ out' = <<>> /\ faults' = faults
      /\ UNCHANGED <<version, sessions, pendingClientCalls, nextAgentRequestId, crashed>>
      /\ SessionCancel(l.session) \/ flows' = flows
  BY <1>6 DEF SessionCancel, Emit, lifeVars, flowVars, startVars
<1>8. IsSeq(flows') /\ Len(flows') = 1 /\ SameButCancelled(flows'[1], flows[1])
  BY <1>2, <1>3, <1>7, CancelMarks
<1>9. /\ Len(toAgent) \in Nat \ {0} /\ DOMAIN toAgent = 1 .. Len(toAgent)
      /\ IsSeq(toAgent') /\ Len(toAgent') = Len(toAgent) - 1
      /\ DOMAIN toAgent' = 1 .. Len(toAgent) - 1
      /\ \A i \in 1 .. Len(toAgent) - 1 : toAgent'[i] = toAgent[i + 1] /\ IsLine(toAgent'[i])
  BY <1>1, <1>5, LinesMove
<1>10. Shapes'
  <2>1. \A g \in DOMAIN flows' : g = 1
    <3>1. DOMAIN flows' = 1 .. 1
      BY <1>8, SeqLen
    <3> QED BY <3>1
  <2>2. \A g \in DOMAIN flows' : IsFlow(flows'[g])
    BY <1>8, <2>1 DEF SameButCancelled
  <2> QED BY <1>1, <1>2, <1>5, <1>7, <1>8, <1>9, <2>2 DEF Shapes
<1>11. PICK x : x = flows'[1]
  OBVIOUS
<1>12. /\ x.kind = flows[1].kind /\ x.request = flows[1].request /\ x.scenario = flows[1].scenario
       /\ x.todo = flows[1].todo /\ x.status = flows[1].status /\ x.answer = flows[1].answer
  BY <1>8, <1>11 DEF SameButCancelled
<1>13. Latest' = Latest /\ Pos(s)' = Pos(s)
  BY <1>5 DEF Latest, Pos, harnessVars
<1>14. \A j : HasAnswered(s, j)' = HasAnswered(s, j)
  BY <1>13 DEF HasAnswered
<1>15. TurnFlow(s, e)'
  <2>1. Code(s, e)' = Code(s, e)
    BY <1>7, CodeStays
  <2> QED BY <1>2, <1>11, <1>12, <1>13, <2>1 DEF TurnFlow
<1>16. TurnAsks(s, e)'
  <2>1. CASE flows[1].status = "asking"
    BY <1>2, <1>7, <1>11, <1>12, <2>1 DEF TurnAsks
  <2>2. CASE flows[1].status # "asking"
    BY <1>2, <1>7, <1>11, <1>12, <1>14, <2>2 DEF TurnAsks
  <2> QED BY <2>1, <2>2
<1>17. AgentGoes(s, e)'
  <2>1. TurnSession(s)'
    BY <1>2, <1>7 DEF TurnSession
  <2> QED BY <1>1, <1>7, <1>8, <1>10, <1>14, <1>15, <1>16, <2>1 DEF AgentGoes
<1>18. LinesGo(s, e)'
  <2>1. CASE flows[1].status = "asking" /\ HasAnswered(s, e)
    <3>1. toAgent' # <<>>
      <4>1. Len(toAgent') # 0
        BY <1>9, <2>1
      <4> QED BY <1>9, <4>1, SeqLen
    <3>2. ASSUME NEW i \in DOMAIN toAgent'
          PROVE  IF i = Len(toAgent') THEN IsAnswer(toAgent'[i], s, e)
                 ELSE IsCancel(toAgent'[i])
      <4>1. /\ i \in Nat /\ i + 1 \in DOMAIN toAgent /\ toAgent'[i] = toAgent[i + 1]
            /\ (i + 1 = Len(toAgent) <=> i = Len(toAgent'))
        BY <1>9
      <4>2. IF i + 1 = Len(toAgent) THEN IsAnswer(toAgent[i + 1], s, e) ELSE IsCancel(toAgent[i + 1])
        BY <1>1, <2>1, <4>1 DEF LinesGo
      <4> QED BY <4>1, <4>2
    <3> QED BY <1>11, <1>12, <1>14, <2>1, <3>1, <3>2 DEF LinesGo
  <2>2. CASE ~(flows[1].status = "asking" /\ HasAnswered(s, e))
    <3>1. ASSUME NEW i \in DOMAIN toAgent' PROVE IsCancel(toAgent'[i])
      <4>1. i + 1 \in DOMAIN toAgent /\ toAgent'[i] = toAgent[i + 1]
        BY <1>9
      <4> QED BY <1>1, <2>2, <4>1 DEF LinesGo
    <3> QED BY <1>11, <1>12, <1>14, <2>2, <3>1 DEF LinesGo
  <2> QED BY <2>1, <2>2
<1>19. HarnessGoes(s, base)' /\ Total' = Total
  <2>1. toHarness' = toHarness
    <3>1. IsSeq(toHarness)
      BY <1>1, GoesFacts
    <3> QED BY <1>5, <1>7, <3>1, EmitsNone
  <2> QED BY <1>1, <1>5, <2>1, SameHarness DEF harnessVars
<1>20. InTurn(s, e, base)'
  BY <1>1, <1>17, <1>18, <1>19 DEF InTurn
<1> QED BY <1>7, <1>20, TurnGoes

\* After the last question the prompt's code asks no more.
LEMMA LastCode ==
    ASSUME NEW s \in Scenarios, NEW fl, fl.todo = Code(s, N(s)), fl.scenario = s
    PROVE  NeverAsks(fl)
<1>1. CASE s \in {"v1-permission-reject", "v1-permission-cancel"}
  <2>1. PICK e : e = N(s)
    OBVIOUS
  <2>2. e = 3 /\ e \in 0 .. N(s) /\ s # "v2-full-turn"
    BY <1>1, <2>1 DEF N
  <2>3. Code(s, e) = <<Goto("judgeV1")>>
    BY <2>2, CodeHere
  <2> QED BY <1>1, <2>1, <2>3 DEF NeverAsks
<1>2. ASSUME NEW t, IsCode(t), NEW p \in 1 .. Len(t), fl.todo = From(t, p),
             \A i \in p .. Len(t) : t[i].op \in HarmlessOps
      PROVE  NeverAsks(fl)
  <2>1. \A i \in DOMAIN From(t, p) : p + i - 1 \in p .. Len(t) /\ From(t, p)[i] = t[p + i - 1]
    BY <1>2, CodeFrom
  <2>2. \A i \in DOMAIN fl.todo : fl.todo[i].op \in HarmlessOps
    BY <1>2, <2>1
  <2> QED BY <2>2 DEF NeverAsks
<1>3. CASE s = "v1-full-turn"
  <2>1. PICK t, p : t = AllowedV1 /\ p = 9
    OBVIOUS
  <2>2. IsCode(t) /\ Len(t) > 8 /\ \A i \in 9 .. Len(t) : t[i].op \in HarmlessOps
    BY <2>1, AllowedV1Is
  <2>3. Len(t) \in Nat
    BY <2>2, SeqLen DEF IsCode
  <2>4. fl.todo = From(t, p)
    BY <1>3, <2>1 DEF Code, N
  <2> QED BY <1>2, <2>1, <2>2, <2>3, <2>4
<1>4. CASE s = "v2-full-turn"
  <2>1. PICK t, p : t = AllowedV2 /\ p = 5
    OBVIOUS
  <2>2. IsCode(t) /\ Len(t) = 6 /\ p = 5 /\ \A i \in 5 .. 6 : t[i].op \in HarmlessOps
    BY <2>1, AllowedV2Is
  <2>4. fl.todo = From(t, p)
    BY <1>4, <2>1 DEF Code, N
  <2>5. p \in 1 .. Len(t) /\ \A i \in p .. Len(t) : t[i].op \in HarmlessOps
    BY ONLY <2>2
  <2>6. IsCode(t)
    BY <2>2
  <2> QED BY <1>2, <2>4, <2>5, <2>6
<1> QED BY <1>1, <1>3, <1>4 DEF Scenarios

\* There is always code left.
LEMMA CodeLeft ==
    ASSUME NEW s \in Scenarios, NEW e \in Questions(s)
    PROVE  Code(s, e) # <<>>
<1>1. e \in 1 .. N(s) /\ N(s) \in 1 .. 11
  BY DEF Questions, N, Scenarios
<1>2. PICK d : d = e - 1
  OBVIOUS
<1>3. d \in 0 .. N(s) /\ d < N(s) /\ d + 1 = e
  BY <1>1, <1>2
<1>4. PICK t : t = From(CodeOf(s, d), PlaceOf(s, d))
  OBVIOUS
<1>5. Tail(t) = Code(s, d + 1) /\ Tail(t) # <<>>
  BY <1>3, <1>4, NextSegment
<1> QED BY <1>3, <1>5

\* The agent reads the answer it waits for.
LEMMA AnswerInTurn ==
    ASSUME NEW s \in Scenarios, NEW e \in 0 .. N(s), NEW base, InTurn(s, e, base), AgentReads,
           flows[1].status = "asking", HasAnswered(s, e), Len(toAgent) = 1
    PROVE  (Turn(s)' \/ Harmless') /\ crashed' = crashed
<1>1. /\ AgentGoes(s, e) /\ LinesGo(s, e) /\ HarnessGoes(s, base) /\ base = Total - e
      /\ IsSeq(todo) /\ IsSeq(toAgent) /\ (\A i \in DOMAIN toAgent : IsLine(toAgent[i]))
      /\ N(s) \in 1 .. 11
  BY TurnFacts DEF InTurn
<1>2. Shapes /\ Len(flows) = 1 /\ TurnSession(s) /\ TurnFlow(s, e) /\ TurnAsks(s, e)
      /\ \A j \in Questions(s) : j < e => HasAnswered(s, j)
  BY <1>1 DEF AgentGoes
<1>3. IsSeq(flows) /\ IsFlow(flows[1]) /\ DOMAIN flows = 1 .. 1
  <2>1. IsSeq(flows)
    BY <1>2 DEF Shapes
  <2>2. DOMAIN flows = 1 .. 1
    BY <1>2, <2>1, SeqLen
  <2> QED BY <1>2, <2>1, <2>2 DEF Shapes
<1>4. PICK l : l = Head(toAgent)
  OBVIOUS
<1>5. toAgent # <<>> /\ Receive(l) /\ toAgent' = Tail(toAgent) /\ Emits
      /\ UNCHANGED <<harnessVars, fatalCause, log, mark, todo, caseVars>>
  BY <1>4 DEF AgentReads, Case_
<1>6. /\ Len(toAgent) \in Nat \ {0} /\ DOMAIN toAgent = 1 .. Len(toAgent) /\ 1 \in DOMAIN toAgent
      /\ Head(toAgent) = toAgent[1] /\ IsSeq(toAgent')
      /\ DOMAIN toAgent' = 1 .. Len(toAgent) - 1
  BY <1>1, <1>5, LinesMove
<1>7. IsAnswer(l, s, e)
  BY <1>1, <1>4, <1>6 DEF LinesGo
<1>8. HandleResponse(l) /\ l.valid /\ l.id = Number(s, e)
  BY <1>5, <1>7 DEF Receive, IsAnswer
<1>9. \A i \in DOMAIN toAgent' : FALSE
  BY <1>6
<1>10. e \in Questions(s) /\ pendingClientCalls = {<<Number(s, e), 1>>}
  BY <1>2 DEF TurnAsks
<1>11. PICK F : F = {p[2] : p \in {q \in pendingClientCalls : q[1] = l.id}}
  OBVIOUS
<1>12. F = {1} /\ {p \in pendingClientCalls : p[1] # l.id} = {}
  <2>1. PICK c, n, P : c = <<n, 1>> /\ n = l.id /\ P = pendingClientCalls
    OBVIOUS
  <2>2. P = {c} /\ c[1] = n /\ c[2] = 1
    BY <1>8, <1>10, <2>1
  <2>3. {q \in P : q[1] = n} = {c} /\ {p \in P : p[1] # n} = {}
    BY ONLY <2>2
  <2>4. PICK Q : Q = {q \in P : q[1] = n}
    OBVIOUS
  <2>5. {p[2] : p \in Q} = {1}
    BY ONLY <2>2, <2>3, <2>4
  <2>6. F = {p[2] : p \in Q}
    BY <1>11, <2>1, <2>4
  <2> QED BY <2>1, <2>3, <2>5, <2>6
<1>13. /\ flows' = [f \in DOMAIN flows |->
                           IF f \in F THEN [flows[f] EXCEPT !.status = "ready", !.answer = l.arg]
                           ELSE flows[f]]
       /\ pendingClientCalls' = {} /\ out' = <<>> /\ faults' = faults
       /\ UNCHANGED <<version, sessions, nextAgentRequestId, crashed>>
  BY <1>8, <1>11, <1>12 DEF HandleResponse, startVars
<1>14. PICK y, x : y = flows[1] /\ x = AsAnswered(y, "ready", l.arg)
  OBVIOUS
<1>15. flows' = [f \in DOMAIN flows |-> IF f \in {1} THEN x ELSE flows[f]]
  BY <1>3, <1>12, <1>13, <1>14 DEF AsAnswered
<1>16. /\ FlowShape(x) /\ x.kind = y.kind /\ x.request = y.request /\ x.session = y.session
       /\ x.scenario = y.scenario /\ x.todo = y.todo /\ x.status = "ready"
       /\ x.cancelled = y.cancelled /\ x.answer = l.arg
  <2>1. PICK a, b : a = "ready" /\ b = l.arg
    OBVIOUS
  <2>2. FlowShape(y) /\ x = AsAnswered(y, a, b)
    BY <1>3, <1>14, <2>1 DEF IsFlow
  <2>3. /\ FlowShape(x) /\ x.kind = y.kind /\ x.request = y.request /\ x.session = y.session
        /\ x.scenario = y.scenario /\ x.todo = y.todo /\ x.status = a
        /\ x.cancelled = y.cancelled /\ x.answer = b
    BY ONLY <2>2, FlowAnswered
  <2> QED BY <2>1, <2>3
<1>17. x.todo # <<>>
  <2>1. x.todo = Code(s, e)
    BY <1>2, <1>14, <1>16 DEF TurnFlow
  <2> QED BY <1>10, <2>1, CodeLeft
<1>18. IsFlow(x)
  BY <1>3, <1>14, <1>16, <1>17 DEF IsFlow
<1>19. IsSeq(flows') /\ Len(flows') = 1 /\ DOMAIN flows' = 1 .. 1 /\ flows'[1] = x
  <2>1. PICK q, r : q = flows /\ r = flows'
    OBVIOUS
  <2>2. DOMAIN r = DOMAIN q /\ r = [f \in DOMAIN q |-> r[f]] /\ IsSeq(q)
    BY <1>3, <1>15, <2>1
  <2>3. IsSeq(r) /\ Len(r) = Len(q)
    BY ONLY <2>2, SeqChanged
  <2> QED BY <1>2, <1>3, <1>15, <2>1, <2>2, <2>3
<1>20. \A f \in DOMAIN flows' : flows'[f] = x
  BY <1>19
<1>21. CASE e = N(s)
  <2>1. x.scenario = s /\ x.todo = Code(s, N(s))
    BY <1>1, <1>2, <1>14, <1>16, <1>21 DEF TurnFlow
  <2>2. NeverAsks(x)
    BY <2>1, LastCode
  <2>3. NeverAsks(x)'
    BY <1>13, <2>2 DEF NeverAsks
  <2>4. FlowsHarmless'
    BY <1>16, <1>20, <2>3 DEF FlowsHarmless, NeverAsks
  <2>5. AgentHarmless'
    BY <1>2, <1>13, <1>18, <1>19, <1>20, <2>4 DEF AgentHarmless, Shapes
  <2>6. LinesHarmless'
    BY <1>1, <1>5, <1>6, <1>9, QuietLines DEF HarnessGoes
  <2> QED BY <1>13, <2>5, <2>6, ShapesAre
<1>22. CASE e # N(s)
  <2>1. e < N(s)
    BY <1>1, <1>22
  <2>2. Shapes'
    BY <1>1, <1>2, <1>5, <1>6, <1>9, <1>13, <1>18, <1>19, <1>20 DEF Shapes
  <2>3. Latest' = Latest /\ Pos(s)' = Pos(s)
    BY <1>5 DEF Latest, Pos, harnessVars
  <2>4. \A j : HasAnswered(s, j)' = HasAnswered(s, j)
    BY <2>3 DEF HasAnswered
  <2>5. TurnFlow(s, e)'
    <3>1. Code(s, e)' = Code(s, e)
      BY <1>13, CodeStays
    <3> QED BY <1>2, <1>14, <1>16, <1>19, <2>3, <3>1 DEF TurnFlow
  <2>6. AllowedOn(s, e) => l.arg = "allow"
    BY <1>7, <1>10 DEF AllowedOn, Questions, IsAnswer
  <2>7. TurnAsks(s, e)'
    BY <1>13, <1>16, <1>19, <2>1, <2>4, <2>6 DEF TurnAsks
  <2>8. AgentGoes(s, e)'
    <3>1. TurnSession(s)'
      BY <1>2, <1>13 DEF TurnSession
    <3> QED BY <1>1, <1>13, <1>19, <2>2, <2>4, <2>5, <2>7, <3>1 DEF AgentGoes
  <2>9. LinesGo(s, e)'
    BY <1>9, <1>16, <1>19 DEF LinesGo
  <2>10. HarnessGoes(s, base)' /\ Total' = Total
    <3>1. toHarness' = toHarness
      <4>1. IsSeq(toHarness)
        BY <1>1, GoesFacts
      <4> QED BY <1>5, <1>13, <4>1, EmitsNone
    <3> QED BY <1>1, <1>5, <3>1, SameHarness DEF harnessVars
  <2>11. InTurn(s, e, base)'
    BY <1>1, <2>8, <2>9, <2>10 DEF InTurn
  <2> QED BY <1>13, <2>11, TurnGoes
<1> QED BY <1>21, <1>22

-----------------------------------------------------------------------------
(* Every step of a turn.                                                   *)

\* The agent reads a line.
LEMMA ReadsInTurn ==
    ASSUME NEW s \in Scenarios, NEW e \in 0 .. N(s), NEW base, InTurn(s, e, base), AgentReads
    PROVE  (Turn(s)' \/ Harmless') /\ crashed' = crashed
<1>1. LinesGo(s, e) /\ IsSeq(toAgent) /\ (\A i \in DOMAIN toAgent : IsLine(toAgent[i]))
  BY TurnFacts
<1>2. toAgent # <<>> /\ toAgent' = Tail(toAgent)
  BY DEF AgentReads
<1>3. Head(toAgent) = toAgent[1] /\ 1 \in DOMAIN toAgent
  BY <1>1, <1>2, LinesMove
<1>4. CASE flows[1].status = "asking" /\ HasAnswered(s, e) /\ Len(toAgent) = 1
  BY <1>4, AnswerInTurn
<1>5. CASE ~(flows[1].status = "asking" /\ HasAnswered(s, e) /\ Len(toAgent) = 1)
  <2>1. IsCancel(toAgent[1]) /\ s = "v1-permission-cancel"
    BY <1>1, <1>3, <1>5 DEF LinesGo
  <2> QED BY <1>3, <1>5, <2>1, CancelInTurn
<1> QED BY <1>4, <1>5

\* The case says a line to the agent that asks.
LEMMA SaysInTurn ==
    ASSUME NEW s \in Scenarios, NEW e \in 0 .. N(s), NEW base, InTurn(s, e, base),
           flows[1].status = "asking", ~HasAnswered(s, e), HarnessGoes(s, base)',
           Pos(s) \in Nat, Pos(s)' = Pos(s) + 1, IsSeq(todo'),
           UNCHANGED <<agentVars, nextId, log, toHarness>>,
           NEW l, IsLine(l), Says(l),
           IF HasAnswered(s, e)' THEN IsAnswer(l, s, e)
           ELSE IsCancel(l) /\ s = "v1-permission-cancel"
    PROVE  Turn(s)'
<1>1. /\ AgentGoes(s, e) /\ LinesGo(s, e) /\ base = Total - e /\ IsSeq(toAgent)
      /\ (\A i \in DOMAIN toAgent : IsLine(toAgent[i]))
  BY TurnFacts DEF InTurn
<1>2. Shapes /\ Len(flows) = 1 /\ TurnSession(s) /\ TurnFlow(s, e) /\ TurnAsks(s, e)
  BY <1>1 DEF AgentGoes
<1>3. /\ IsSeq(toAgent') /\ Len(toAgent') = Len(toAgent) + 1 /\ toAgent' # <<>>
      /\ DOMAIN toAgent' = 1 .. Len(toAgent) + 1
      /\ \A i \in 1 .. Len(toAgent) : toAgent'[i] = toAgent[i]
      /\ toAgent'[Len(toAgent) + 1] = l
      /\ Len(toAgent) \in Nat /\ DOMAIN toAgent = 1 .. Len(toAgent)
  BY <1>1, SeqAppend, SeqLen DEF Says
<1>4. UNCHANGED <<faults, version, sessions, flows, pendingClientCalls, nextAgentRequestId>>
  BY DEF agentVars
<1>5. ASSUME NEW i \in DOMAIN toAgent'
      PROVE  IF i = Len(toAgent') THEN toAgent'[i] = l
             ELSE i \in DOMAIN toAgent /\ toAgent'[i] = toAgent[i]
  BY <1>3
<1>6. \A i \in DOMAIN toAgent' : IsLine(toAgent'[i])
  BY <1>1, <1>5
<1>7. Shapes'
  BY <1>2, <1>3, <1>4, <1>6 DEF Shapes
<1>8. \A j \in Questions(s) : HasAnswered(s, j) => HasAnswered(s, j)'
  <2>1. ASSUME NEW j \in Questions(s), HasAnswered(s, j) PROVE HasAnswered(s, j)'
    <3>1. Place(s, j + 1) \in Nat
      BY DEF Place, Questions, Scenarios
    <3>2. PICK p, q : p = Pos(s) /\ q = Place(s, j + 1)
      OBVIOUS
    <3>3. p >= q /\ Pos(s)' = p + 1 /\ p \in Nat /\ q \in Nat
      BY <2>1, <3>1, <3>2 DEF HasAnswered
    <3>4. p + 1 >= q
      BY ONLY <3>3
    <3> QED BY <3>2, <3>3, <3>4 DEF HasAnswered
  <2> QED BY <2>1
<1>9. TurnFlow(s, e)'
  <2>1. Code(s, e)' = Code(s, e) /\ Latest' = Latest
    BY <1>4, CodeStays DEF Latest
  <2> QED BY <1>2, <1>4, <2>1 DEF TurnFlow
<1>10. TurnAsks(s, e)' /\ TurnSession(s)'
  BY <1>2, <1>4 DEF TurnAsks, TurnSession
<1>11. AgentGoes(s, e)'
  BY <1>1, <1>4, <1>7, <1>8, <1>9, <1>10 DEF AgentGoes
<1>12. LinesGo(s, e)'
  <2>1. \A i \in DOMAIN toAgent : IsCancel(toAgent[i]) /\ s = "v1-permission-cancel"
    BY <1>1 DEF LinesGo
  <2>2. CASE HasAnswered(s, e)'
    <3>1. IsAnswer(l, s, e)
      BY <2>2
    <3>2. ASSUME NEW i \in DOMAIN toAgent'
          PROVE  IF i = Len(toAgent') THEN IsAnswer(toAgent'[i], s, e)
                 ELSE IsCancel(toAgent'[i]) /\ s = "v1-permission-cancel"
      BY <1>5, <2>1, <3>1
    <3> QED BY <1>3, <1>4, <2>2, <3>2 DEF LinesGo
  <2>3. CASE ~HasAnswered(s, e)'
    <3>1. IsCancel(l) /\ s = "v1-permission-cancel"
      BY <2>3
    <3>2. \A i \in DOMAIN toAgent' : IsCancel(toAgent'[i]) /\ s = "v1-permission-cancel"
      BY <1>5, <2>1, <3>1
    <3> QED BY <1>4, <2>3, <3>2 DEF LinesGo
  <2> QED BY <2>2, <2>3
<1>13. InTurn(s, e, base)'
  BY <1>1, <1>11, <1>12 DEF InTurn, Total
<1> QED BY <1>13, TurnGoes

\* The case answers, or cancels the turn, while the agent asks.
LEMMA TellsInTurn ==
    ASSUME NEW s \in Scenarios, NEW e \in 0 .. N(s), NEW base, InTurn(s, e, base), CaseTells
    PROVE  Turn(s)'
<1>1. /\ AgentGoes(s, e) /\ HarnessGoes(s, base) /\ Total = base + e /\ Total - base <= N(s)
      /\ base \in Nat /\ IsSeq(todo) /\ N(s) \in 1 .. 11 /\ Pos(s) \in Nat
      /\ Questions(s) \subseteq 1 .. N(s)
  BY TurnFacts
<1>2. TurnAsks(s, e) /\ \A j \in Questions(s) : j < e => HasAnswered(s, j)
  BY <1>1 DEF AgentGoes
<1>3. PICK x : x = Len(calls)
  OBVIOUS
<1>4. /\ HarnessGoes(s, base)' /\ Pos(s)' = Pos(s) + 1 /\ IsSeq(todo')
      /\ Answers(s) \/ (Cancels(s) /\ Head(todo).op = "notify")
      /\ x \in 1 .. N(s) /\ ReadOf(base) >= x
  BY <1>1, <1>3, Tells
<1>5. Len(log) \in Nat /\ Len(toHarness) \in Nat /\ ReadOf(base) \in Nat
  BY <1>1, GoesFacts
<1>6. x <= e
  BY <1>1, <1>4, <1>5 DEF ReadOf, Total
<1>7. UNCHANGED <<agentVars, nextId, log, toHarness>>
  BY DEF CaseTells, harnessVars, wireVars
<1>8. BoxGoes(s, base) /\ IsSeq(log)
  BY <1>1 DEF HarnessGoes, HarnessShapes
<1>9. calls[x].got.n = base + x
  BY <1>3, <1>4, <1>8 DEF BoxGoes
<1>10. base + x \in 1 .. Len(log) /\ log[base + x] = Message(s, x)
  <2>1. x \in 1 .. ReadOf(base)
    BY <1>4, <1>5
  <2> QED BY <1>1, <2>1, ReadSoFar
<1>11. CASE Answers(s)
  <2>1. /\ x \in Questions(s) /\ Pos(s) = Place(s, x + 1) - 1 /\ Head(todo).op = "answer"
        /\ (s = "v1-full-turn" /\ x = 3) \/ (s = "v2-full-turn" /\ x = 4) => Head(todo).arg = "allow"
    BY <1>3, <1>11 DEF Answers
  <2>2. Place(s, x + 1) \in Nat
    BY <2>1 DEF Place, Questions, Scenarios
  <2>3. ~HasAnswered(s, x) /\ HasAnswered(s, x)'
    <3>1. PICK p, q : p = Pos(s) /\ q = Place(s, x + 1)
      OBVIOUS
    <3>2. p = q - 1 /\ q \in Nat /\ Pos(s)' = p + 1
      BY <1>4, <2>1, <2>2, <3>1
    <3>3. ~(p >= q) /\ p + 1 >= q
      BY ONLY <3>2
    <3> QED BY <3>1, <3>2, <3>3 DEF HasAnswered
  <2>4. x = e
    <3>1. ~(x < e)
      BY <1>2, <2>1, <2>3
    <3> QED BY <1>4, <1>6, <3>1
  <2>5. flows[1].status = "asking"
    BY <1>2, <2>1, <2>3, <2>4 DEF TurnAsks
  <2>6. log[LastCall.got.n].id = Number(s, e)
    <3>1. Message(s, x).id = Number(s, x)
      BY <2>1 DEF Message, Msg
    <3> QED BY <1>3, <1>9, <1>10, <2>4, <3>1 DEF LastCall
  <2>7. PICK m : m # "initialize" /\ Says(ClientLine("response", m, Number(s, e), Head(todo).arg))
    BY <2>1, <2>6, TellsLine
  <2>8. PICK a, l : a = Head(todo).arg /\ l = ClientLine("response", m, Number(s, e), a)
    OBVIOUS
  <2>9. /\ l.type = "response" /\ l.id = Number(s, e) /\ l.arg = a /\ l.valid /\ IsLine(l)
    BY <2>7, <2>8, ClientLineIs
  <2>10. IsAnswer(l, s, e)
    BY <2>1, <2>4, <2>8, <2>9 DEF IsAnswer
  <2>11. Says(l)
    BY <2>7, <2>8
  <2> QED BY <1>1, <1>4, <1>7, <2>3, <2>4, <2>5, <2>9, <2>10, <2>11, SaysInTurn
<1>12. CASE Cancels(s) /\ Head(todo).op = "notify"
  <2>1. /\ s = "v1-permission-cancel" /\ x = N(s) /\ N(s) = 3 /\ Questions(s) = {3}
        /\ Pos(s) = Place(s, N(s) + 1) - 2 /\ Head(todo).what = "session/cancel"
    BY <1>3, <1>12 DEF Cancels, IsAwait, N, Questions
  <2>2. e = 3 /\ x = 3
    BY <1>6, <2>1
  <2>3. Place(s, e + 1) = 16 /\ Pos(s) = 14
    BY <2>1, <2>2 DEF Place
  <2>4. ~HasAnswered(s, e) /\ ~HasAnswered(s, e)'
    <3>1. PICK p, q : p = Pos(s) /\ q = Place(s, e + 1)
      OBVIOUS
    <3>2. p = 14 /\ q = 16 /\ Pos(s)' = 15
      BY <1>4, <2>3, <3>1
    <3>3. ~(p >= q) /\ ~(15 >= q)
      BY ONLY <3>2
    <3> QED BY <3>1, <3>2, <3>3 DEF HasAnswered
  <2>5. flows[1].status = "asking"
    BY <1>2, <2>1, <2>2 DEF TurnAsks
  <2>6. PICK a, l : a = Latest /\ l = ClientLine("notification", "session/cancel", 0, a)
    OBVIOUS
  <2>7. Says(l)
    BY <1>12, <2>1, <2>6, TellsLine
  <2>8. l.type = "notification" /\ l.method = "session/cancel" /\ IsLine(l)
    BY <2>6, ClientLineIs
  <2>9. IsCancel(l)
    BY <2>8 DEF IsCancel
  <2> QED BY <1>1, <1>4, <1>7, <2>1, <2>4, <2>5, <2>7, <2>8, <2>9, SaysInTurn
<1> QED BY <1>4, <1>11, <1>12

\* Most steps leave the case where it is in the suite, and nobody crashes in them.
LEMMA NoCrash ==
    /\ CaseRequests \/ CaseExpects \/ CaseTells \/ CaseMarks \/ CaseGoesOn
       \/ HarnessReads \/ WriteReturns \/ TimesOut
          => UNCHANGED agentVars /\ crashed' = crashed /\ at' = at
    /\ AgentGoesOn \/ AgentWakes => crashed' = crashed /\ at' = at
    /\ AgentReads => at' = at
<1>1. CaseRequests \/ CaseExpects \/ CaseTells \/ CaseMarks \/ CaseGoesOn
         => UNCHANGED agentVars /\ crashed' = crashed /\ at' = at
  BY DEF CaseRequests, CaseExpects, CaseTells, CaseMarks, CaseGoesOn, caseVars, agentVars
<1>2. HarnessReads \/ WriteReturns \/ TimesOut
         => UNCHANGED agentVars /\ crashed' = crashed /\ at' = at
  BY DEF HarnessReads, WriteReturns, TimesOut, Case_, caseVars, agentVars
<1>3. AgentGoesOn \/ AgentWakes => crashed' = crashed /\ at' = at
  BY DEF AgentGoesOn, AgentWakes, Continue, Wake, lifeVars, Case_, caseVars
<1>4. AgentReads => at' = at
  BY DEF AgentReads, Case_, caseVars
<1> QED BY <1>1, <1>2, <1>3, <1>4

\* The runner waits for the case.
LEMMA NoRunner ==
    ASSUME phase = "running"
    PROVE  ~RunnerStep
BY DEF RunnerStep, OpenCase, SkipCase, WriteReport

\* What a step leads to.
LEMMA StepTo ==
    ASSUME IInv, crashed' = crashed, at' = at, NEW s \in Scenarios,
           Harmless' \/ Opening(s)' \/ Prompting(s)' \/ Turn(s)'
    PROVE  IInv'
BY DEF IInv

\* Every step of a turn keeps the invariant: no case is closed while a call waits.
LEMMA TurnStays ==
    ASSUME IInv, phase = "running", NEW s \in Scenarios, Turn(s), Next
    PROVE  IInv'
<1>1. PICK e, base : e \in 0 .. N(s) /\ InTurn(s, e, base)
  BY TurnIs
<1>2. HarnessGoes(s, base) /\ Total - base <= N(s) /\ IsSeq(todo)
  BY <1>1, TurnFacts
<1>3. ~CaseRequests /\ ~CaseMarks /\ ~Throws /\ ~CaseSettles /\ ~CaseFails
  BY <1>2, NoOtherSteps
<1>4. ~TimesOut /\ ~AgentWakes /\ ~RunnerStep
  BY <1>1, NoTimeout, NoNap, NoRunner
<1>5. CASE CaseExpects \/ CaseGoesOn
  BY <1>1, <1>5, GoOnInTurn, NoCrash, StepTo
<1>6. CASE CaseTells
  BY <1>1, <1>6, TellsInTurn, NoCrash, StepTo
<1>7. CASE AgentReads
  BY <1>1, <1>7, ReadsInTurn, NoCrash, StepTo
<1>8. CASE AgentGoesOn
  BY <1>1, <1>8, ContinueInTurn, NoCrash, StepTo
<1>9. CASE HarnessReads \/ WriteReturns
  BY <1>1, <1>9, ReadInTurn, NoCrash, StepTo
<1> QED BY <1>3, <1>4, <1>5, <1>6, <1>7, <1>8, <1>9
        DEF Next, CaseStep, WireStep, TimerStep

-----------------------------------------------------------------------------
(* Requests that open a session.                                           *)

\* A message that answers line l with no event.
Replied(m, l) == m.type = "response" /\ m.kind \notin Updates /\ m.id = l.id

\* A reply is an answer to the request with the id it has.
LEMMA ReplyIs ==
    ASSUME NEW l, NEW k, NEW valid, NEW m, m = Msg("response", k, l.id, valid), k \notin Updates
    PROVE  Replied(m, l)
BY DEF Replied, Msg

\* What the agent does with a line that opens a session.
LEMMA OpeningDoes ==
    ASSUME NEW s \in Scenarios, NEW l, IsOpeningLine(l, s), HandleRequest(l),
           version \in {0, VersionIn(s)}
    PROVE  /\ UNCHANGED <<flows, pendingClientCalls, nextAgentRequestId, crashed>>
           /\ version' \in {0, VersionIn(s)}
           /\ out' = <<>> \/ \E m : out' = <<m>> /\ Replied(m, l)
           /\ \/ sessions' = sessions
              \/ sessions' = Append(sessions, [history |-> <<>>, scenario |-> "none"])
              \/ sessions' = [sessions EXCEPT ![1].scenario = s]
<1>1. l.session = 1
  BY DEF IsOpeningLine, IsLine
<1>2. {"ok", "invalid_params", "invalid_request", "not_found", "no_session_id", "bad_session_id"}
         \cap Updates = {}
  BY DEF Updates
<1>3. ASSUME NEW k \in {"ok", "invalid_params", "invalid_request", "not_found", "no_session_id",
                        "bad_session_id"}, NEW valid, NEW msgs, msgs = <<Msg("response", k, l.id, valid)>>
      PROVE  \E m : msgs = <<m>> /\ Replied(m, l)
  <2>1. PICK m : m = Msg("response", k, l.id, valid)
    OBVIOUS
  <2>2. k \notin Updates
    BY <1>2
  <2>3. Replied(m, l)
    BY <2>1, <2>2, ReplyIs
  <2> QED BY <1>3, <2>1, <2>3
<1>4. ASSUME NEW k \in {"ok", "invalid_params", "invalid_request", "not_found"}, Answer(l, k)
      PROVE  /\ UNCHANGED <<flows, pendingClientCalls, nextAgentRequestId, crashed, version, sessions>>
             /\ \E m : out' = <<m>> /\ Replied(m, l)
  <2>1. out' = <<Msg("response", k, l.id, TRUE)>>
    BY <1>4 DEF Answer, Emit, Response
  <2>2. PICK m : m = Msg("response", k, l.id, TRUE)
    OBVIOUS
  <2>3. k \notin Updates
    BY <1>2
  <2>4. Replied(m, l)
    BY <2>2, <2>3, ReplyIs
  <2>5. \E x : out' = <<x>> /\ Replied(x, l)
    BY <2>1, <2>2, <2>4
  <2> QED BY <1>4, <2>5 DEF Answer, Emit, flowVars, lifeVars
<1>5. CASE l.method = "initialize"
  <2>1. HandleInitialize(l) /\ l.arg = VersionIn(s)
    BY <1>5 DEF HandleRequest, Extensions, IsOpeningLine
  <2>2. CASE l.valid
    <3>1. /\ version' = l.arg /\ out' = <<Response(l.id, "ok")>>
          /\ UNCHANGED <<lifeVars, flowVars, sessions, promptContexts, pendingSlowCalls>>
      BY <2>1, <2>2 DEF HandleInitialize
    <3>2. \E m : out' = <<m>> /\ Replied(m, l)
      BY <1>3, <3>1 DEF Response
    <3> QED BY <2>1, <3>1, <3>2 DEF flowVars, lifeVars
  <2>3. CASE ~l.valid
    BY <1>4, <2>1, <2>3 DEF HandleInitialize
  <2> QED BY <2>2, <2>3
<1>6. CASE l.method = "session/new"
  <2>1. CASE version = 0
    BY <1>4, <1>6, <2>1 DEF HandleRequest, Extensions
  <2>2. CASE version # 0
    <3>1. l.method \in KnownMethods /\ l.method \notin Extensions
      BY <1>6 DEF KnownMethods, Extensions
    <3>2. CASE ~l.valid
      BY <1>4, <1>6, <2>2, <3>1, <3>2 DEF HandleRequest
    <3>3. CASE l.valid
      <4>1. HandleSessionNew(l)
        BY <1>6, <2>2, <3>1, <3>3 DEF HandleRequest
      <4>2. out' = SessionNewResult(l.id)
        BY <4>1 DEF HandleSessionNew
      <4>3. out' = <<>> \/ \E m : out' = <<m>> /\ Replied(m, l)
        <5>1. \/ out' = <<>>
              \/ out' = <<Msg("response", "ok", l.id, TRUE)>>
              \/ out' = <<Msg("response", "no_session_id", l.id, FALSE)>>
              \/ out' = <<Msg("response", "bad_session_id", l.id, FALSE)>>
          BY <4>2, Zenon DEF SessionNewResult, Response
        <5> QED BY <1>3, <5>1
      <4> QED BY <4>1, <4>3 DEF HandleSessionNew, lifeVars, flowVars
    <3> QED BY <3>2, <3>3
  <2> QED BY <2>1, <2>2
<1>7. CASE l.method = "_conformance/set_scenario"
  <2>1. HandleExtension(l) /\ l.arg = s
    BY <1>7 DEF HandleRequest, Extensions, IsOpeningLine
  <2>2. CASE Known(1)
    <3>1. /\ sessions' = [sessions EXCEPT ![1].scenario = s] /\ out' = <<Response(l.id, "ok")>>
          /\ UNCHANGED <<lifeVars, flowVars, version, promptContexts, pendingSlowCalls>>
      BY <1>1, <1>7, <2>1, <2>2 DEF HandleExtension
    <3>2. \E m : out' = <<m>> /\ Replied(m, l)
      BY <1>3, <3>1 DEF Response
    <3> QED BY <3>1, <3>2 DEF flowVars, lifeVars
  <2>3. CASE ~Known(1)
    BY <1>1, <1>4, <1>7, <2>1, <2>3 DEF HandleExtension
  <2> QED BY <2>2, <2>3
<1> QED BY <1>5, <1>6, <1>7 DEF IsOpeningLine

\* The agent opens still.
LEMMA OpensStill ==
    ASSUME NEW s \in Scenarios, AgentOpens(s), NEW l, IsOpeningLine(l, s), HandleRequest(l),
           todo' = todo, IsSeq(toAgent'), \A i \in DOMAIN toAgent' : IsLine(toAgent'[i])
    PROVE  AgentOpens(s)' /\ crashed' = crashed
<1>1. /\ Shapes /\ flows = <<>> /\ pendingClientCalls = {} /\ nextAgentRequestId = 1
      /\ version \in {0, VersionIn(s)} /\ \A i \in DOMAIN sessions : sessions[i].scenario \in {"none", s}
  BY DEF AgentOpens
<1>2. IsSeq(sessions) /\ (\A i \in DOMAIN sessions : IsSession(sessions[i])) /\ IsSeq(todo)
  BY <1>1 DEF Shapes
<1>3. /\ UNCHANGED <<flows, pendingClientCalls, nextAgentRequestId, crashed>>
      /\ version' \in {0, VersionIn(s)}
      /\ \/ sessions' = sessions
         \/ sessions' = Append(sessions, [history |-> <<>>, scenario |-> "none"])
         \/ sessions' = [sessions EXCEPT ![1].scenario = s]
  BY <1>1, OpeningDoes
<1>4. /\ IsSeq(sessions')
      /\ \A i \in DOMAIN sessions' : IsSession(sessions'[i]) /\ sessions'[i].scenario \in {"none", s}
  <2>1. CASE sessions' = sessions
    BY <1>1, <1>2, <2>1
  <2>2. CASE sessions' = Append(sessions, [history |-> <<>>, scenario |-> "none"])
    <3>1. PICK r : r = [history |-> <<>>, scenario |-> "none"]
      OBVIOUS
    <3>2. IsSession(r) /\ r.scenario = "none"
      BY <3>1 DEF IsSession
    <3>3. /\ IsSeq(sessions')
          /\ \A i \in DOMAIN sessions' : sessions'[i] = r \/ \E g \in DOMAIN sessions : sessions'[i] = sessions[g]
      BY <1>2, <2>2, <3>1, AppendEntries
    <3> QED BY <1>1, <1>2, <3>2, <3>3
  <2>3. CASE sessions' = [sessions EXCEPT ![1].scenario = s]
    <3>1. PICK x : x = [sessions[1] EXCEPT !.scenario = s]
      OBVIOUS
    <3>2. sessions' = [sessions EXCEPT ![1] = x]
      BY <2>3, <3>1
    <3>3. 1 \in DOMAIN sessions => IsSession(x) /\ x.scenario = s
      <4>1. SUFFICES ASSUME 1 \in DOMAIN sessions PROVE IsSession(x) /\ x.scenario = s
        OBVIOUS
      <4>2. DOMAIN sessions[1] = {"history", "scenario"}
        BY <1>2, <4>1 DEF IsSession
      <4> QED BY <3>1, <4>2 DEF IsSession
    <3>4. IsSeq(sessions') /\ DOMAIN sessions' = DOMAIN sessions
      <4>1. PICK q, r : q = sessions /\ r = sessions'
        OBVIOUS
      <4>2. IsSeq(q) /\ r = [q EXCEPT ![1] = x]
        BY <1>2, <3>2, <4>1
      <4>3. IsSeq(q) /\ DOMAIN r = DOMAIN q /\ r = [i \in DOMAIN q |-> r[i]]
        BY ONLY <4>2
      <4>4. IsSeq(r)
        BY ONLY <4>3, SeqChanged
      <4> QED BY <4>1, <4>3, <4>4
    <3> QED BY <1>1, <1>2, <3>2, <3>3, <3>4
  <2> QED BY <1>3, <2>1, <2>2, <2>3
<1>5. Shapes'
  BY <1>1, <1>2, <1>3, <1>4 DEF Shapes
<1> QED BY <1>1, <1>3, <1>4, <1>5 DEF AgentOpens

-----------------------------------------------------------------------------
(* The prompt is called.                                                   *)

\* The case has prompted, and the agent has not read the prompt.
IsPromptLine(l) == IsLine(l) /\ IsCall(l, "session/prompt") /\ l.id = Latest /\ l.valid
PromptLines(s) ==
    /\ toAgent # <<>>
    /\ \A i \in DOMAIN toAgent :
          IF i < Len(toAgent) THEN IsOpeningLine(toAgent[i], s) /\ toAgent[i].id < Latest
          ELSE IsPromptLine(toAgent[i])
InPrompt(s, base) ==
    base = Total + Behind(s) /\ AgentOpens(s) /\ HarnessGoes(s, base) /\ PromptLines(s)

\* The called prompt, with the number of lines before its events named.
LEMMA PromptIs ==
    ASSUME NEW s
    PROVE  Prompting(s) <=> \E base : InPrompt(s, base)
BY DEF Prompting, InPrompt, PromptLines, IsPromptLine

\* The same, for the state after a step.
LEMMA PromptGoes ==
    ASSUME NEW s, NEW base, InPrompt(s, base)'
    PROVE  Prompting(s)'
BY DEF Prompting, InPrompt, PromptLines, IsPromptLine

\* What the sizes are in a case that has prompted.
LEMMA PromptFacts ==
    ASSUME NEW s \in Scenarios, NEW base, InPrompt(s, base)
    PROVE  /\ AgentOpens(s) /\ HarnessGoes(s, base) /\ PromptLines(s)
           /\ base = Total + Behind(s) /\ base \in Nat /\ Total \in Nat /\ Behind(s) \in {0, 1}
           /\ Total - base <= N(s) /\ N(s) \in 1 .. 11 /\ ReadOf(base) = 0
           /\ IsSeq(todo) /\ IsSeq(toAgent) /\ Latest \in H!Ids
           /\ (\A i \in DOMAIN toAgent : IsLine(toAgent[i]))
           /\ flows = <<>> /\ pendingClientCalls = {} /\ nextAgentRequestId = 1 /\ Shapes
<1>1. /\ base = Total + Behind(s) /\ AgentOpens(s) /\ HarnessGoes(s, base) /\ PromptLines(s)
  BY DEF InPrompt
<1>2. /\ base \in Nat /\ Total \in Nat /\ N(s) \in 1 .. 11 /\ Behind(s) \in {0, 1}
      /\ Len(log) \in Nat /\ Len(toHarness) \in Nat
  <2>1. s \in Scenarios /\ HarnessGoes(s, base)
    BY <1>1
  <2> QED BY ONLY <2>1, GoesFacts
<1>3. Total - base <= N(s)
  BY <1>1, <1>2
<1>4. ReadOf(base) = 0
  <2>1. ~(Len(log) > base)
    BY <1>1, <1>2 DEF Total
  <2> QED BY <2>1 DEF ReadOf
<1>5. /\ flows = <<>> /\ pendingClientCalls = {} /\ nextAgentRequestId = 1 /\ Shapes
  BY <1>1 DEF AgentOpens
<1>6. Latest \in H!Ids
  BY <1>1 DEF HarnessGoes, ReplyGoes
<1> QED BY <1>1, <1>2, <1>3, <1>4, <1>5, <1>6 DEF Shapes

\* The harness goes on, and the agent has not read the prompt.
LEMMA StepInPrompt ==
    ASSUME NEW s \in Scenarios, NEW base, InPrompt(s, base),
           UNCHANGED <<agentVars, toAgent, nextId>>, HarnessGoes(s, base)', Total' = Total,
           IsSeq(todo')
    PROVE  Prompting(s)'
<1>1. /\ AgentOpens(s) /\ PromptLines(s) /\ Shapes /\ base = Total + Behind(s)
  BY PromptFacts
<1>2. UNCHANGED <<sessions, flows, pendingClientCalls, nextAgentRequestId, version>>
  BY DEF agentVars
<1>3. Shapes'
  BY <1>1, <1>2 DEF Shapes
<1>4. AgentOpens(s)'
  BY <1>1, <1>2, <1>3 DEF AgentOpens
<1>5. PromptLines(s)'
  <2>1. Latest' = Latest
    BY DEF Latest
  <2> QED BY <1>1, <2>1 DEF PromptLines, IsPromptLine, IsOpeningLine
<1>6. InPrompt(s, base)'
  BY <1>1, <1>4, <1>5 DEF InPrompt
<1> QED BY <1>6, PromptGoes

\* The case expects, goes on; the harness reads a line, a write returns.
LEMMA GoOnInPrompt ==
    ASSUME NEW s \in Scenarios, NEW base, InPrompt(s, base),
           CaseExpects \/ CaseGoesOn \/ HarnessReads \/ WriteReturns
    PROVE  Prompting(s)'
<1>1. HarnessGoes(s, base) /\ Total - base <= N(s) /\ IsSeq(todo)
  BY PromptFacts
<1>2. CASE CaseExpects \/ CaseGoesOn
  <2>1. UNCHANGED <<agentVars, toAgent, nextId>> /\ UNCHANGED <<log, toHarness>>
    BY <1>2 DEF CaseExpects, CaseGoesOn, H!Expect, H!requestVars, harnessVars, wireVars
  <2>2. HarnessGoes(s, base)' /\ IsSeq(todo')
    BY <1>1, <1>2, ExpectsGoes, GoesOn
  <2>3. Total' = Total
    BY <2>1 DEF Total
  <2> QED BY <2>1, <2>2, <2>3, StepInPrompt
<1>3. CASE HarnessReads
  <2>1. HarnessGoes(s, base)' /\ Total' = Total
    BY <1>1, <1>3, ReadsGoes
  <2>2. PICK m : m = Head(toHarness)
    OBVIOUS
  <2>3. H!BadLine \/ H!EventLine(m.kind) \/ H!ResponseLine(m.id, m.valid)
    BY <1>3, <2>2 DEF HarnessReads
  <2>4. nextId' = nextId
    BY <2>3 DEF H!BadLine, H!FailAll, H!RejectAll, H!EventLine, H!ResponseLine,
                H!requestVars, H!Settle
  <2>5. UNCHANGED <<agentVars, toAgent, todo>>
    BY <1>3 DEF HarnessReads, Case_
  <2> QED BY <1>1, <2>1, <2>4, <2>5, StepInPrompt
<1>4. CASE WriteReturns
  <2>1. UNCHANGED <<nextId, pendingResponses, response, answeredBy, queued, waiters, calls,
                    received, fatalError, log, toHarness, mark, todo>>
    BY <1>4 DEF WriteReturns, H!SendReturns, H!expectVars, wireVars, Case_
  <2>2. HarnessGoes(s, base)' /\ Total' = Total
    BY <1>1, <2>1, SameHarness
  <2>3. UNCHANGED <<agentVars, toAgent, nextId>>
    BY <1>4, <2>1 DEF WriteReturns
  <2> QED BY <1>1, <2>1, <2>2, <2>3, StepInPrompt
<1> QED BY <1>2, <1>3, <1>4

\* Nothing else happens but that the agent reads.
LEMMA QuietInPrompt ==
    ASSUME NEW s \in Scenarios, NEW base, InPrompt(s, base)
    PROVE  ~CaseTells /\ ~TimesOut /\ ~AgentGoesOn /\ ~AgentWakes
<1>1. /\ HarnessGoes(s, base) /\ Total - base <= N(s) /\ IsSeq(todo) /\ ReadOf(base) = 0
      /\ PromptLines(s) /\ flows = <<>>
  BY PromptFacts
<1>2. ~CaseTells
  <2> SUFFICES ASSUME CaseTells PROVE FALSE
    OBVIOUS
  <2>1. Len(calls) \in 1 .. N(s) /\ ReadOf(base) >= Len(calls)
    BY <1>1, Tells
  <2>2. N(s) \in Nat
    BY PromptFacts
  <2> QED BY <1>1, <2>1, <2>2
<1>3. ~TimesOut
  BY <1>1 DEF TimesOut, Quiet, PromptLines
<1>4. DOMAIN flows = {}
  BY <1>1
<1>5. ~AgentGoesOn /\ ~AgentWakes
  BY <1>4 DEF AgentGoesOn, AgentWakes
<1> QED BY <1>2, <1>3, <1>5

\* The flow of a prompt, and what it is at first.
StartCode == <<Goto("start")>>
MadeFirst(fl, id) == fl = NewFlow("prompt", id, 1, StartCode)
FirstFlow(fl, id) ==
    /\ IsFlow(fl) /\ FlowShape(fl) /\ fl.session = 1 /\ fl.todo = StartCode /\ fl.todo # <<>>
    /\ fl.kind = "prompt" /\ fl.request = id /\ fl.status = "ready" /\ fl.cancelled = FALSE

\* What the flow of the session's first prompt is.
LEMMA NewFlowIs ==
    ASSUME NEW id, NEW fl, MadeFirst(fl, id)
    PROVE  FirstFlow(fl, id)
<1>1. PICK g : g = Goto("start")
  OBVIOUS
<1>2. IsSegment(g)
  BY <1>1, SegmentIs DEF Goto
<1>3. PICK u : u = <<g>>
  OBVIOUS
<1>4. u = StartCode /\ IsCode(u) /\ u # <<>>
  BY <1>1, <1>2, <1>3, OneSegment DEF StartCode
<1>5. PICK k : k = "prompt"
  OBVIOUS
<1>6. IsFlow(fl)
  <2>1. IsCode(u) /\ fl = NewFlow(k, id, 1, u)
    BY <1>4, <1>5 DEF MadeFirst
  <2> QED BY ONLY <2>1, FlowIsNew
<1>7. /\ fl.session = 1 /\ fl.todo = StartCode /\ fl.kind = "prompt" /\ fl.request = id
      /\ fl.status = "ready" /\ fl.cancelled = FALSE
  BY DEF MadeFirst, NewFlow
<1> QED BY <1>4, <1>6, <1>7 DEF IsFlow, FirstFlow

\* An agent without flows is harmless.
LEMMA NoFlows ==
    ASSUME Shapes, flows = <<>>, pendingClientCalls = {}
    PROVE  AgentHarmless
<1>1. DOMAIN flows = {}
  OBVIOUS
<1>2. FlowsHarmless
  BY <1>1 DEF FlowsHarmless
<1> QED BY <1>1, <1>2 DEF AgentHarmless, Shapes

\* The agent reads a line that opens the session.
LEMMA ReadsOldInPrompt ==
    ASSUME NEW s \in Scenarios, NEW base, InPrompt(s, base), AgentReads, Len(toAgent) > 1
    PROVE  Prompting(s)' /\ crashed' = crashed
<1>1. /\ AgentOpens(s) /\ HarnessGoes(s, base) /\ PromptLines(s) /\ base = Total + Behind(s)
      /\ base \in Nat /\ IsSeq(todo) /\ IsSeq(toAgent) /\ Latest \in H!Ids
      /\ Total \in Nat /\ Behind(s) \in {0, 1}
      /\ (\A i \in DOMAIN toAgent : IsLine(toAgent[i]))
  BY PromptFacts
<1>2. PICK l : l = Head(toAgent)
  OBVIOUS
<1>3. /\ toAgent # <<>> /\ Receive(l) /\ toAgent' = Tail(toAgent) /\ Emits
      /\ UNCHANGED <<harnessVars, log, mark, todo>>
  BY <1>2 DEF AgentReads, Case_
<1>4. /\ Len(toAgent) \in Nat \ {0} /\ DOMAIN toAgent = 1 .. Len(toAgent) /\ 1 \in DOMAIN toAgent
      /\ l = toAgent[1] /\ IsSeq(toAgent') /\ Len(toAgent') = Len(toAgent) - 1
      /\ DOMAIN toAgent' = 1 .. Len(toAgent) - 1
      /\ \A i \in 1 .. Len(toAgent) - 1 : toAgent'[i] = toAgent[i + 1] /\ IsLine(toAgent'[i])
  BY <1>1, <1>2, <1>3, LinesMove
<1>5. IsOpeningLine(l, s) /\ l.id < Latest
  BY <1>1, <1>4 DEF PromptLines
<1>6. HandleRequest(l)
  BY <1>3, <1>5 DEF Receive, IsOpeningLine
<1>7. \A i \in DOMAIN toAgent' : IsLine(toAgent'[i])
  BY <1>4
<1>8. AgentOpens(s)' /\ crashed' = crashed
  BY <1>1, <1>3, <1>4, <1>5, <1>6, <1>7, OpensStill
<1>9. version \in {0, VersionIn(s)}
  BY <1>1 DEF AgentOpens
<1>10. out' = <<>> \/ \E m : out' = <<m>> /\ Replied(m, l)
  BY <1>5, <1>6, <1>9, OpeningDoes
<1>11. nextId' = nextId /\ Latest' = Latest
  BY <1>3 DEF harnessVars, Latest
<1>12. PromptLines(s)'
  <2>1. ASSUME NEW i \in DOMAIN toAgent'
        PROVE  IF i < Len(toAgent')
               THEN IsOpeningLine(toAgent'[i], s) /\ toAgent'[i].id < Latest
               ELSE IsPromptLine(toAgent'[i])
    <3>1. PICK j : j = i + 1
      OBVIOUS
    <3>2. /\ i \in 1 .. Len(toAgent) - 1 /\ j \in DOMAIN toAgent /\ toAgent'[i] = toAgent[j]
          /\ (i < Len(toAgent') <=> j < Len(toAgent))
      BY <1>4, <3>1
    <3>3. IF j < Len(toAgent) THEN IsOpeningLine(toAgent[j], s) /\ toAgent[j].id < Latest
          ELSE IsPromptLine(toAgent[j])
      BY <1>1, <3>2 DEF PromptLines
    <3> QED BY <3>2, <3>3
  <2>2. toAgent' # <<>>
    <3>1. Len(toAgent') # 0
      BY <1>4
    <3> QED BY <1>4, <3>1, SeqLen
  <2> QED BY <1>11, <2>1, <2>2 DEF PromptLines, IsOpeningLine, IsPromptLine
<1>13. \E after : HarnessGoes(s, after)' /\ after = Total' + Behind(s)
  <2>1. CASE out' = <<>>
    <3>1. IsSeq(toHarness)
      BY <1>1 DEF HarnessGoes, HarnessShapes
    <3>2. toHarness' = toHarness
      BY <1>3, <2>1, <3>1, EmitsNone
    <3>3. HarnessGoes(s, base)' /\ Total' = Total
      BY <1>1, <1>3, <3>2, SameHarness DEF harnessVars
    <3> QED BY <1>1, <3>3
  <2>2. ASSUME NEW m, out' = <<m>>, Replied(m, l) PROVE \E after : HarnessGoes(s, after)' /\ after = Total' + Behind(s)
    <3>1. IsOldReply(m, Latest)
      BY <1>5, <2>2 DEF Replied, IsOldReply, IsOpeningLine
    <3>2. PICK after : after = base + 1
      OBVIOUS
    <3>3. HarnessGoes(s, after)' /\ Total' = Total + 1
      BY <1>1, <1>3, <2>2, <3>1, <3>2, EmitsOld
    <3>4. after = Total' + Behind(s)
      BY <1>1, <3>2, <3>3
    <3> QED BY <3>3, <3>4
  <2> QED BY <1>10, <2>1, <2>2
<1>14. PICK after : HarnessGoes(s, after)' /\ after = Total' + Behind(s)
  BY <1>13
<1>15. InPrompt(s, after)'
  BY <1>8, <1>12, <1>14 DEF InPrompt
<1> QED BY <1>8, <1>15, PromptGoes

-----------------------------------------------------------------------------
(* The agent reads the prompt.                                             *)

\* What holds when the agent reads the prompt.
PromptRead(s, base) ==
    /\ InPrompt(s, base) /\ toAgent' = <<>> /\ Emits
    /\ UNCHANGED <<harnessVars, log, mark, todo>> /\ faults' = faults

\* What the read prompt leaves on the wires.
LEMMA PromptReadFacts ==
    ASSUME NEW s \in Scenarios, NEW base, PromptRead(s, base)
    PROVE  /\ IsSeq(toAgent') /\ DOMAIN toAgent' = {} /\ toAgent' = <<>>
           /\ LinesHarmless' /\ nextId' = nextId /\ Latest' = Latest
<1>1. HarnessGoes(s, base) /\ IsSeq(todo) /\ todo' = todo
  BY PromptFacts DEF PromptRead
<1>2. toAgent' = <<>>
  BY DEF PromptRead
<1>3. IsSeq(toAgent') /\ Len(toAgent') = 0
  BY <1>2, ShortParts
<1>4. DOMAIN toAgent' = {}
  BY <1>2
<1>5. LinesHarmless'
  <2>1. \A i \in DOMAIN toAgent' : IsLine(toAgent'[i]) /\ toAgent'[i].type # "request"
    BY <1>4
  <2>2. ScriptGoes(s)
    BY <1>1 DEF HarnessGoes
  <2> QED BY <1>1, <1>3, <2>1, <2>2, QuietLines
<1>6. nextId' = nextId /\ Latest' = Latest
  BY DEF PromptRead, harnessVars, Latest
<1> QED BY <1>2, <1>3, <1>4, <1>5, <1>6

\* An agent that answers with an error starts nothing.
LEMMA RefusesPrompt ==
    ASSUME NEW s \in Scenarios, NEW base, PromptRead(s, base), NEW l, NEW k, Answer(l, k)
    PROVE  Harmless'
<1>1. /\ Shapes /\ flows = <<>> /\ pendingClientCalls = {}
  BY PromptFacts DEF PromptRead
<1>2. UNCHANGED <<flows, pendingClientCalls, sessions>>
  BY DEF Answer, Emit, flowVars
<1>3. AgentHarmless
  BY <1>1, NoFlows
<1>4. FlowsHarmless'
  BY <1>1, <1>2 DEF FlowsHarmless
<1>5. AgentHarmless'
  BY <1>2, <1>3, <1>4 DEF AgentHarmless
<1>6. LinesHarmless'
  BY PromptReadFacts
<1> QED BY <1>5, <1>6, ShapesAre

\* In v1 the handler runs the turn.
LEMMA StartsV1 ==
    ASSUME NEW s \in Scenarios, NEW base, PromptRead(s, base), s # "v2-full-turn",
           version = VersionIn(s), version' = version, Known(1),
           NEW fl, MadeFirst(fl, Latest), RunNew(fl)
    PROVE  Turn(s)' \/ Harmless'
<1>1. /\ AgentOpens(s) /\ HarnessGoes(s, base) /\ Shapes /\ flows = <<>> /\ pendingClientCalls = {}
      /\ nextAgentRequestId = 1 /\ base = Total + Behind(s) /\ Total \in Nat /\ base \in Nat
      /\ N(s) \in 1 .. 11
  BY PromptFacts DEF PromptRead
<1>2. /\ IsFlow(fl) /\ FlowShape(fl) /\ fl.session = 1 /\ fl.todo = StartCode /\ fl.todo # <<>>
      /\ fl.kind = "prompt" /\ fl.request = Latest /\ fl.status = "ready" /\ fl.cancelled = FALSE
  <2>1. PICK id : id = Latest
    OBVIOUS
  <2>2. FirstFlow(fl, id)
    BY <2>1, NewFlowIs
  <2> QED BY <2>1, <2>2 DEF FirstFlow
<1>3. /\ IsSeq(toAgent') /\ DOMAIN toAgent' = {} /\ LinesHarmless' /\ nextId' = nextId
  BY PromptReadFacts
<1>4. AgentHarmless
  BY <1>1, NoFlows
<1>5. 1 \in DOMAIN sessions /\ sessions[1].scenario \in {"none", s}
  <2>1. IsSeq(sessions)
    BY <1>1 DEF Shapes
  <2>2. 1 \in DOMAIN sessions
    BY <2>1, SeqLen DEF Known
  <2> QED BY <1>1, <2>2 DEF AgentOpens
<1>6. CASE sessions[1].scenario = "none"
  <2>1. NeverAsks(fl)
    BY <1>2, <1>5, <1>6 DEF NeverAsks, Plain, StartCode
  <2>2. AgentHarmless'
    BY <1>1, <1>2, <1>4, <2>1, RunNewHarmless
  <2> QED BY <1>3, <2>2, ShapesAre
<1>7. CASE sessions[1].scenario = s
  <2>1. PICK e : e = 0
    OBVIOUS
  <2>2. /\ e \in 0 .. N(s) /\ e < N(s) /\ Code(s, e) = StartCode /\ ~AllowedOn(s, e) /\ ~(e > 0)
        /\ Number(s, e) = 0
    BY <1>1, <2>1 DEF Code, StartCode, AllowedOn, Number
  <2>3. TurnStart(fl, s, e)
    BY <1>2, <2>2 DEF TurnStart
  <2>4. TurnSession(s)
    BY <1>5, <1>7 DEF TurnSession
  <2>5. OnlyFlow(fl)
    BY <1>1 DEF OnlyFlow
  <2>6. PICK b : b = Branch(fl)
    OBVIOUS
  <2>7. CASE TurnReady(b, s, e)
    <3>1. PICK d : d = e + 1
      OBVIOUS
    <3>2. nextAgentRequestId = Number(s, e) + 1 /\ faults' = faults
      BY <1>1, <2>2 DEF PromptRead
    <3>3. /\ \E x : flows' = <<x>> /\ IsFlow(x)
          /\ TurnFlow(s, d)' /\ TurnAsks(s, d)' /\ SessionsKept
          /\ nextAgentRequestId' = Number(s, d) + 1
          /\ out' = <<Message(s, d)>>
      BY <1>1, <1>2, <1>3, <2>2, <2>5, <2>6, <2>7, <3>1, <3>2, TurnRuns
    <3>4. \A i \in DOMAIN toAgent' : IsCancel(toAgent'[i]) /\ s = "v1-permission-cancel"
      BY <1>3
    <3>5. \A j \in Questions(s) : j < d => HasAnswered(s, j)
      <4>1. Questions(s) \subseteq 1 .. N(s)
        BY <1>1, <2>2, Places
      <4>2. d = 1
        BY <2>1, <3>1
      <4>3. \A j \in Questions(s) : ~(j < d)
        BY <4>1, <4>2
      <4> QED BY <4>3
    <3>6. Emits /\ UNCHANGED <<harnessVars, log, mark, todo>>
      BY DEF PromptRead
    <3>7. Total = base + e
      BY <1>1, <2>1 DEF Behind
    <3>8. s \in Scenarios /\ version' = version /\ HarnessGoes(s, base) /\ Shapes /\ IsSeq(toAgent')
      BY <1>1, <1>3
    <3>9. Turn(s)'
      BY ONLY <2>2, <2>4, <3>1, <3>3, <3>4, <3>5, <3>6, <3>7, <3>8, TurnAdvances
    <3> QED BY <3>9
  <2>8. CASE FlowShape(b) /\ b.session = 1 /\ HarmlessCode(b.todo)
    <3>1. AgentHarmless'
      BY <1>1, <1>2, <2>5, <2>6, <2>8, HarmlessAfter
    <3> QED BY <1>3, <3>1, ShapesAre
  <2> QED BY <2>2, <2>3, <2>4, <2>6, <2>7, <2>8, TurnBranches
<1> QED BY <1>5, <1>6, <1>7

\* In v2 it answers, and leaves the turn to later.
LEMMA StartsV2 ==
    ASSUME NEW s \in Scenarios, NEW base, PromptRead(s, base), s = "v2-full-turn",
           version = VersionIn(s), version' = version, Known(1),
           UNCHANGED <<sessions, pendingClientCalls, nextAgentRequestId>>,
           out' = <<Response(Latest, "ok")>>,
           NEW fl, MadeFirst(fl, Latest),
           flows' = Append(flows, fl)
    PROVE  Turn(s)' \/ Harmless'
<1>1. /\ AgentOpens(s) /\ HarnessGoes(s, base) /\ Shapes /\ flows = <<>> /\ pendingClientCalls = {}
      /\ nextAgentRequestId = 1 /\ base = Total + Behind(s) /\ Total \in Nat /\ base \in Nat
      /\ N(s) \in 1 .. 11
  BY PromptFacts DEF PromptRead
<1>2. /\ IsFlow(fl) /\ FlowShape(fl) /\ fl.session = 1 /\ fl.todo = StartCode /\ fl.todo # <<>>
      /\ fl.kind = "prompt" /\ fl.request = Latest /\ fl.status = "ready" /\ fl.cancelled = FALSE
  <2>1. PICK id : id = Latest
    OBVIOUS
  <2>2. FirstFlow(fl, id)
    BY <2>1, NewFlowIs
  <2> QED BY <2>1, <2>2 DEF FirstFlow
<1>3. /\ IsSeq(toAgent') /\ DOMAIN toAgent' = {} /\ LinesHarmless' /\ nextId' = nextId
      /\ Latest' = Latest /\ toAgent' = <<>>
  BY PromptReadFacts
<1>4. 1 \in DOMAIN sessions /\ sessions[1].scenario \in {"none", s}
  <2>1. IsSeq(sessions)
    BY <1>1 DEF Shapes
  <2>2. 1 \in DOMAIN sessions
    BY <2>1, SeqLen DEF Known
  <2> QED BY <1>1, <2>2 DEF AgentOpens
<1>5. IsSeq(flows') /\ Len(flows') = 1 /\ DOMAIN flows' = 1 .. 1 /\ flows'[1] = fl
  <2>1. IsSeq(flows) /\ Len(flows) = 0
    BY <1>1, ShortParts
  <2>2. /\ IsSeq(flows') /\ Len(flows') = Len(flows) + 1
        /\ DOMAIN flows' = 1 .. Len(flows) + 1 /\ flows'[Len(flows) + 1] = fl
    BY <2>1, SeqAppend
  <2>3. Len(flows) + 1 = 1
    BY <2>1
  <2> QED BY <2>2, <2>3
<1>6. \A f \in DOMAIN flows' : flows'[f] = fl
  BY <1>5
<1>7. CASE sessions[1].scenario = "none"
  <2>1. NeverAsks(fl)'
    BY <1>2, <1>4, <1>7 DEF NeverAsks, Plain, StartCode
  <2>2. FlowsHarmless'
    BY <1>2, <1>6, <2>1 DEF FlowsHarmless, NeverAsks
  <2>3. AgentHarmless'
    BY <1>1, <1>2, <1>5, <1>6, <2>2 DEF AgentHarmless, Shapes
  <2> QED BY <1>3, <2>3, ShapesAre
<1>8. CASE sessions[1].scenario = s
  <2>1. PICK e : e = 0
    OBVIOUS
  <2>2. /\ e \in 0 .. N(s) /\ e < N(s) /\ Code(s, e) = StartCode /\ ~AllowedOn(s, e) /\ ~(e > 0)
        /\ Number(s, e) = 0 /\ e \notin Questions(s)
    BY <1>1, <2>1 DEF Code, StartCode, AllowedOn, Number, Questions
  <2>3. HarnessGoes(s, base)' /\ Total' = Total + 1
    <3>1. PICK m : m = Response(Latest, "ok")
      OBVIOUS
    <3>2. PICK n : n = Total + 1
      OBVIOUS
    <3>3. n = base /\ ~(n <= base - Behind(s)) /\ ~(n > base)
      BY <1>1, <3>2 DEF Behind
    <3>4. out' = <<m>> /\ Emits /\ UNCHANGED <<harnessVars, log, mark, todo>>
      BY <3>1 DEF PromptRead
    <3> QED BY <1>1, <3>1, <3>2, <3>3, <3>4, EmitsDue
  <2>4. base = Total' - e
    BY <1>1, <2>1, <2>3 DEF Behind
  <2>5. Code(s, e)' = StartCode
    <3>1. Code(s, e)' = Code(s, e)
      BY CodeStays DEF PromptRead
    <3> QED BY <2>2, <3>1
  <2>6. TurnFlow(s, e)'
    BY <1>2, <1>3, <1>5, <2>2, <2>5 DEF TurnFlow
  <2>7. TurnAsks(s, e)'
    BY <1>1, <1>2, <1>5, <2>2 DEF TurnAsks
  <2>8. TurnSession(s)'
    BY <1>4, <1>8 DEF TurnSession
  <2>9. Shapes'
    <3>1. IsSeq(todo')
      BY <1>1 DEF PromptRead, Shapes
    <3> QED BY <1>1, <1>2, <1>3, <1>5, <1>6, <3>1 DEF Shapes
  <2>10. e \in 1 - Behind(s) .. N(s)
    BY <1>1, <2>1 DEF Behind
  <2>11. \A j \in Questions(s) : ~(j < e)
    BY <2>1 DEF Questions
  <2>12. AgentGoes(s, e)'
    BY <1>1, <1>5, <2>2, <2>6, <2>7, <2>8, <2>9, <2>10, <2>11 DEF AgentGoes
  <2>13. LinesGo(s, e)'
    BY <1>2, <1>3, <1>5 DEF LinesGo
  <2>14. InTurn(s, e, base)'
    BY <2>3, <2>4, <2>12, <2>13 DEF InTurn
  <2> QED BY <2>2, <2>14, TurnGoes
<1> QED BY <1>4, <1>7, <1>8

\* What the agent makes of the prompt.
LEMMA PromptDoes ==
    ASSUME NEW l, IsPromptLine(l), HandleRequest(l), version \in 0 .. 2
    PROVE  /\ faults' = faults /\ crashed' = crashed /\ version' = version
           /\ \/ \E k : Answer(l, k)
              \/ Known(1) /\ version # 0 /\ HandlePrompt(l)
<1>1. l.method = "session/prompt" /\ l.valid /\ l.session = 1
  BY DEF IsPromptLine, IsCall, IsLine
<1>2. l.method \notin Extensions /\ l.method # "initialize" /\ l.method \in KnownMethods
  BY <1>1 DEF Extensions, KnownMethods
<1>3. (\E k : Answer(l, k)) => faults' = faults /\ crashed' = crashed /\ version' = version
  BY DEF Answer, Emit, lifeVars, startVars
<1>4. CASE version = 0
  <2>1. Answer(l, "invalid_request")
    BY <1>2, <1>4 DEF HandleRequest
  <2> QED BY <1>3, <2>1
<1>5. CASE version # 0
  <2>1. HandlePrompt(l)
    BY <1>1, <1>2, <1>5 DEF HandleRequest
  <2>2. CASE ~Known(1)
    <3>1. Answer(l, "not_found")
      BY <1>1, <2>1, <2>2 DEF HandlePrompt
    <3> QED BY <1>3, <3>1
  <2>3. CASE Known(1)
    <3>1. UNCHANGED <<lifeVars, version>>
      BY <1>1, <2>1, <2>3 DEF HandlePrompt
    <3> QED BY <1>5, <2>1, <2>3, <3>1 DEF lifeVars, startVars
  <2> QED BY <2>2, <2>3
<1> QED BY <1>4, <1>5

\* The agent reads the prompt.
LEMMA ReadsPrompt ==
    ASSUME NEW s \in Scenarios, NEW base, InPrompt(s, base), AgentReads, ~(Len(toAgent) > 1)
    PROVE  (Turn(s)' \/ Harmless') /\ crashed' = crashed
<1>1. /\ AgentOpens(s) /\ PromptLines(s) /\ IsSeq(toAgent) /\ Shapes
      /\ (\A i \in DOMAIN toAgent : IsLine(toAgent[i]))
  BY PromptFacts
<1>2. PICK l : l = Head(toAgent)
  OBVIOUS
<1>3. /\ toAgent # <<>> /\ Receive(l) /\ toAgent' = Tail(toAgent) /\ Emits
      /\ UNCHANGED <<harnessVars, log, mark, todo>>
  BY <1>2 DEF AgentReads, Case_
<1>4. /\ Len(toAgent) \in Nat \ {0} /\ 1 \in DOMAIN toAgent
      /\ l = toAgent[1] /\ IsSeq(toAgent') /\ Len(toAgent') = Len(toAgent) - 1
  BY <1>1, <1>2, <1>3, LinesMove
<1>5. Len(toAgent) = 1
  BY <1>4
<1>6. toAgent' = <<>>
  <2>1. Len(toAgent') = 0
    BY <1>4, <1>5
  <2> QED BY <1>4, <2>1, SeqLen
<1>7. IsPromptLine(l)
  BY <1>1, <1>4, <1>5 DEF PromptLines
<1>8. HandleRequest(l) /\ l.session = 1 /\ l.id = Latest
  BY <1>3, <1>7 DEF Receive, IsPromptLine, IsCall, IsLine
<1>9. version \in {0, VersionIn(s)} /\ version \in 0 .. 2
  BY <1>1 DEF AgentOpens, VersionIn
<1>10. /\ faults' = faults /\ crashed' = crashed /\ version' = version
       /\ (\E k : Answer(l, k)) \/ (Known(1) /\ version # 0 /\ HandlePrompt(l))
  BY <1>7, <1>8, <1>9, PromptDoes
<1>11. PromptRead(s, base)
  BY <1>3, <1>6, <1>10 DEF PromptRead
<1>12. CASE \E k : Answer(l, k)
  BY <1>10, <1>11, <1>12, RefusesPrompt
<1>13. CASE Known(1) /\ version # 0 /\ HandlePrompt(l)
  <2>1. version = VersionIn(s)
    BY <1>9, <1>13
  <2>2. PICK fl : MadeFirst(fl, Latest)
    BY DEF MadeFirst
  <2>3. NewFlow("prompt", l.id, l.session, <<Goto("start")>>) = fl
    BY <1>8, <2>2 DEF MadeFirst, StartCode
  <2>4. IF version = 1 THEN RunNew(fl)
        ELSE /\ flows' = Append(flows, fl)
             /\ out' = <<Response(Latest, "ok")>>
             /\ UNCHANGED <<sessions, pendingClientCalls, nextAgentRequestId>>
    BY <1>8, <1>13, <2>3 DEF HandlePrompt
  <2>5. CASE s = "v2-full-turn"
    <3>1. version # 1
      BY <2>1, <2>5 DEF VersionIn
    <3> QED BY <1>10, <1>11, <1>13, <2>1, <2>2, <2>4, <2>5, <3>1, StartsV2
  <2>6. CASE s # "v2-full-turn"
    <3>1. version = 1
      BY <2>1, <2>6 DEF VersionIn
    <3> QED BY <1>10, <1>11, <1>13, <2>1, <2>2, <2>4, <2>6, <3>1, StartsV1
  <2> QED BY <2>5, <2>6
<1> QED BY <1>10, <1>12, <1>13

\* Every step keeps the invariant while the agent has yet to read the prompt.
LEMMA PromptStays ==
    ASSUME IInv, phase = "running", NEW s \in Scenarios, Prompting(s), Next
    PROVE  IInv'
<1>1. PICK base : InPrompt(s, base)
  BY PromptIs
<1>2. HarnessGoes(s, base) /\ Total - base <= N(s) /\ IsSeq(todo)
  BY <1>1, PromptFacts
<1>3. ~CaseRequests /\ ~CaseMarks /\ ~Throws /\ ~CaseSettles /\ ~CaseFails
  BY <1>2, NoOtherSteps
<1>4. ~CaseTells /\ ~TimesOut /\ ~AgentGoesOn /\ ~AgentWakes
  BY <1>1, QuietInPrompt
<1>5. ~RunnerStep
  BY NoRunner
<1>6. CASE CaseExpects \/ CaseGoesOn \/ HarnessReads \/ WriteReturns
  BY <1>1, <1>6, GoOnInPrompt, NoCrash, StepTo
<1>7. CASE AgentReads
  <2>1. CASE Len(toAgent) > 1
    BY <1>1, <1>7, <2>1, ReadsOldInPrompt, NoCrash, StepTo
  <2>2. CASE ~(Len(toAgent) > 1)
    BY <1>1, <1>7, <2>2, ReadsPrompt, NoCrash, StepTo
  <2> QED BY <2>1, <2>2
<1> QED BY <1>3, <1>4, <1>5, <1>6, <1>7 DEF Next, CaseStep, WireStep, TimerStep

-----------------------------------------------------------------------------
(* The session is opened.                                                  *)

\* What a case does up to its prompt.
OpeningCall(x, s) ==
    \/ IsCallOf(x, "initialize") /\ x.arg = VersionIn(s)
    \/ IsCallOf(x, "session/new")
    \/ IsCallOf(x, "_conformance/set_scenario") /\ x.arg = s

\* Where the case is when it opens its session.
LEMMA OpeningNow ==
    ASSUME NEW s \in Scenarios, AtCase(s), Pos(s) \in 1 .. Place(s, 0), IsSeq(todo)
    PROVE  /\ todo # <<>> /\ Place(s, 0) \in {7, 8} /\ Pos(s) \in Nat
           /\ Advance => AtCase(s)' /\ Pos(s)' = Pos(s) + 1 /\ IsSeq(todo')
           /\ \/ Pos(s) < Place(s, 0) /\ OpeningCall(Head(todo), s)
              \/ Pos(s) < Place(s, 0) /\ Head(todo).op \in {"await", "mark"}
              \/ Pos(s) = Place(s, 0) /\ IsCallOf(Head(todo), "session/prompt")
<1>1. PICK t : t = Script(s)
  OBVIOUS
<1>2. /\ Begins(t, VersionIn(s), s) /\ IsCallOf(t[Place(s, 0)], "session/prompt")
      /\ (s = "v2-full-turn" => t[7].op = "mark")
      /\ Len(t) \in Nat /\ Len(t) >= Place(s, N(s) + 1) + IF s = "v1-permission-cancel" THEN 0 ELSE 1
  BY <1>1, ShapeOf DEF ScriptShape
<1>3. Place(s, 0) \in {7, 8} /\ (s # "v2-full-turn" => Place(s, 0) = 7)
  BY DEF Place
<1>4. Place(s, 0) < Place(s, N(s) + 1) /\ Place(s, N(s) + 1) \in Nat
  <2>1. N(s) \in 1 .. 11
    BY DEF N, Scenarios
  <2>2. PICK x, y : x = 0 /\ y = N(s) + 1
    OBVIOUS
  <2>3. x \in 0 .. N(s) + 1 /\ y \in 0 .. N(s) + 1 /\ x < y
    BY <2>1, <2>2
  <2>4. Place(s, x) < Place(s, y)
    BY <2>3, PlacesGrow
  <2>5. Place(s, y) \in Nat
    BY <2>3, PlaceNat
  <2> QED BY <2>2, <2>4, <2>5
<1>5. Pos(s) <= Len(t) /\ Pos(s) \in Nat
  BY <1>2, <1>3, <1>4
<1>6. /\ todo # <<>> /\ Head(todo) = t[Pos(s)]
      /\ Advance => AtCase(s)' /\ Pos(s)' = Pos(s) + 1 /\ IsSeq(todo')
  BY <1>1, <1>5, AtStep
<1>7. PICK p : p = Pos(s)
  OBVIOUS
<1>8. p \in 1 .. Place(s, 0)
  BY <1>7
<1>9. p = 1 \/ p = 2 \/ p = 3 \/ p = 4 \/ p = 5 \/ p = 6 \/ p = 7 \/ p = 8
  BY <1>3, <1>8
<1>10. \/ p < Place(s, 0) /\ OpeningCall(t[p], s)
       \/ p < Place(s, 0) /\ t[p].op \in {"await", "mark"}
       \/ p = Place(s, 0) /\ IsCallOf(t[p], "session/prompt")
  <2>1. CASE p = 1 \/ p = 3 \/ p = 5
    BY <1>2, <1>3, <2>1 DEF Begins, OpeningCall
  <2>2. CASE p = 2 \/ p = 4 \/ p = 6
    BY <1>2, <1>3, <2>2 DEF Begins, IsAwait
  <2>3. CASE p = 7 /\ s # "v2-full-turn"
    BY <1>2, <1>3, <2>3
  <2>4. CASE p = 7 /\ s = "v2-full-turn"
    <3>1. Place(s, 0) = 8
      BY <2>4 DEF Place
    <3> QED BY <1>2, <2>4, <3>1
  <2>5. CASE p = 8
    <3>1. Place(s, 0) = 8
      BY <1>3, <1>8, <2>5
    <3> QED BY <1>2, <2>5, <3>1
  <2> QED BY <1>9, <2>1, <2>2, <2>3, <2>4, <2>5
<1> QED BY <1>3, <1>5, <1>6, <1>7, <1>10

\* What holds while the session is opened.
LEMMA OpeningFacts ==
    ASSUME NEW s \in Scenarios, Opening(s)
    PROVE  /\ AtCase(s) /\ Pos(s) \in 1 .. Place(s, 0) /\ AgentOpens(s) /\ HarnessShapes
           /\ \A i \in DOMAIN toAgent : IsOpeningLine(toAgent[i], s) /\ IsLine(toAgent[i])
           /\ \A k \in 1 .. Total : IsOldReply(L(k), nextId)
           /\ calls = <<>> /\ queued["events"] = <<>> /\ waiters["events"] = <<>>
           /\ Shapes /\ IsSeq(todo) /\ IsSeq(toAgent) /\ flows = <<>> /\ pendingClientCalls = {}
           /\ IsSeq(log) /\ IsSeq(toHarness) /\ Len(log) \in Nat /\ Len(toHarness) \in Nat
           /\ Total \in Nat /\ Len(log) <= Total /\ ~fatalError
           /\ nextId \in Nat \ {0} /\ nextId <= RequestBound + 1
<1>1. /\ AtCase(s) /\ Pos(s) \in 1 .. Place(s, 0) /\ AgentOpens(s) /\ HarnessShapes
      /\ \A i \in DOMAIN toAgent : IsOpeningLine(toAgent[i], s)
      /\ \A k \in 1 .. Total : IsOldReply(L(k), nextId)
      /\ calls = <<>> /\ queued["events"] = <<>> /\ waiters["events"] = <<>>
  BY DEF Opening
<1>2. Shapes /\ flows = <<>> /\ pendingClientCalls = {}
  BY <1>1 DEF AgentOpens
<1>3. IsSeq(log) /\ IsSeq(toHarness) /\ ~fatalError
  BY <1>1 DEF HarnessShapes
<1>4. Len(log) \in Nat /\ Len(toHarness) \in Nat
  BY <1>3, SeqLen
<1>5. Total \in Nat /\ Len(log) <= Total
  BY <1>4 DEF Total
<1>6. nextId \in Nat \ {0} /\ nextId <= RequestBound + 1
  BY <1>1, BoundAssumption DEF HarnessShapes
<1> QED BY <1>1, <1>2, <1>3, <1>4, <1>5, <1>6 DEF Shapes, IsOpeningLine

\* The harness goes on, and the session is still opened.
LEMMA StepInOpening ==
    ASSUME NEW s \in Scenarios, Opening(s), UNCHANGED <<agentVars, toAgent, nextId, calls>>,
           queued'["events"] = queued["events"], waiters'["events"] = waiters["events"],
           HarnessShapes', AtCase(s)', Pos(s)' \in 1 .. Place(s, 0), IsSeq(todo'),
           \A k \in 1 .. Total' : IsOldReply(L(k)', nextId)
    PROVE  Opening(s)'
<1>1. UNCHANGED <<sessions, flows, pendingClientCalls, nextAgentRequestId, version>>
  BY DEF agentVars
<1>2. AgentOpens(s) /\ Shapes
  BY OpeningFacts
<1>3. Shapes'
  BY <1>1, <1>2 DEF Shapes
<1>4. AgentOpens(s)'
  BY <1>1, <1>2, <1>3 DEF AgentOpens
<1>5. Place(s, 0)' = Place(s, 0)
  BY DEF Place
<1>6. (\A i \in DOMAIN toAgent : IsOpeningLine(toAgent[i], s))'
  BY OpeningFacts DEF IsOpeningLine
<1>7. calls' = <<>> /\ queued'["events"] = <<>> /\ waiters'["events"] = <<>>
  BY OpeningFacts
<1> QED BY <1>4, <1>5, <1>6, <1>7 DEF Opening

\* The case makes a request.
LEMMA RequestKeeps ==
    ASSUME HarnessShapes, H!Request, UNCHANGED <<log, toHarness, mark>>
    PROVE  /\ HarnessShapes' /\ nextId' = nextId + 1 /\ nextId \in H!Ids
           /\ response'[nextId] = "waiting" /\ nextId \in pendingResponses'
           /\ UNCHANGED <<calls, queued, waiters>>
<1>1. /\ nextId <= RequestBound /\ nextId' = nextId + 1
      /\ pendingResponses' = pendingResponses \cup {nextId}
      /\ response' = [response EXCEPT ![nextId] = "waiting"]
      /\ UNCHANGED <<answeredBy, queued, waiters, calls, received, fatalError>>
  BY DEF H!Request, H!expectVars
<1>2. nextId \in Nat \ {0} /\ RequestBound \in Nat /\ H!Ids = 1 .. RequestBound
  BY BoundAssumption DEF HarnessShapes, H!Ids
<1>3. nextId \in H!Ids /\ nextId' \in 1 .. RequestBound + 1
  BY <1>1, <1>2
<1>4. DOMAIN response = H!Ids
  BY DEF HarnessShapes
<1>5. response'[nextId] = "waiting" /\ DOMAIN response' = H!Ids
  BY <1>1, <1>3, <1>4
<1>6. pendingResponses' \subseteq H!Ids /\ nextId \in pendingResponses'
  BY <1>1, <1>3 DEF HarnessShapes
<1>7. HarnessShapes'
  BY <1>1, <1>3, <1>5, <1>6 DEF HarnessShapes
<1> QED BY <1>1, <1>3, <1>5, <1>6, <1>7

\* A request's line goes behind the others.
LEMMA LineAdded ==
    ASSUME IsSeq(toAgent), NEW l, Says(l)
    PROVE  /\ IsSeq(toAgent') /\ Len(toAgent') = Len(toAgent) + 1 /\ Len(toAgent) \in Nat
           /\ DOMAIN toAgent' = 1 .. Len(toAgent) + 1 /\ toAgent' # <<>>
           /\ \A i \in DOMAIN toAgent' :
                 IF i = Len(toAgent') THEN toAgent'[i] = l
                 ELSE i \in DOMAIN toAgent /\ toAgent'[i] = toAgent[i]
<1>1. /\ IsSeq(toAgent') /\ Len(toAgent') = Len(toAgent) + 1 /\ toAgent' # <<>>
      /\ DOMAIN toAgent' = 1 .. Len(toAgent) + 1
      /\ \A i \in 1 .. Len(toAgent) : toAgent'[i] = toAgent[i]
      /\ toAgent'[Len(toAgent) + 1] = l
      /\ Len(toAgent) \in Nat /\ DOMAIN toAgent = 1 .. Len(toAgent)
  BY SeqAppend, SeqLen DEF Says
<1> QED BY <1>1

\* The case opens the session, one request after the other.
LEMMA RequestsInOpening ==
    ASSUME NEW s \in Scenarios, Opening(s), CaseRequests,
           OpeningCall(Head(todo), s), Pos(s) < Place(s, 0)
    PROVE  Opening(s)'
<1>1. /\ AtCase(s) /\ Pos(s) \in 1 .. Place(s, 0) /\ AgentOpens(s) /\ HarnessShapes
      /\ \A i \in DOMAIN toAgent : IsOpeningLine(toAgent[i], s) /\ IsLine(toAgent[i])
      /\ \A k \in 1 .. Total : IsOldReply(L(k), nextId)
      /\ calls = <<>> /\ queued["events"] = <<>> /\ waiters["events"] = <<>>
      /\ Shapes /\ IsSeq(todo) /\ IsSeq(toAgent)
      /\ nextId \in Nat \ {0}
  BY OpeningFacts
<1>2. /\ H!Request /\ Advance /\ UNCHANGED <<agentVars, log, toHarness, mark>>
      /\ Says(ClientLine("request", Head(todo).what, nextId, Head(todo).arg))
  BY DEF CaseRequests, wireVars
<1>3. PICK x, m, a, n, y : x = Head(todo) /\ m = x.what /\ a = x.arg /\ n = nextId /\ y = "request"
  OBVIOUS
<1>4. PICK l : l = ClientLine(y, m, n, a)
  OBVIOUS
<1>5. l.type = y /\ l.method = m /\ l.id = n /\ l.arg = a /\ IsLine(l)
  <2>1. y \in {"request", "notification", "response", "garbage"}
    BY <1>3
  <2> QED BY <1>4, <2>1, ClientLineIs
<1>6. /\ HarnessShapes' /\ nextId' = nextId + 1 /\ UNCHANGED <<calls, queued, waiters>>
  BY <1>1, <1>2, RequestKeeps
<1>7. /\ IsSeq(toAgent')
      /\ \A i \in DOMAIN toAgent' :
            IF i = Len(toAgent') THEN toAgent'[i] = l
            ELSE i \in DOMAIN toAgent /\ toAgent'[i] = toAgent[i]
  BY <1>1, <1>2, <1>3, <1>4, LineAdded
<1>8. OpeningCall(x, s)
  BY <1>3
<1>9. /\ IsLine(l) /\ l.type = "request" /\ l.id \in 1 .. nextId' - 1
      /\ \/ l.method = "initialize" /\ l.arg = VersionIn(s)
         \/ l.method = "session/new"
         \/ l.method = "_conformance/set_scenario" /\ l.arg = s
  BY <1>1, <1>3, <1>5, <1>6, <1>8 DEF OpeningCall, IsCallOf
<1>10. ASSUME NEW i \in DOMAIN toAgent'
       PROVE  /\ IsLine(toAgent'[i]) /\ toAgent'[i].type = "request"
              /\ toAgent'[i].id \in 1 .. nextId' - 1
              /\ \/ toAgent'[i].method = "initialize" /\ toAgent'[i].arg = VersionIn(s)
                 \/ toAgent'[i].method = "session/new"
                 \/ toAgent'[i].method = "_conformance/set_scenario" /\ toAgent'[i].arg = s
  <2>1. CASE i = Len(toAgent')
    BY <1>7, <1>9, <2>1
  <2>2. CASE i # Len(toAgent')
    <3>1. i \in DOMAIN toAgent /\ toAgent'[i] = toAgent[i]
      BY <1>7, <2>2
    <3>2. IsOpeningLine(toAgent[i], s)
      BY <1>1, <3>1
    <3>3. toAgent[i].id \in 1 .. nextId' - 1
      BY <1>1, <1>6, <3>2 DEF IsOpeningLine
    <3> QED BY <3>1, <3>2, <3>3 DEF IsOpeningLine
  <2> QED BY <2>1, <2>2
<1>11. (\A i \in DOMAIN toAgent : IsOpeningLine(toAgent[i], s))'
  BY <1>10 DEF IsOpeningLine
<1>12. Shapes'
  BY <1>1, <1>2, <1>7, <1>10, OpeningNow DEF Shapes, agentVars
<1>13. AgentOpens(s)'
  BY <1>1, <1>2, <1>12 DEF AgentOpens, agentVars
<1>14. AtCase(s)' /\ Pos(s)' \in 1 .. Place(s, 0)
  BY <1>1, <1>2, OpeningNow
<1>15. \A k \in 1 .. Total' : IsOldReply(L(k)', nextId')
  <2>1. Total' = Total /\ \A k : L(k)' = L(k)
    BY <1>2 DEF Total, L
  <2>2. ASSUME NEW k \in 1 .. Total PROVE IsOldReply(L(k), nextId')
    <3>1. IsOldReply(L(k), nextId)
      BY <1>1
    <3> QED BY <1>1, <1>6, <3>1 DEF IsOldReply
  <2> QED BY <2>1, <2>2
<1>16. Place(s, 0)' = Place(s, 0)
  BY DEF Place
<1>17. calls' = <<>> /\ queued'["events"] = <<>> /\ waiters'["events"] = <<>>
  BY <1>1, <1>6
<1> QED BY <1>6, <1>11, <1>13, <1>14, <1>15, <1>16, <1>17 DEF Opening

\* The case prompts: the session is open, as far as it can be.
LEMMA PromptsInOpening ==
    ASSUME NEW s \in Scenarios, Opening(s), CaseRequests,
           IsCallOf(Head(todo), "session/prompt"), Pos(s) = Place(s, 0)
    PROVE  Prompting(s)'
<1>1. /\ AtCase(s) /\ Pos(s) \in 1 .. Place(s, 0) /\ AgentOpens(s) /\ HarnessShapes
      /\ \A i \in DOMAIN toAgent : IsOpeningLine(toAgent[i], s) /\ IsLine(toAgent[i])
      /\ \A k \in 1 .. Total : IsOldReply(L(k), nextId)
      /\ calls = <<>> /\ queued["events"] = <<>> /\ waiters["events"] = <<>>
      /\ Shapes /\ IsSeq(todo) /\ IsSeq(toAgent)
      /\ Len(log) \in Nat /\ Total \in Nat /\ Len(log) <= Total
      /\ nextId \in Nat \ {0}
  BY OpeningFacts
<1>2. /\ H!Request /\ Advance /\ UNCHANGED <<agentVars, log, toHarness, mark>>
      /\ Says(ClientLine("request", Head(todo).what, nextId, Head(todo).arg))
  BY DEF CaseRequests, wireVars
<1>3. PICK x, m, a, n, y : x = Head(todo) /\ m = x.what /\ a = x.arg /\ n = nextId /\ y = "request"
  OBVIOUS
<1>4. PICK l : l = ClientLine(y, m, n, a)
  OBVIOUS
<1>5. m = "session/prompt" /\ m # "initialize"
  BY <1>3 DEF IsCallOf
<1>6. l.type = y /\ l.method = m /\ l.id = n /\ l.arg = a /\ IsLine(l) /\ l.valid
  <2>1. y \in {"request", "notification", "response", "garbage"}
    BY <1>3
  <2> QED BY <1>4, <1>5, <2>1, ClientLineIs
<1>7. /\ HarnessShapes' /\ nextId' = nextId + 1 /\ nextId \in H!Ids
      /\ response'[nextId] = "waiting" /\ nextId \in pendingResponses'
      /\ UNCHANGED <<calls, queued, waiters>>
  BY <1>1, <1>2, RequestKeeps
<1>8. Latest' = nextId
  BY <1>1, <1>7 DEF Latest
<1>9. /\ IsSeq(toAgent') /\ toAgent' # <<>> /\ Len(toAgent') \in Nat
      /\ DOMAIN toAgent' = 1 .. Len(toAgent')
      /\ \A i \in DOMAIN toAgent' :
            IF i = Len(toAgent') THEN toAgent'[i] = l
            ELSE i \in DOMAIN toAgent /\ toAgent'[i] = toAgent[i]
  BY <1>1, <1>2, <1>3, <1>4, LineAdded, SeqLen
<1>10. IsLine(l) /\ l.type = "request" /\ l.method = "session/prompt" /\ l.id = Latest' /\ l.valid
  BY <1>3, <1>5, <1>6, <1>8
<1>11. ASSUME NEW i \in DOMAIN toAgent'
       PROVE  IF i < Len(toAgent')
              THEN /\ IsLine(toAgent'[i]) /\ toAgent'[i].type = "request"
                   /\ toAgent'[i].id \in 1 .. nextId' - 1 /\ toAgent'[i].id < Latest'
                   /\ \/ toAgent'[i].method = "initialize" /\ toAgent'[i].arg = VersionIn(s)
                      \/ toAgent'[i].method = "session/new"
                      \/ toAgent'[i].method = "_conformance/set_scenario" /\ toAgent'[i].arg = s
              ELSE toAgent'[i] = l
  <2>1. CASE i = Len(toAgent')
    BY <1>9, <2>1
  <2>2. CASE i # Len(toAgent')
    <3>1. i \in DOMAIN toAgent /\ toAgent'[i] = toAgent[i] /\ i < Len(toAgent')
      BY <1>9, <2>2
    <3>2. IsOpeningLine(toAgent[i], s)
      BY <1>1, <3>1
    <3>3. toAgent[i].id \in 1 .. nextId' - 1 /\ toAgent[i].id < Latest'
      BY <1>1, <1>7, <1>8, <3>2 DEF IsOpeningLine
    <3> QED BY <3>1, <3>2, <3>3 DEF IsOpeningLine
  <2> QED BY <2>1, <2>2
<1>12. PromptLines(s)'
  BY <1>9, <1>10, <1>11 DEF PromptLines, IsPromptLine, IsOpeningLine, IsCall
<1>13. \A i \in DOMAIN toAgent' : IsLine(toAgent'[i])
  BY <1>10, <1>11
<1>14. AtCase(s)' /\ Pos(s)' = Place(s, 0) + 1 /\ IsSeq(todo') /\ Place(s, 0) \in {7, 8}
  BY <1>1, <1>2, OpeningNow
<1>15. Shapes'
  BY <1>1, <1>2, <1>9, <1>13, <1>14 DEF Shapes, agentVars
<1>16. AgentOpens(s)'
  BY <1>1, <1>2, <1>15 DEF AgentOpens, agentVars
<1>17. Total' = Total /\ Len(log') = Len(log) /\ \A k : L(k)' = L(k)
  BY <1>2 DEF Total, L
<1>18. PICK base : base = Total + Behind(s)
  OBVIOUS
<1>19. base \in Nat /\ Behind(s) \in {0, 1} /\ Len(log) <= base /\ (Behind(s) = 1 => Len(log) < base)
  BY <1>1, <1>18 DEF Behind
<1>20. Len(calls') = 0 /\ calls' = <<>>
  BY <1>1, <1>7, ShortParts
<1>21. ScriptGoes(s)'
  <2>1. PICK z : z = 0
    OBVIOUS
  <2>2. N(s) \in 1 .. 11 /\ Place(s, z + 1) = Place(s, z) + 1 + 3 * Behind(s)
    <3>1. N(s) \in 1 .. 11
      BY DEF N, Scenarios
    <3>2. z \in 0 .. N(s)
      BY <2>1, <3>1
    <3> QED BY <2>1, <3>1, <3>2, Places
  <2>3. Pos(s)' \in Place(s, z) + 1 .. Place(s, z + 1)
    BY <1>14, <1>19, <2>1, <2>2
  <2>4. z = Len(calls') /\ z \in 0 .. N(s) + 1 /\ z <= N(s) /\ ~(z > N(s))
    BY <1>20, <2>1, <2>2
  <2>5. \A w : Place(s, w)' = Place(s, w)
    BY DEF Place
  <2> QED BY <1>14, <2>3, <2>4, <2>5 DEF ScriptGoes
<1>22. BoxGoes(s, base)'
  <2>1. ReadOf(base)' = 0
    BY <1>17, <1>19 DEF ReadOf
  <2>2. queued'["events"] = <<>> /\ waiters'["events"] = <<>>
    BY <1>1, <1>7
  <2>3. IsSeq(queued'["events"]) /\ Len(queued'["events"]) = 0
    BY <2>2, ShortParts
  <2>4. 0 >= 0 /\ 0 - 0 = 0 /\ 1 .. 0 = {} /\ ~(0 > 0)
    OBVIOUS
  <2> QED BY <1>20, <2>1, <2>2, <2>3, <2>4 DEF BoxGoes
<1>23. ReplyGoes(s, base)'
  <2>1. s = "v2-full-turn" => mark' < base /\ Len(log') < base /\ Pos(s)' <= 10
    <3>1. s = "v2-full-turn" => Behind(s) = 1
      BY DEF Behind
    <3>2. mark \in Nat /\ mark <= Len(log) /\ mark' = mark
      BY <1>1, <1>2 DEF HarnessShapes
    <3> QED BY <1>1, <1>14, <1>17, <1>19, <3>1, <3>2
  <2> QED BY <1>7, <1>8, <1>19, <2>1 DEF ReplyGoes
<1>24. WireGoes(s, base)'
  <2>1. ASSUME NEW k \in 1 .. Total
        PROVE  IsOldReply(L(k)', Latest') /\ ~(k = base /\ Behind(s) = 1) /\ ~(k > base)
    <3>1. IsOldReply(L(k), nextId)
      BY <1>1
    <3>2. L(k)' = L(k)
      BY <1>17
    <3>3. ~(k = base /\ Behind(s) = 1) /\ ~(k > base)
      BY <1>1, <1>18, <1>19
    <3> QED BY <1>8, <3>1, <3>2, <3>3
  <2>2. \A k \in 1 .. Total' :
          /\ k <= base - Behind(s) => IsOldReply(L(k)', Latest')
          /\ k = base /\ Behind(s) = 1 => L(k)' = Response(Latest', "ok")
          /\ k > base => L(k)' = Message(s, k - base)
    BY <1>17, <2>1
  <2> QED BY <2>2 DEF WireGoes
<1>25. HarnessGoes(s, base)'
  BY <1>7, <1>21, <1>22, <1>23, <1>24 DEF HarnessGoes
<1>26. InPrompt(s, base)'
  BY <1>12, <1>16, <1>17, <1>18, <1>25 DEF InPrompt
<1> QED BY <1>26, PromptGoes

\* The case goes on, or marks the transcript.
LEMMA GoesOnInOpening ==
    ASSUME NEW s \in Scenarios, Opening(s), CaseGoesOn \/ CaseMarks,
           Pos(s) < Place(s, 0)
    PROVE  Opening(s)'
<1>1. /\ AtCase(s) /\ Pos(s) \in 1 .. Place(s, 0) /\ HarnessShapes /\ IsSeq(todo)
      /\ \A k \in 1 .. Total : IsOldReply(L(k), nextId)
      /\ Len(log) \in Nat
  BY OpeningFacts
<1>2. /\ Advance /\ UNCHANGED <<agentVars, harnessVars, log, toHarness, toAgent>>
      /\ mark' \in {mark, Len(log)}
  BY DEF CaseGoesOn, CaseMarks, wireVars
<1>3. /\ AtCase(s)' /\ Pos(s)' = Pos(s) + 1 /\ IsSeq(todo') /\ Place(s, 0) \in {7, 8}
      /\ Pos(s) \in Nat
  BY <1>1, <1>2, OpeningNow
<1>4. Pos(s)' \in 1 .. Place(s, 0)
  BY <1>1, <1>3
<1>5. HarnessShapes'
  BY <1>1, <1>2 DEF HarnessShapes, harnessVars
<1>6. UNCHANGED <<agentVars, toAgent, nextId, calls, queued, waiters>>
  BY <1>2 DEF harnessVars
<1>7. \A k \in 1 .. Total' : IsOldReply(L(k)', nextId)
  <2>1. Total' = Total /\ \A k : L(k)' = L(k)
    BY <1>2 DEF Total, L
  <2> QED BY <1>1, <2>1
<1> QED BY <1>3, <1>4, <1>5, <1>6, <1>7, StepInOpening

\* The harness reads an answer.
LEMMA ReadsInOpening ==
    ASSUME NEW s \in Scenarios, Opening(s), HarnessReads
    PROVE  Opening(s)'
<1>1. /\ AtCase(s) /\ Pos(s) \in 1 .. Place(s, 0) /\ HarnessShapes /\ IsSeq(todo)
      /\ \A k \in 1 .. Total : IsOldReply(L(k), nextId)
      /\ IsSeq(log) /\ IsSeq(toHarness) /\ Len(log) \in Nat /\ Len(toHarness) \in Nat
  BY OpeningFacts
<1>2. PICK m : m = Head(toHarness)
  OBVIOUS
<1>3. toHarness # <<>> /\ toHarness' = Tail(toHarness) /\ UNCHANGED <<agentVars, toAgent, todo>>
  BY DEF HarnessReads, Case_
<1>4. m = toHarness[1] /\ Len(toHarness) # 0
  BY <1>1, <1>2, <1>3, SeqLen
<1>5. PICK k : k = Len(log) + 1
  OBVIOUS
<1>6. k \in 1 .. Total /\ L(k) = m
  <2>1. k \in 1 .. Total /\ ~(k <= Len(log)) /\ k - Len(log) = 1
    BY <1>1, <1>4, <1>5 DEF Total
  <2> QED BY <1>4, <2>1 DEF L
<1>7. IsOldReply(m, nextId)
  BY <1>1, <1>6
<1>8. PICK n : n = nextId
  OBVIOUS
<1>9. /\ HarnessShapes' /\ log' = Append(log, m)
      /\ queued'["events"] = queued["events"]
      /\ UNCHANGED <<nextId, waiters, calls>>
  BY <1>1, <1>2, <1>7, <1>8, OldReplyRead
<1>10. Total' = Total /\ \A h \in 1 .. Total : L(h)' = L(h)
  BY <1>1, <1>2, <1>3, <1>9, WireMoves
<1>11. AtCase(s)' /\ Pos(s)' = Pos(s) /\ IsSeq(todo')
  BY <1>1, <1>3 DEF AtCase, Pos
<1>12. \A h \in 1 .. Total' : IsOldReply(L(h)', nextId)
  BY <1>1, <1>10
<1> QED BY <1>1, <1>3, <1>9, <1>11, <1>12, StepInOpening

\* A write returns, or a request times out.
LEMMA SettlesInOpening ==
    ASSUME NEW s \in Scenarios, Opening(s), WriteReturns \/ TimesOut
    PROVE  Opening(s)'
<1>1. /\ AtCase(s) /\ Pos(s) \in 1 .. Place(s, 0) /\ HarnessShapes /\ IsSeq(todo)
      /\ \A k \in 1 .. Total : IsOldReply(L(k), nextId)
  BY OpeningFacts
<1>2. /\ UNCHANGED <<agentVars, log, toHarness, toAgent, mark, todo>>
  BY DEF WriteReturns, TimesOut, wireVars, Case_
<1>3. /\ UNCHANGED <<nextId, answeredBy, queued, waiters, calls, received, fatalError>>
      /\ DOMAIN response' = H!Ids /\ pendingResponses' \subseteq H!Ids
  <2>1. CASE WriteReturns
    <3>1. UNCHANGED <<nextId, pendingResponses, response, answeredBy, queued, waiters, calls,
                      received, fatalError>>
      BY <2>1 DEF WriteReturns, H!SendReturns, H!expectVars
    <3> QED BY <1>1, <3>1 DEF HarnessShapes
  <2>2. CASE TimesOut
    <3>1. Head(todo).op # "got"
      <4>1. Head(todo).op \in {"await", "mark"} \/ OpeningCall(Head(todo), s)
              \/ IsCallOf(Head(todo), "session/prompt")
        BY <1>1, OpeningNow
      <4> QED BY <4>1 DEF OpeningCall, IsCallOf
    <3>2. PICK id : H!RequestTimeout(id)
      BY <2>2, <3>1 DEF TimesOut
    <3>3. /\ pendingResponses' = pendingResponses \ {id}
          /\ response' = [response EXCEPT ![id] = "rejected"]
          /\ UNCHANGED <<nextId, answeredBy, queued, waiters, calls, received, fatalError>>
      BY <3>2 DEF H!RequestTimeout, H!Settle, H!expectVars
    <3> QED BY <1>1, <3>3 DEF HarnessShapes
  <2> QED BY <2>1, <2>2
<1>4. HarnessShapes'
  BY <1>1, <1>2, <1>3 DEF HarnessShapes
<1>5. AtCase(s)' /\ Pos(s)' = Pos(s) /\ IsSeq(todo')
  BY <1>1, <1>2 DEF AtCase, Pos
<1>6. \A k \in 1 .. Total' : IsOldReply(L(k)', nextId)
  <2>1. Total' = Total /\ \A k : L(k)' = L(k)
    BY <1>2 DEF Total, L
  <2> QED BY <1>1, <2>1
<1> QED BY <1>1, <1>2, <1>3, <1>4, <1>5, <1>6, StepInOpening

\* The agent answers a request that opens the session, or does not.
LEMMA AgentReadsInOpening ==
    ASSUME NEW s \in Scenarios, Opening(s), AgentReads
    PROVE  Opening(s)' /\ crashed' = crashed
<1>1. /\ AtCase(s) /\ Pos(s) \in 1 .. Place(s, 0) /\ AgentOpens(s) /\ HarnessShapes
      /\ \A i \in DOMAIN toAgent : IsOpeningLine(toAgent[i], s) /\ IsLine(toAgent[i])
      /\ \A k \in 1 .. Total : IsOldReply(L(k), nextId)
      /\ calls = <<>> /\ queued["events"] = <<>> /\ waiters["events"] = <<>>
      /\ IsSeq(toAgent) /\ IsSeq(log) /\ IsSeq(toHarness) /\ Total \in Nat /\ nextId \in Nat \ {0}
  BY OpeningFacts
<1>2. PICK l : l = Head(toAgent)
  OBVIOUS
<1>3. /\ toAgent # <<>> /\ Receive(l) /\ toAgent' = Tail(toAgent) /\ Emits
      /\ UNCHANGED <<harnessVars, log, mark, todo>>
  BY <1>2 DEF AgentReads, Case_
<1>4. /\ Len(toAgent) \in Nat \ {0} /\ DOMAIN toAgent = 1 .. Len(toAgent) /\ 1 \in DOMAIN toAgent
      /\ l = toAgent[1] /\ IsSeq(toAgent') /\ DOMAIN toAgent' = 1 .. Len(toAgent) - 1
      /\ \A i \in 1 .. Len(toAgent) - 1 : toAgent'[i] = toAgent[i + 1] /\ IsLine(toAgent'[i])
  BY <1>1, <1>2, <1>3, LinesMove
<1>5. IsOpeningLine(l, s)
  BY <1>1, <1>4
<1>6. HandleRequest(l)
  BY <1>3, <1>5 DEF Receive, IsOpeningLine
<1>7. \A i \in DOMAIN toAgent' : IsLine(toAgent'[i])
  BY <1>4
<1>8. AgentOpens(s)' /\ crashed' = crashed
  BY <1>1, <1>3, <1>4, <1>5, <1>6, <1>7, OpensStill
<1>9. version \in {0, VersionIn(s)}
  BY <1>1 DEF AgentOpens
<1>10. out' = <<>> \/ \E m : out' = <<m>> /\ Replied(m, l)
  BY <1>5, <1>6, <1>9, OpeningDoes
<1>11. UNCHANGED <<nextId, calls, queued, waiters>>
  BY <1>3 DEF harnessVars
<1>12. (\A i \in DOMAIN toAgent : IsOpeningLine(toAgent[i], s))'
  <2>1. ASSUME NEW i \in DOMAIN toAgent' PROVE IsOpeningLine(toAgent'[i], s)
    <3>1. PICK j : j = i + 1
      OBVIOUS
    <3>2. j \in DOMAIN toAgent /\ toAgent'[i] = toAgent[j]
      BY <1>4, <3>1
    <3> QED BY <1>1, <3>2
  <2> QED BY <1>11, <2>1 DEF IsOpeningLine
<1>13. HarnessShapes' /\ \A k \in 1 .. Total' : IsOldReply(L(k)', nextId)
  <2>1. CASE out' = <<>>
    <3>1. toHarness' = toHarness
      BY <1>1, <1>3, <2>1, EmitsNone
    <3>2. HarnessShapes'
      BY <1>1, <1>3, <3>1 DEF HarnessShapes, harnessVars
    <3>3. Total' = Total /\ \A k : L(k)' = L(k)
      BY <1>3, <3>1 DEF Total, L
    <3> QED BY <1>1, <3>2, <3>3
  <2>2. ASSUME NEW m, out' = <<m>>, Replied(m, l)
        PROVE  HarnessShapes' /\ \A k \in 1 .. Total' : IsOldReply(L(k)', nextId)
    <3>1. IsOldReply(m, nextId)
      BY <1>1, <1>5, <2>2 DEF Replied, IsOldReply, IsOpeningLine
    <3>2. /\ IsSeq(toHarness') /\ Total' = Total + 1
          /\ \A k \in 1 .. Total : L(k)' = L(k)
          /\ \A n : n = Total + 1 => L(n)' = m
      BY <1>1, <1>3, <2>2, EmitsOne
    <3>3. HarnessShapes'
      BY <1>1, <1>3, <3>2 DEF HarnessShapes, harnessVars
    <3>4. ASSUME NEW k \in 1 .. Total' PROVE IsOldReply(L(k)', nextId)
      <4>1. CASE k = Total + 1
        BY <3>1, <3>2, <4>1
      <4>2. CASE k # Total + 1
        <5>1. k \in 1 .. Total
          BY <1>1, <3>2, <4>2
        <5> QED BY <1>1, <3>2, <5>1
      <4> QED BY <4>1, <4>2
    <3> QED BY <3>3, <3>4
  <2> QED BY <1>10, <2>1, <2>2
<1>14. AtCase(s)' /\ Pos(s)' \in 1 .. Place(s, 0) /\ Place(s, 0)' = Place(s, 0)
  BY <1>1, <1>3 DEF AtCase, Pos, Place
<1> QED BY <1>1, <1>8, <1>11, <1>12, <1>13, <1>14 DEF Opening

\* While the session is opened, nobody else moves.
LEMMA NoOtherOpening ==
    ASSUME NEW s \in Scenarios, Opening(s)
    PROVE  /\ ~CaseExpects /\ ~CaseTells /\ ~Throws /\ ~CaseSettles
           /\ ~AgentGoesOn /\ ~AgentWakes
           /\ CaseRequests => \/ OpeningCall(Head(todo), s) /\ Pos(s) < Place(s, 0)
                              \/ IsCallOf(Head(todo), "session/prompt") /\ Pos(s) = Place(s, 0)
           /\ CaseGoesOn \/ CaseMarks => Pos(s) < Place(s, 0)
<1>1. /\ AtCase(s) /\ Pos(s) \in 1 .. Place(s, 0) /\ IsSeq(todo) /\ flows = <<>> /\ ~fatalError
  BY OpeningFacts
<1>2. /\ todo # <<>>
      /\ \/ Pos(s) < Place(s, 0) /\ OpeningCall(Head(todo), s)
         \/ Pos(s) < Place(s, 0) /\ Head(todo).op \in {"await", "mark"}
         \/ Pos(s) = Place(s, 0) /\ IsCallOf(Head(todo), "session/prompt")
  BY <1>1, OpeningNow
<1>3. /\ Head(todo).op \in {"call", "await", "mark"}
      /\ OpeningCall(Head(todo), s) => Head(todo).op = "call"
      /\ IsCallOf(Head(todo), "session/prompt") => Head(todo).op = "call"
  BY <1>2 DEF OpeningCall, IsCallOf
<1>4. ~CaseExpects /\ ~CaseTells
  BY <1>3 DEF CaseExpects, CaseTells, Now
<1>5. ~Throws /\ ~CaseSettles
  BY <1>1, <1>2 DEF Throws, CaseSettles
<1>6. ~AgentGoesOn /\ ~AgentWakes
  <2>1. DOMAIN flows = {}
    BY <1>1
  <2> QED BY <2>1 DEF AgentGoesOn, AgentWakes
<1>7. CaseRequests => Head(todo).op = "call"
  BY DEF CaseRequests, Now
<1>8. CaseGoesOn \/ CaseMarks => Head(todo).op # "call"
  BY DEF CaseGoesOn, CaseMarks, Awaits, Now
<1>9. ASSUME CaseRequests
      PROVE  \/ OpeningCall(Head(todo), s) /\ Pos(s) < Place(s, 0)
             \/ IsCallOf(Head(todo), "session/prompt") /\ Pos(s) = Place(s, 0)
  <2>1. Head(todo).op \notin {"await", "mark"}
    BY <1>7, <1>9
  <2> QED BY <1>2, <2>1
<1>10. ASSUME CaseGoesOn \/ CaseMarks PROVE Pos(s) < Place(s, 0)
  <2>1. ~OpeningCall(Head(todo), s) /\ ~IsCallOf(Head(todo), "session/prompt")
    BY <1>3, <1>8, <1>10
  <2> QED BY <1>2, <2>1
<1> QED BY <1>4, <1>5, <1>6, <1>9, <1>10

\* Every step keeps the invariant while the session is opened.
LEMMA OpeningStays ==
    ASSUME IInv, phase = "running", NEW s \in Scenarios, Opening(s), Next
    PROVE  IInv'
<1>1. /\ ~CaseExpects /\ ~CaseTells /\ ~Throws /\ ~CaseSettles
      /\ ~AgentGoesOn /\ ~AgentWakes
      /\ CaseRequests => \/ OpeningCall(Head(todo), s) /\ Pos(s) < Place(s, 0)
                         \/ IsCallOf(Head(todo), "session/prompt") /\ Pos(s) = Place(s, 0)
      /\ CaseGoesOn \/ CaseMarks => Pos(s) < Place(s, 0)
  BY NoOtherOpening
<1>2. ~RunnerStep
  BY NoRunner
<1>3. CASE CaseRequests
  <2>1. Opening(s)' \/ Prompting(s)'
    BY <1>1, <1>3, RequestsInOpening, PromptsInOpening
  <2> QED BY <1>3, <2>1, NoCrash, StepTo
<1>4. CASE CaseGoesOn \/ CaseMarks
  <2>1. Opening(s)'
    BY <1>1, <1>4, GoesOnInOpening
  <2> QED BY <1>4, <2>1, NoCrash, StepTo
<1>5. CASE CaseFails
  <2>1. ~crashed /\ at \in Nat \ {0}
    BY DEF IInv
  <2>2. pendingClientCalls = {}
    BY OpeningFacts
  <2> QED BY <1>5, <2>1, <2>2, EndsWell DEF CaseFails
<1>6. CASE AgentReads
  BY <1>6, AgentReadsInOpening, NoCrash, StepTo
<1>7. CASE HarnessReads
  BY <1>7, ReadsInOpening, NoCrash, StepTo
<1>8. CASE WriteReturns \/ TimesOut
  BY <1>8, SettlesInOpening, NoCrash, StepTo
<1> QED BY <1>1, <1>2, <1>3, <1>4, <1>5, <1>6, <1>7, <1>8
        DEF Next, CaseStep, WireStep, TimerStep

-----------------------------------------------------------------------------
(* A case is opened.                                                       *)

\* What a fresh connection and a fresh agent are like.
Fresh ==
    /\ nextId = 1 /\ pendingResponses = {}
    /\ DOMAIN response = H!Ids /\ DOMAIN answeredBy = H!Ids
    /\ DOMAIN queued = H!Boxes /\ DOMAIN waiters = H!Boxes
    /\ queued["events"] = <<>> /\ waiters["events"] = <<>> /\ waiters["responses"] = <<>>
    /\ calls = <<>> /\ received = 0 /\ ~fatalError
    /\ log = <<>> /\ mark = 0 /\ toAgent = <<>> /\ toHarness = <<>>
    /\ version = 0 /\ sessions = <<>> /\ flows = <<>>
    /\ pendingClientCalls = {} /\ nextAgentRequestId = 1

\* A case is opened on a fresh connection with a fresh agent.
LEMMA OpensFresh ==
    ASSUME OpenCase
    PROVE  /\ Fresh' /\ ~crashed' /\ at' = at
           /\ at <= Len(Suite) /\ todo' = Suite[at].script
<1>1. NewHarness /\ NewAgent /\ log' = <<>> /\ mark' = 0 /\ toAgent' = <<>> /\ toHarness' = <<>>
      /\ at' = at /\ at <= Len(Suite) /\ todo' = Suite[at].script
  BY DEF OpenCase
<1>2. DOMAIN queued' = H!Boxes /\ DOMAIN waiters' = H!Boxes
      /\ queued'["events"] = <<>> /\ waiters'["events"] = <<>> /\ waiters'["responses"] = <<>>
  BY <1>1 DEF NewHarness, H!Boxes
<1>3. DOMAIN response' = H!Ids /\ DOMAIN answeredBy' = H!Ids
      /\ nextId' = 1 /\ pendingResponses' = {} /\ calls' = <<>> /\ received' = 0 /\ ~fatalError'
  BY <1>1 DEF NewHarness
<1>4. /\ version' = 0 /\ sessions' = <<>> /\ flows' = <<>> /\ pendingClientCalls' = {}
      /\ nextAgentRequestId' = 1 /\ ~crashed'
  BY <1>1 DEF NewAgent
<1> QED BY <1>1, <1>2, <1>3, <1>4 DEF Fresh

\* The empty sequence.
LEMMA NoEntries == IsSeq(<<>>) /\ DOMAIN <<>> = {} /\ Len(<<>>) = 0
BY DEF IsSeq

\* A fresh connection, with a script that asks nothing.
LEMMA FreshIsHarmless ==
    ASSUME Fresh, PlainScript(todo)
    PROVE  Harmless
<1>1. /\ toAgent = <<>> /\ sessions = <<>> /\ flows = <<>> /\ pendingClientCalls = {}
  BY DEF Fresh
<1>2. IsSeq(toAgent) /\ IsSeq(sessions) /\ IsSeq(flows)
  BY <1>1, NoEntries
<1>3. DOMAIN toAgent = {} /\ DOMAIN sessions = {} /\ DOMAIN flows = {}
  BY <1>1, NoEntries
<1>4. IsSeq(todo) /\ SetsPlain
  BY <1>3 DEF PlainScript, PlainStep, SetsPlain
<1>5. Shapes
  BY <1>2, <1>3, <1>4 DEF Shapes
<1> QED BY <1>1, <1>3, <1>4, <1>5 DEF Harmless

\* A fresh connection, with a script in which the agent asks.
LEMMA FreshIsOpening ==
    ASSUME Fresh, NEW s \in Scenarios, todo = Script(s)
    PROVE  Opening(s)
<1>1. PICK t : t = Script(s)
  OBVIOUS
<1>2. IsSeq(t) /\ Len(t) \in Nat
  BY <1>1, ShapeOf DEF ScriptShape
<1>3. Len(todo) = Len(Script(s)) /\ Len(todo) \in Nat
  BY <1>1, <1>2
<1>4. Pos(s) = 1
  BY <1>3 DEF Pos
<1>5. t # <<>>
  <2>1. Len(t) >= Place(s, N(s) + 1) + IF s = "v1-permission-cancel" THEN 0 ELSE 1
    BY <1>1, ShapeOf DEF ScriptShape
  <2>2. N(s) \in 1 .. 11
    BY DEF N, Scenarios
  <2>3. Place(s, N(s) + 1) \in Nat /\ Place(s, 0) < Place(s, N(s) + 1) /\ Place(s, 0) \in Nat
    <3>1. PICK x, y : x = 0 /\ y = N(s) + 1
      OBVIOUS
    <3>2. x \in 0 .. N(s) + 1 /\ y \in 0 .. N(s) + 1 /\ x < y
      BY <2>2, <3>1
    <3>3. Place(s, x) < Place(s, y) /\ Place(s, y) \in Nat /\ Place(s, x) \in Nat
      BY <3>2, PlacesGrow, PlaceNat
    <3> QED BY <3>1, <3>3
  <2>4. Len(t) # 0
    BY <1>2, <2>1, <2>3
  <2> QED BY <2>4, NoEntries
<1>6. From(t, 1) = t
  BY <1>2, <1>5, FromFirst
<1>7. AtCase(s)
  BY <1>1, <1>4, <1>6 DEF AtCase
<1>8. Pos(s) \in 1 .. Place(s, 0)
  BY <1>4 DEF Place
<1>9. /\ toAgent = <<>> /\ sessions = <<>> /\ flows = <<>> /\ log = <<>> /\ toHarness = <<>>
      /\ calls = <<>> /\ queued["events"] = <<>> /\ waiters["events"] = <<>>
  BY DEF Fresh
<1>10. /\ IsSeq(toAgent) /\ IsSeq(sessions) /\ IsSeq(flows) /\ IsSeq(log) /\ IsSeq(toHarness)
       /\ DOMAIN toAgent = {} /\ DOMAIN sessions = {} /\ DOMAIN flows = {}
       /\ Len(log) = 0 /\ Len(toHarness) = 0 /\ IsSeq(calls)
  BY <1>9, NoEntries
<1>11. AgentOpens(s)
  <2>1. Shapes
    BY <1>1, <1>2, <1>10 DEF Shapes
  <2> QED BY <1>10, <2>1 DEF AgentOpens, Fresh
<1>12. HarnessShapes
  <2>1. nextId \in 1 .. RequestBound + 1
    BY BoundAssumption DEF Fresh
  <2> QED BY <1>10, <2>1 DEF HarnessShapes, Fresh
<1>13. \A k \in 1 .. Total : IsOldReply(L(k), nextId)
  <2>1. Total = 0
    BY <1>10 DEF Total
  <2> QED BY <2>1
<1>14. \A i \in DOMAIN toAgent : IsOpeningLine(toAgent[i], s)
  BY <1>10
<1> QED BY <1>7, <1>8, <1>9, <1>11, <1>12, <1>13, <1>14 DEF Opening

\* A fresh connection starts a case in either way.
PlainStart == Fresh /\ PlainScript(todo) => Harmless
AskingStart == \A s \in Scenarios : Fresh /\ todo = Script(s) => Opening(s)

\* Both ways of starting are covered.
LEMMA FreshStart == PlainStart /\ AskingStart
BY FreshIsHarmless, FreshIsOpening DEF PlainStart, AskingStart

\* Every step of the runner keeps the invariant.
LEMMA RunnerStays ==
    ASSUME IInv, RunnerStep
    PROVE  IInv'
<1>1. ~crashed /\ at \in Nat \ {0}
  BY DEF IInv
<1>2. CASE OpenCase
  <2>1. /\ Fresh' /\ ~crashed' /\ at' = at
        /\ at <= Len(Suite) /\ todo' = Suite[at].script
    BY <1>2, OpensFresh
  <2>2. PICK t : t = Suite[at].script
    OBVIOUS
  <2>3. PlainScript(t) \/ \E s \in Scenarios : t = Script(s)
    BY <1>1, <2>1, <2>2, ScriptsOfSuite
  <2>4. CASE PlainScript(t)
    <3>1. PlainScript(todo)'
      BY <2>1, <2>2, <2>4 DEF PlainScript, PlainStep, IsCallOf
    <3>2. PlainStart'
      BY FreshStart, PTL
    <3> QED BY <1>1, <2>1, <3>1, <3>2 DEF IInv, PlainStart
  <2>5. ASSUME NEW s \in Scenarios, t = Script(s) PROVE IInv'
    <3>1. AskingStart'
      BY FreshStart, PTL
    <3>2. todo' = Script(s)'
      BY <2>1, <2>2, <2>5 DEF Script
    <3>3. Opening(s)'
      BY <2>1, <3>1, <3>2 DEF AskingStart
    <3> QED BY <1>1, <2>1, <3>3 DEF IInv
  <2> QED BY <2>3, <2>4, <2>5
<1>3. CASE SkipCase
  <2>1. crashed' = crashed /\ at' = at + 1 /\ phase' # "running"
    BY <1>3 DEF SkipCase, agentVars
  <2> QED BY <1>1, <2>1 DEF IInv
<1>4. CASE WriteReport
  <2>1. crashed' = crashed /\ at' = at /\ phase' # "running"
    BY <1>4 DEF WriteReport, agentVars
  <2> QED BY <1>1, <2>1 DEF IInv
<1> QED BY <1>2, <1>3, <1>4 DEF RunnerStep

-----------------------------------------------------------------------------
(* The theorems.                                                           *)

\* A step that changes nothing.
LEMMA SameState ==
    ASSUME UNCHANGED vars
    PROVE  /\ Harmless => Harmless'
           /\ \A s \in Scenarios : /\ Opening(s) => Opening(s)'
                                   /\ Prompting(s) => Prompting(s)'
                                   /\ Turn(s) => Turn(s)'
<1>1. UNCHANGED <<faults, sessions, flows, pendingClientCalls, nextAgentRequestId, version,
                  nextId, pendingResponses, response, answeredBy, queued, waiters, calls,
                  received, fatalError, log, toHarness, toAgent, mark, todo>>
  BY DEF vars, agentVars, harnessVars, wireVars, caseVars
<1>2. Shapes => Shapes'
  BY <1>1 DEF Shapes
<1>3. Harmless => Harmless'
  BY <1>1, <1>2 DEF Harmless, NeverAsks, SetsPlain, NoPrompt
<1>4. ASSUME NEW s \in Scenarios PROVE AgentOpens(s) => AgentOpens(s)'
  BY <1>1, <1>2 DEF AgentOpens
<1>5. /\ Total' = Total /\ Latest' = Latest
      /\ \A k : L(k)' = L(k)
      /\ \A s : Pos(s)' = Pos(s) /\ (AtCase(s) => AtCase(s)')
      /\ \A l, s : IsOpeningLine(l, s) => IsOpeningLine(l, s)'
  BY <1>1 DEF Total, Latest, L, Pos, AtCase, IsOpeningLine
<1>6. HarnessShapes => HarnessShapes'
  BY <1>1 DEF HarnessShapes
<1>7. ASSUME NEW s \in Scenarios PROVE Opening(s) => Opening(s)'
  BY <1>1, <1>4, <1>5, <1>6 DEF Opening
<1>8. ASSUME NEW s \in Scenarios, NEW base PROVE HarnessGoes(s, base) => HarnessGoes(s, base)'
  <2>1. ScriptGoes(s) => ScriptGoes(s)'
    BY <1>1, <1>5 DEF ScriptGoes
  <2>2. BoxGoes(s, base) => BoxGoes(s, base)'
    BY <1>1, <1>5 DEF BoxGoes, ReadOf
  <2>3. ReplyGoes(s, base) => ReplyGoes(s, base)'
    BY <1>1, <1>5 DEF ReplyGoes
  <2>4. WireGoes(s, base) => WireGoes(s, base)'
    BY <1>1, <1>5 DEF WireGoes
  <2> QED BY <1>6, <2>1, <2>2, <2>3, <2>4 DEF HarnessGoes
<1>9. ASSUME NEW s \in Scenarios PROVE Prompting(s) => Prompting(s)'
  BY <1>1, <1>4, <1>5, <1>8 DEF Prompting
<1>10. ASSUME NEW s \in Scenarios, NEW e PROVE AgentGoes(s, e) => AgentGoes(s, e)'
  <2>1. TurnFlow(s, e) => TurnFlow(s, e)'
    <3>1. Code(s, e)' = Code(s, e)
      BY <1>1, CodeStays
    <3> QED BY <1>1, <1>5, <3>1 DEF TurnFlow
  <2>2. TurnAsks(s, e) => TurnAsks(s, e)'
    BY <1>1, <1>5 DEF TurnAsks, HasAnswered
  <2>3. TurnSession(s) => TurnSession(s)'
    BY <1>1 DEF TurnSession
  <2> QED BY <1>1, <1>2, <1>5, <2>1, <2>2, <2>3 DEF AgentGoes, HasAnswered
<1>11. ASSUME NEW s \in Scenarios, NEW e PROVE LinesGo(s, e) => LinesGo(s, e)'
  BY <1>1, <1>5 DEF LinesGo, HasAnswered
<1>12. ASSUME NEW s \in Scenarios PROVE Turn(s) => Turn(s)'
  BY <1>1, <1>5, <1>8, <1>10, <1>11 DEF Turn
<1> QED BY <1>3, <1>7, <1>9, <1>12

\* The invariant of the suite's run, for every choice of faults, drivers and
\* bounds: outside the four scenarios in which the agent asks no call of its
\* ever waits, and in those four the case and the agent go through the turn in
\* step, so that no case ends before each call is answered.
THEOREM SuiteInvariant == Spec => []IInv
<1>1. Init => IInv
  BY DEF Init, AgentInit, IInv
<1>2. ASSUME IInv, [Next]_vars PROVE IInv'
  <2>1. CASE Next
    <3>1. CASE phase = "running"
      <4>1. Harmless \/ \E s \in Scenarios : Opening(s) \/ Prompting(s) \/ Turn(s)
        BY <1>2, <3>1 DEF IInv
      <4>2. CASE Harmless
        BY <1>2, <2>1, <3>1, <4>2, HarmlessStays
      <4>3. ASSUME NEW s \in Scenarios, Opening(s) \/ Prompting(s) \/ Turn(s) PROVE IInv'
        BY <1>2, <2>1, <3>1, <4>3, OpeningStays, PromptStays, TurnStays
      <4> QED BY <4>1, <4>2, <4>3
    <3>2. CASE phase # "running"
      <4>1. RunnerStep
        BY <2>1, <3>2 DEF Next, CaseStep, WireStep, TimerStep, CaseRequests, CaseExpects, CaseTells,
            CaseMarks, CaseGoesOn, CaseFails, Throws, CaseSettles, AgentReads, AgentGoesOn,
            HarnessReads, WriteReturns, AgentWakes, TimesOut, Quiet, Awaits, Now, Running
      <4> QED BY <1>2, <4>1, RunnerStays
    <3> QED BY <3>1, <3>2
  <2>2. CASE UNCHANGED vars
    <3>1. crashed' = crashed /\ at' = at /\ phase' = phase
      BY <2>2 DEF vars, caseVars, agentVars
    <3>2. /\ Harmless => Harmless'
          /\ \A s \in Scenarios : /\ Opening(s) => Opening(s)'
                                  /\ Prompting(s) => Prompting(s)'
                                  /\ Turn(s) => Turn(s)'
      BY <2>2, SameState
    <3>3. ~crashed' /\ at' \in Nat \ {0}
      BY <1>2, <3>1 DEF IInv
    <3>4. CASE phase # "running"
      BY <3>1, <3>3, <3>4 DEF IInv
    <3>5. CASE phase = "running"
      <4>1. Harmless \/ \E s \in Scenarios : Opening(s) \/ Prompting(s) \/ Turn(s)
        BY <1>2, <3>5 DEF IInv
      <4>2. CASE Harmless
        BY <3>2, <3>3, <4>2 DEF IInv
      <4>3. ASSUME NEW s \in Scenarios, Opening(s) \/ Prompting(s) \/ Turn(s) PROVE IInv'
        <5>1. Opening(s)' \/ Prompting(s)' \/ Turn(s)'
          BY <3>2, <4>3
        <5> QED BY <1>2, <3>1, <5>1, StepTo
      <4> QED BY <4>1, <4>2, <4>3
    <3> QED BY <3>4, <3>5
  <2> QED BY <1>2, <2>1, <2>2
<1> QED BY <1>1, <1>2, PTL DEF Spec

\* reference-agent.ts:152: no case is closed while a call of a v2 prompt waits, so
\* close() rejects nothing that nobody handles, and the harness survives every
\* suite, with every set of faults, while timers outlast all else (Quiet).
THEOREM HarnessIsNeverKilled == Spec => []HarnessSurvives
<1>1. IInv => HarnessSurvives
  BY DEF IInv, HarnessSurvives
<1> QED BY <1>1, SuiteInvariant, PTL

===============================================================================
