------------------------- MODULE RtConnectionProofs -------------------------
(***************************************************************************)
(* Safety of RtConnection for every set of calls, every wire capacity and  *)
(* every choice of peers that may fail, be dropped or panic.               *)
(***************************************************************************)
EXTENDS RtConnection, SequenceTheorems, TLAPS

\* There are two peers, and each is the other of the other.
LEMMA OtherPeer ==
    ASSUME NEW p \in Peers
    PROVE  Other(p) \in Peers /\ Other(p) # p /\ Other(Other(p)) = p
BY PeersAssumption DEF Peers, Other

\* Every call and every notification is made by one of the peers.
LEMMA Owners ==
    /\ \A c \in Calls : Owner[c] \in Peers
    /\ \A n \in Notes : NoteOwner[n] \in Peers
BY CallsAssumption, NotesAssumption

\* A queue that a line is appended to, or taken from, is a queue of lines.
LEMMA QueueAppend ==
    ASSUME NEW f \in [Peers -> Seq(Line)], NEW p \in Peers, NEW x \in Line
    PROVE  [f EXCEPT ![p] = Append(@, x)] \in [Peers -> Seq(Line)]
<1>1. Append(f[p], x) \in Seq(Line)
  OBVIOUS
<1> QED BY <1>1

LEMMA QueueTail ==
    ASSUME NEW f \in [Peers -> Seq(Line)], NEW p \in Peers, f[p] # <<>>
    PROVE  /\ Head(f[p]) \in Line
           /\ [f EXCEPT ![p] = Tail(@)] \in [Peers -> Seq(Line)]
<1>1. Head(f[p]) \in Line /\ Tail(f[p]) \in Seq(Line)
  OBVIOUS
<1> QED BY <1>1

\* The variables start in their types.
LEMMA TypeInit == Init => TypeOK
BY OtherPeer, Owners DEF Init, TypeOK, NullId, NoReply, Outcomes

\* Every action keeps every variable in its type.
THEOREM TypeCorrect == Spec => []TypeOK
<1> USE OtherPeer, Owners DEF NullId, NoReply, ConnClosed, ParseError, Outcomes, Entries, Entry
<1>1. Init => TypeOK
  BY TypeInit
<1>2. TypeOK /\ [Next]_vars => TypeOK'
  <2> SUFFICES ASSUME TypeOK, [Next]_vars PROVE TypeOK'
    OBVIOUS
  <2> USE DEF TypeOK, peerVars, callVars, taskVars
  <2>1. ASSUME NEW c \in Calls, Allocate(c) PROVE TypeOK'
    <3>1. /\ next_id' = [next_id EXCEPT ![Owner[c]] = next_id[Owner[c]] + 1]
          /\ id' = [id EXCEPT ![c] = next_id[Owner[c]]]
          /\ pc' = [pc EXCEPT ![c] = "allocated"]
      BY <2>1 DEF Allocate, NextId
    <3>2. /\ next_id' \in [Peers -> Nat] /\ id' \in [Calls -> Nat]
          /\ pc' \in [Calls -> {"idle", "allocated", "registered", "awaiting", "returned",
                                "abandoned"}]
      BY <3>1
    <3> QED BY <2>1, <3>2 DEF Allocate
  <2>2. ASSUME NEW c \in Calls, Register(c) PROVE TypeOK'
    BY <2>2 DEF Register
  <2>3. ASSUME NEW c \in Calls, SendOk(c) PROVE TypeOK'
    <3>1. Request(id[c], c) \in Line
      BY DEF Request, Line
    <3>2. outgoing' \in [Peers -> Seq(Line)]
      BY <2>3, <3>1, QueueAppend DEF SendOk
    <3> QED BY <2>3, <3>2 DEF SendOk
  <2>4. ASSUME NEW c \in Calls, SendRefused(c) PROVE TypeOK'
    BY <2>4 DEF SendRefused, Forget
  <2>5. ASSUME NEW c \in Calls, Return(c) \/ Abandon(c) PROVE TypeOK'
    BY <2>5 DEF Return, Abandon
  <2>6. ASSUME NEW p \in Peers, Write(p) PROVE TypeOK'
    <3>1. outgoing[p] # <<>>
      BY <2>6 DEF Write
    <3> HIDE DEF TypeOK
    <3>2. /\ outgoing \in [Peers -> Seq(Line)] /\ wire \in [Peers -> Seq(Line)]
      BY DEF TypeOK
    <3>3. Head(outgoing[p]) \in Line /\ [outgoing EXCEPT ![p] = Tail(@)] \in [Peers -> Seq(Line)]
      BY <3>1, <3>2, QueueTail
    <3>4. [wire EXCEPT ![p] = Append(@, Head(outgoing[p]))] \in [Peers -> Seq(Line)]
      BY <3>2, <3>3, QueueAppend
    <3> USE DEF TypeOK
    <3>5. outgoing' \in [Peers -> Seq(Line)] /\ wire' \in [Peers -> Seq(Line)]
      BY <2>6, <3>3, <3>4 DEF Write, Received
    <3> QED BY <2>6, <3>5 DEF Write
  <2>7. ASSUME NEW p \in Peers, ReadResponse(p) PROVE TypeOK'
    <3>1. Head(wire[Other(p)]) \in Line
      BY <2>7, QueueTail DEF ReadResponse, CanRead
    <3>2. Head(wire[Other(p)]).body \in Outcomes
      BY <2>7, <3>1 DEF ReadResponse, Line, Fragment
    <3>3. pending' \in [Peers -> SUBSET Entries] /\ reply' \in [Calls -> Outcomes]
      BY <2>7, <3>2 DEF ReadResponse, Complete
    <3>4. wire' \in [Peers -> Seq(Line)]
      BY <2>7, QueueTail DEF ReadResponse, CanRead
    <3> QED BY <2>7, <3>3, <3>4 DEF ReadResponse
  <2>8. ASSUME NEW p \in Peers, ReadRequest(p) PROVE TypeOK'
    <3>1. Head(wire[Other(p)]) \in Line
      BY <2>8, QueueTail DEF ReadRequest, CanRead
    <3>2. Head(wire[Other(p)]).body \in Calls /\ Head(wire[Other(p)]).id \in Nat
      BY <2>8, <3>1 DEF ReadRequest, Line, Fragment
    <3>3. tasks' \in [Peers -> SUBSET Entries]
      <4>1. Entry(Head(wire[Other(p)]).id, Head(wire[Other(p)]).body) \in Entries
        BY <3>2
      <4> QED BY <2>8, <4>1 DEF ReadRequest
    <3>4. runs' \in [Calls -> Nat]
      BY <2>8, <3>2 DEF ReadRequest, CanRead
    <3>5. wire' \in [Peers -> Seq(Line)]
      BY <2>8, QueueTail DEF ReadRequest, CanRead
    <3> QED BY <2>8, <3>3, <3>4, <3>5 DEF ReadRequest
  <2>9. ASSUME NEW p \in Peers, ReadNotification(p) PROVE TypeOK'
    <3>1. Head(wire[Other(p)]) \in Line
      BY <2>9, QueueTail DEF ReadNotification, CanRead
    <3>2. Head(wire[Other(p)]).body \in Notes
      BY <2>9, <3>1 DEF ReadNotification, Line, Fragment
    <3>3. wire' \in [Peers -> Seq(Line)]
      BY <2>9, QueueTail DEF ReadNotification, CanRead
    <3>4. note' \in [Notes -> {"idle", "sent", "refused", "handling", "handled"}]
      BY <2>9, <3>2 DEF ReadNotification
    <3> QED BY <2>9, <3>3, <3>4 DEF ReadNotification
  <2>10. ASSUME NEW p \in Peers, ReadFragment(p) PROVE TypeOK'
    <3>1. Response(NullId, ParseError) \in Line
      BY DEF Response, Line
    <3>2. outgoing' \in [Peers -> Seq(Line)]
      <4>1. CASE outgoing' = [outgoing EXCEPT ![p] = Append(@, Response(NullId, ParseError))]
        BY <3>1, <4>1, QueueAppend
      <4>2. CASE outgoing' = outgoing
        BY <4>2
      <4> QED BY <2>10, <4>1, <4>2 DEF ReadFragment, Enqueue
    <3>3. wire' \in [Peers -> Seq(Line)]
      BY <2>10, QueueTail DEF ReadFragment, CanRead
    <3> QED BY <2>10, <3>2, <3>3 DEF ReadFragment
  <2>11. ASSUME NEW p \in Peers, NEW status \in {"stopped", "dropped"}, Hangup(p, status)
         PROVE  /\ driver' \in [Peers -> {"running", "stopped", "done", "dropped"}]
                /\ outgoing' \in [Peers -> Seq(Line)]
                /\ wire' \in [Peers -> Seq(Line)]
    <3>1. Fragment \in Line
      BY DEF Line
    <3>2. CASE wire' = [wire EXCEPT ![Other(p)] = <<>>]
      BY <2>11, <3>2 DEF Hangup
    <3>3. CASE wire' = [wire EXCEPT ![Other(p)] = <<>>, ![p] = Append(@, Fragment)]
      <4>1. Append(wire[p], Fragment) \in Seq(Line)
        BY <3>1
      <4>2. [wire EXCEPT ![Other(p)] = <<>>] \in [Peers -> Seq(Line)]
        OBVIOUS
      <4>3. wire' = [[wire EXCEPT ![Other(p)] = <<>>] EXCEPT ![p] = Append(wire[p], Fragment)]
        BY <3>3
      <4>4. wire' \in [Peers -> Seq(Line)]
        BY <4>1, <4>2, <4>3
      <4> QED BY <2>11, <4>4 DEF Hangup
    <3> QED BY <2>11, <3>2, <3>3 DEF Hangup
  <2>12. ASSUME NEW p \in Peers, ReadEof(p) \/ WriteError(p) \/ ReadError(p) \/ DropDriver(p)
         PROVE TypeOK'
    BY <2>11, <2>12 DEF ReadEof, WriteError, ReadError, DropDriver
  <2>13. ASSUME NEW p \in Peers, Drain(p) PROVE TypeOK'
    BY <2>13 DEF Drain
  <2>14. ASSUME NEW p \in Peers, Finish(p) PROVE TypeOK'
    <3> PICK t \in tasks[p] : /\ tasks' = [tasks EXCEPT ![p] = @ \ {t}]
                              /\ answered' = answered \cup {t.call}
                              /\ Enqueue(p, Response(t.id, t.call))
                              /\ UNCHANGED <<peerVars, wire, driver, callVars, runs, note, held>>
      BY <2>14 DEF Finish
    <3>1. Response(t.id, t.call) \in Line
      BY DEF Response, Line
    <3>2. outgoing' \in [Peers -> Seq(Line)]
      <4>1. CASE outgoing' = [outgoing EXCEPT ![p] = Append(@, Response(t.id, t.call))]
        BY <3>1, <4>1, QueueAppend
      <4>2. CASE outgoing' = outgoing
        BY <4>2
      <4> QED BY <4>1, <4>2 DEF Enqueue
    <3>3. answered' \in SUBSET Calls /\ tasks' \in [Peers -> SUBSET Entries]
      OBVIOUS
    <3>4. UNCHANGED <<next_id, pending, wire, driver, pc, id, reply, runs, note, held>>
      OBVIOUS
    <3> HIDE <2>14 DEF Entries, Entry, Outcomes, NullId
    <3> QED BY <3>2, <3>3, <3>4, Zenon
  <2>15. ASSUME NEW p \in Peers, Panic(p) PROVE TypeOK'
    <3>1. PICK t \in tasks[p] : tasks' = [tasks EXCEPT ![p] = @ \ {t}]
      BY <2>15 DEF Panic
    <3>2. tasks' \in [Peers -> SUBSET Entries]
      BY <3>1
    <3>3. UNCHANGED <<next_id, pending, outgoing, wire, driver, pc, id, reply, runs, answered,
                      note, held>>
      BY <2>15 DEF Panic
    <3> HIDE <2>15 DEF Entries, Entry, Outcomes, NullId
    <3> QED BY <3>2, <3>3, Zenon
  <2>16. ASSUME NEW p \in Peers, DropHandle(p) PROVE TypeOK'
    BY <2>16 DEF DropHandle
  <2>17. ASSUME NEW n \in Notes, Notify(n) PROVE TypeOK'
    <3>1. Notification(n) \in Line
      BY DEF Notification, Line
    <3>2. UNCHANGED <<peerVars, wire, driver, callVars, taskVars, held>>
      BY <2>17 DEF Notify
    <3>3. CASE ChannelOpen(NoteOwner[n])
      <4>1. /\ note' = [note EXCEPT ![n] = "sent"]
            /\ outgoing' = [outgoing EXCEPT ![NoteOwner[n]] = Append(@, Notification(n))]
        BY <2>17, <3>3 DEF Notify
      <4>2. outgoing' \in [Peers -> Seq(Line)]
        BY <3>1, <4>1, QueueAppend
      <4>3. note' \in [Notes -> {"idle", "sent", "refused", "handling", "handled"}]
        BY <4>1
      <4> QED BY <3>2, <4>2, <4>3
    <3>4. CASE ~ChannelOpen(NoteOwner[n])
      <4>1. note' = [note EXCEPT ![n] = "refused"] /\ UNCHANGED outgoing
        BY <2>17, <3>4 DEF Notify
      <4> QED BY <3>2, <4>1
    <3> QED BY <3>3, <3>4
  <2>18. ASSUME NEW n \in Notes, NoteHandled(n) PROVE TypeOK'
    BY <2>18 DEF NoteHandled
  <2>19. CASE UNCHANGED vars
    BY <2>19 DEF vars
  <2> QED
    BY <2>1, <2>2, <2>3, <2>4, <2>5, <2>6, <2>7, <2>8, <2>9, <2>10, <2>12, <2>13,
       <2>14, <2>15, <2>16, <2>17, <2>18, <2>19 DEF Next, CallStep, DriverStep
<1> QED BY <1>1, <1>2, PTL DEF Spec

-----------------------------------------------------------------------------
(* The inductive invariant.                                                *)

\* What p has handed to its channel and the other side has not read yet, in
\* the order in which it will be read.
Transit(p) == wire[p] \o outgoing[p]

\* The request() futures that are past their send.
PastSend == {"awaiting", "returned", "abandoned"}

\* Ids are handed out in increasing order, once.
IdInv ==
    /\ \A p \in Peers : next_id[p] >= 1
    /\ \A c \in Calls : pc[c] # "idle" => 1 <= id[c] /\ id[c] < next_id[Owner[c]]
    /\ \A c, d \in Calls : /\ Owner[c] = Owner[d] /\ id[c] = id[d]
                           /\ pc[c] # "idle" /\ pc[d] # "idle"
                           => c = d

\* An entry of the table belongs to an unresolved call of that peer.
TableInv ==
    \A p \in Peers : \A e \in pending[p] :
        /\ Owner[e.call] = p
        /\ e.id = id[e.call]
        /\ reply[e.call] = NoReply
        /\ pc[e.call] \in {"registered", "awaiting", "abandoned"}

\* An unresolved call that may still wait has an entry in the table.
WaitInv ==
    \A c \in Calls :
        /\ pc[c] \in {"idle", "allocated"} => reply[c] = NoReply
        /\ pc[c] \in {"registered", "awaiting"} /\ reply[c] = NoReply =>
               Entry(id[c], c) \in pending[Owner[c]]

\* After its driver returned, a peer has no entry but those of calls whose
\* send is about to be refused; after it stopped, its channel is empty.
EndInv ==
    /\ NoPendingLeak
    /\ \A p \in Peers : driver[p] # "running" => outgoing[p] = <<>>

\* A result that was delivered is the one of the call's own execution, and a
\* call fails only after its driver ended.
ReplyInv ==
    \A c \in Calls :
        /\ reply[c] \in {NoReply, ConnClosed, c}
        /\ reply[c] = c => c \in answered
        /\ reply[c] = ConnClosed => driver[Owner[c]] # "running"

\* A handler was started at most once, and only for a call that was sent.
RunInv ==
    /\ \A c \in Calls : runs[c] \in {0, 1} /\ (runs[c] = 1 => pc[c] \in PastSend)
    /\ \A c \in answered : runs[c] = 1
    /\ \A p \in Peers : \A t \in tasks[p] :
           /\ Owner[t.call] = Other(p)
           /\ t.id = id[t.call]
           /\ runs[t.call] = 1
           /\ t.call \notin answered

\* Lines under way: a request is that of its sender's call and was not started
\* yet; a response answers, under its id, a call of the other side.
LineOK(p, line) ==
    /\ line.kind = "request" =>
           /\ Owner[line.body] = p
           /\ line.id = id[line.body]
           /\ runs[line.body] = 0
           /\ pc[line.body] \in PastSend
    /\ line.kind = "response" =>
           \/ line.id = NullId /\ line.body = ParseError
           \/ /\ line.body \in answered
              /\ Owner[line.body] = Other(p)
              /\ line.id = id[line.body]
    /\ line.kind = "notification" => NoteOwner[line.body] = p /\ note[line.body] = "sent"

\* No request and no notification is in a pipe twice.
Once(s) ==
    \A i, j \in 1..Len(s) :
        s[i] = s[j] /\ s[i].kind \in {"request", "notification"} => i = j

\* Every line under way is in order and, unless a response, there once.
TransitInv ==
    \A p \in Peers :
        /\ \A i \in 1..Len(Transit(p)) : LineOK(p, Transit(p)[i])
        /\ Once(Transit(p))

\* The inductive invariant.
IInv == IdInv /\ TableInv /\ WaitInv /\ EndInv /\ ReplyInv /\ RunInv /\ TransitInv

\* In a pipe, every answer of c comes after the notification n.
Precedes(s, n, c) ==
    \A j \in 1..Len(s) : s[j].kind = "response" /\ s[j].body = c =>
        \E i \in 1..(j - 1) : s[i] = Notification(n)

\* The notification n is in the pipe.
Present(s, n) == \E i \in 1..Len(s) : s[i] = Notification(n)

\* A notification that was accepted stands before the answer of the call whose
\* handler sent it, as long as that answer can still be read.
UpdateOK(n) ==
    LET q == NoteOwner[n]
        c == NoteParent[n]
    IN
    note[n] = "sent" /\ c # NoCall =>
        /\ reply[c] # c
        /\ driver[Other(q)] = "running" => Precedes(Transit(q), n, c)
        /\ driver[q] = "running" /\ driver[Other(q)] = "running" => Present(Transit(q), n)

\* UpdateOK for every notification; inductive together with IInv.
UpdateInv == \A n \in Notes : UpdateOK(n)

-----------------------------------------------------------------------------
(* A channel followed by a wire is one pipe: sending appends to it, writing  *)
(* leaves it alone, reading takes its head.                                  *)

\* send() appends to the pipe.
LEMMA ConcatAppend ==
    ASSUME NEW S, NEW s \in Seq(S), NEW t \in Seq(S), NEW x \in S
    PROVE  s \o Append(t, x) = Append(s \o t, x)
<1>1. s \o Append(t, x) \in Seq(S) /\ Append(s \o t, x) \in Seq(S)
  OBVIOUS
<1>2. Len(s \o Append(t, x)) = Len(Append(s \o t, x))
  OBVIOUS
<1>3. \A i \in 1..Len(s \o Append(t, x)) : (s \o Append(t, x))[i] = Append(s \o t, x)[i]
  OBVIOUS
<1> QED BY <1>1, <1>2, <1>3, SeqEqual

\* Moving a line from the channel to the wire leaves the pipe as it is.
LEMMA ConcatWrite ==
    ASSUME NEW S, NEW s \in Seq(S), NEW t \in Seq(S), t # <<>>
    PROVE  Append(s, Head(t)) \o Tail(t) = s \o t
<1>1. Append(s, Head(t)) \o Tail(t) \in Seq(S) /\ s \o t \in Seq(S)
  OBVIOUS
<1>2. Len(Append(s, Head(t)) \o Tail(t)) = Len(s \o t)
  OBVIOUS
<1>3. \A i \in 1..Len(s \o t) : (Append(s, Head(t)) \o Tail(t))[i] = (s \o t)[i]
  OBVIOUS
<1> QED BY <1>1, <1>2, <1>3, SeqEqual

\* ConcatAppend for pipes of lines.
LEMMA SendToPipe ==
    \A s, t \in Seq(Line) : \A x \in Line : s \o Append(t, x) = Append(s \o t, x)
BY ConcatAppend

\* Reading a line from the wire takes the head of the pipe.
LEMMA ConcatRead ==
    ASSUME NEW S, NEW s \in Seq(S), NEW t \in Seq(S), s # <<>>
    PROVE  /\ Tail(s) \o t = Tail(s \o t)
           /\ s \o t \in Seq(S)
           /\ s \o t # <<>>
           /\ Head(s \o t) = Head(s)
<1>1. Tail(s) \o t \in Seq(S) /\ s \o t \in Seq(S) /\ s \o t # <<>>
  OBVIOUS
<1>2. Len(Tail(s) \o t) = Len(Tail(s \o t)) /\ Tail(s \o t) \in Seq(S)
  BY <1>1
<1>3. \A i \in 1..Len(Tail(s) \o t) : (Tail(s) \o t)[i] = Tail(s \o t)[i]
  BY <1>1
<1> QED BY <1>1, <1>2, <1>3, SeqEqual

\* The elements of two sequences put together.
LEMMA ConcatElements ==
    ASSUME NEW S, NEW s \in Seq(S), NEW t \in Seq(S)
    PROVE  /\ s \o t \in Seq(S)
           /\ Len(s \o t) = Len(s) + Len(t)
           /\ \A i \in 1..Len(s) : i \in 1..Len(s \o t) /\ (s \o t)[i] = s[i]
           /\ \A i \in 1..Len(t) : i + Len(s) \in 1..Len(s \o t) /\ (s \o t)[i + Len(s)] = t[i]
           /\ s \o <<>> = s
           /\ <<>> \o s = s
BY ConcatEmptySeq

-----------------------------------------------------------------------------
(* What the steps leave alone.                                             *)

\* Only the caller's own steps move a call or touch the ids.
LEMMA DriverFrame ==
    ASSUME NEW p \in Peers, DriverStep(p)
    PROVE  UNCHANGED <<next_id, pc, id, answered>>
BY DEF DriverStep, Write, ReadResponse, ReadRequest, ReadNotification, ReadFragment,
       ReadEof, ReadError, WriteError, Drain, DropDriver, peerVars, callVars, taskVars

\* A handler that ends leaves the calls and the transport alone.
LEMMA HandlerFrame ==
    ASSUME NEW p \in Peers, Finish(p) \/ Panic(p) \/ DropHandle(p)
    PROVE  UNCHANGED <<next_id, pending, pc, id, reply, runs, wire, driver, note>>
BY DEF Finish, Panic, DropHandle, peerVars, callVars, taskVars

\* A notification touches no call, no table, no handler and no driver.
LEMMA NoteFrame ==
    ASSUME NEW n \in Notes, Notify(n) \/ NoteHandled(n)
    PROVE  UNCHANGED <<next_id, pending, pc, id, reply, tasks, runs, answered, wire, driver>>
BY DEF Notify, NoteHandled, peerVars, callVars, taskVars

\* After Allocate a call never is idle again, and no other step makes one so.
LEMMA IdleFrame ==
    ASSUME TypeOK, [Next]_vars, \A c \in Calls : ~Allocate(c)
    PROVE  /\ UNCHANGED <<next_id, id>>
           /\ \A c \in Calls : pc'[c] = "idle" <=> pc[c] = "idle"
<1>1. ASSUME NEW c \in Calls, CallStep(c)
      PROVE  UNCHANGED <<next_id, id>> /\ \A d \in Calls : pc'[d] = "idle" <=> pc[d] = "idle"
  BY <1>1 DEF TypeOK, CallStep, Register, SendOk, SendRefused, Return, Abandon, peerVars
<1>2. CASE UNCHANGED vars
  BY <1>2 DEF vars
<1> QED BY <1>1, <1>2, DriverFrame, HandlerFrame, NoteFrame DEF Next

\* IdInv is kept.
LEMMA IdStep ==
    ASSUME TypeOK, IdInv, [Next]_vars
    PROVE  IdInv'
<1>1. ASSUME NEW c \in Calls, Allocate(c) PROVE IdInv'
  <2>1. /\ Owner[c] \in Peers
        /\ pc[c] = "idle"
        /\ id' = [id EXCEPT ![c] = next_id[Owner[c]]]
        /\ next_id' = [next_id EXCEPT ![Owner[c]] = next_id[Owner[c]] + 1]
        /\ pc' = [pc EXCEPT ![c] = "allocated"]
    BY <1>1, Owners DEF Allocate, NextId
  <2>2. \A q \in Peers : next_id'[q] \in Nat /\ next_id'[q] >= next_id[q] /\ next_id'[q] >= 1
    BY <2>1 DEF TypeOK, IdInv
  <2>3. \A d \in Calls : d # c => id'[d] = id[d] /\ pc'[d] = pc[d]
    BY <2>1 DEF TypeOK
  <2>4. id'[c] = next_id[Owner[c]] /\ next_id'[Owner[c]] = next_id[Owner[c]] + 1
    BY <2>1 DEF TypeOK
  <2>5. ASSUME NEW d \in Calls, pc'[d] # "idle"
        PROVE  1 <= id'[d] /\ id'[d] < next_id'[Owner[d]]
    BY <2>1, <2>2, <2>3, <2>4, <2>5, Owners DEF TypeOK, IdInv
  <2>6. ASSUME NEW d \in Calls, NEW e \in Calls, d # e, Owner[d] = Owner[e], id'[d] = id'[e],
               pc'[d] # "idle", pc'[e] # "idle"
        PROVE  FALSE
    <3>1. CASE d # c /\ e # c
      BY <2>3, <2>6, <3>1 DEF IdInv
    <3>2. CASE d = c
      BY <2>1, <2>3, <2>4, <2>6, <3>2 DEF TypeOK, IdInv
    <3>3. CASE e = c
      BY <2>1, <2>3, <2>4, <2>6, <3>3 DEF TypeOK, IdInv
    <3> QED BY <3>1, <3>2, <3>3
  <2> QED BY <2>2, <2>5, <2>6 DEF IdInv
<1>2. CASE \A c \in Calls : ~Allocate(c)
  BY <1>2, IdleFrame DEF IdInv
<1> QED BY <1>1, <1>2

-----------------------------------------------------------------------------
(* The table of pending requests.                                          *)

\* Entries of a well-typed table.
LEMMA EntryType ==
    ASSUME TypeOK, NEW p \in Peers, NEW e \in pending[p]
    PROVE  e \in Entries /\ e.call \in Calls /\ e.id \in Nat
<1>1. e \in Entries
  BY DEF TypeOK
<1> QED BY <1>1 DEF Entries

\* An id names one call of a peer: an entry with the id of c is c's own.
LEMMA EntryOfId ==
    ASSUME TypeOK, IdInv, TableInv,
           NEW c \in Calls, pc[c] # "idle",
           NEW e \in pending[Owner[c]], e.id = id[c]
    PROVE  e.call = c /\ e = Entry(id[c], c)
<1>1. e \in Entries /\ Owner[c] \in Peers
  BY Owners DEF TypeOK
<1>2. e.call \in Calls /\ Owner[e.call] = Owner[c] /\ id[e.call] = id[c] /\ pc[e.call] # "idle"
  BY <1>1 DEF TableInv, Entries
<1>3. e.call = c
  BY <1>2 DEF IdInv
<1> QED BY <1>1, <1>3 DEF Entries, Entry

\* The line at the head of the wire is under way.
LEMMA HeadOK ==
    ASSUME TypeOK, TransitInv, NEW p \in Peers, CanRead(p)
    PROVE  /\ Head(wire[Other(p)]) \in Line
           /\ LineOK(Other(p), Head(wire[Other(p)]))
<1>1. /\ Other(p) \in Peers
      /\ wire[Other(p)] \in Seq(Line) /\ wire[Other(p)] # <<>>
      /\ outgoing[Other(p)] \in Seq(Line)
  BY OtherPeer DEF TypeOK, CanRead
<1>2. /\ Head(Transit(Other(p))) = Head(wire[Other(p)])
      /\ Transit(Other(p)) \in Seq(Line) /\ Transit(Other(p)) # <<>>
  BY <1>1, ConcatRead DEF Transit
<1>3. Head(Transit(Other(p))) = Transit(Other(p))[1] /\ 1 \in 1..Len(Transit(Other(p)))
  BY <1>2
<1>4. LineOK(Other(p), Transit(Other(p))[1])
  BY <1>1, <1>3 DEF TransitInv
<1> QED BY <1>1, <1>2, <1>3, <1>4

\* A response that matches an entry answers the call of that entry.
LEMMA MatchedResponse ==
    ASSUME TypeOK, IInv, NEW p \in Peers, CanRead(p),
           Head(wire[Other(p)]).kind = "response",
           NEW e \in pending[p], e.id = Head(wire[Other(p)]).id
    PROVE  Head(wire[Other(p)]).body = e.call /\ e.call \in answered
<1> DEFINE line == Head(wire[Other(p)])
<1>1. LineOK(Other(p), line) /\ Other(Other(p)) = p
  BY HeadOK, OtherPeer DEF IInv
<1>2. /\ e.call \in Calls
      /\ Owner[e.call] = p /\ e.id = id[e.call] /\ pc[e.call] # "idle"
  BY EntryType DEF IInv, TableInv
<1>3. line.id # NullId
  BY <1>2 DEF IInv, IdInv, NullId
<1>4. line.body \in answered /\ Owner[line.body] = p /\ line.id = id[line.body]
  BY <1>1, <1>3 DEF LineOK
<1>5. line.body \in Calls /\ pc[line.body] # "idle"
  BY <1>4 DEF TypeOK, IInv, RunInv, PastSend
<1>6. line.body = e.call
  BY <1>2, <1>4, <1>5 DEF IInv, IdInv
<1> QED BY <1>4, <1>6

\* The parts of the invariant about the table and the outcomes.
TablePart == TableInv /\ WaitInv /\ ReplyInv /\ EndInv

\* The invariants about the table, the waiting callers and their outcomes are
\* kept by the caller's steps.
LEMMA TableCallStep ==
    ASSUME TypeOK, IInv, NEW c \in Calls, CallStep(c)
    PROVE  TablePart'
<1> DEFINE p == Owner[c]
<1> USE DEF IInv, TablePart
<1>0. p \in Peers /\ NoReply # ConnClosed /\ c # NoReply /\ c # ConnClosed
  BY Owners, CallsAssumption DEF NoReply, ConnClosed
<1>1. CASE Allocate(c)
  <2>1. /\ pc[c] = "idle" /\ pc' = [pc EXCEPT ![c] = "allocated"]
        /\ id' = [id EXCEPT ![c] = next_id[p]]
        /\ UNCHANGED <<pending, outgoing, driver, reply, answered>>
    BY <1>1 DEF Allocate, taskVars
  <2>2. \A q \in Peers : \A e \in pending[q] : e.call \in Calls /\ e.call # c
    BY <2>1, EntryType DEF TableInv
  <2>3. TableInv'
    BY <2>1, <2>2 DEF TypeOK, TableInv
  <2>4. WaitInv'
    BY <2>1 DEF TypeOK, WaitInv
  <2>5. EndInv'
    BY <2>1, <2>2 DEF TypeOK, EndInv, NoPendingLeak
  <2>6. ReplyInv'
    BY <2>1 DEF ReplyInv
  <2> QED BY <2>3, <2>4, <2>5, <2>6
<1>2. CASE Register(c)
  <2>1. {e \in pending[p] : e.id = id[c]} = {}
    <3> SUFFICES ASSUME NEW e \in pending[p], e.id = id[c] PROVE FALSE
      OBVIOUS
    <3>1. e.call = c /\ pc[c] = "allocated"
      BY <1>2, EntryOfId DEF Register
    <3> QED BY <1>0, <3>1 DEF TableInv
  <2>2. /\ pc[c] = "allocated" /\ pc' = [pc EXCEPT ![c] = "registered"]
        /\ pending' = [pending EXCEPT ![p] = @ \cup {Entry(id[c], c)}]
        /\ UNCHANGED <<outgoing, driver, id, answered>>
    BY <1>2, <2>1 DEF Register, taskVars
  <2>3. reply' = reply
    BY <1>2, <2>1 DEF Register, TypeOK
  <2>4. Entry(id[c], c).call = c /\ Entry(id[c], c).id = id[c] /\ reply[c] = NoReply
    BY <2>2 DEF Entry, WaitInv
  <2>5. \A q \in Peers : \A e \in pending[q] : e.call \in Calls /\ e.call # c
    BY <2>2, EntryType DEF TableInv
  <2>6. TableInv'
    BY <1>0, <2>2, <2>3, <2>4, <2>5 DEF TypeOK, TableInv
  <2>7. WaitInv'
    BY <1>0, <2>2, <2>3, Owners DEF TypeOK, WaitInv
  <2>8. EndInv'
    BY <1>0, <2>2, <2>4, <2>5 DEF TypeOK, EndInv, NoPendingLeak
  <2>9. ReplyInv'
    BY <2>2, <2>3 DEF ReplyInv
  <2> QED BY <2>6, <2>7, <2>8, <2>9
<1>3. CASE SendOk(c)
  <2>1. /\ pc[c] = "registered" /\ pc' = [pc EXCEPT ![c] = "awaiting"]
        /\ driver[p] = "running"
        /\ outgoing' = [outgoing EXCEPT ![p] = Append(@, Request(id[c], c))]
        /\ UNCHANGED <<pending, driver, id, reply, answered>>
    BY <1>3 DEF SendOk, ChannelOpen, peerVars, taskVars
  <2>2. TableInv' /\ WaitInv' /\ ReplyInv'
    BY <2>1 DEF TypeOK, TableInv, WaitInv, ReplyInv, Entries
  <2>3. \A q \in Peers : \A e \in pending[q] : e.call = c => q = p
    BY DEF TableInv
  <2>4. NoPendingLeak'
    BY <2>1, <2>3 DEF TypeOK, EndInv, NoPendingLeak, Entries
  <2>5. EndInv'
    BY <2>1, <2>4 DEF TypeOK, EndInv
  <2> QED BY <2>2, <2>5
<1>4. CASE SendRefused(c)
  <2>1. /\ pc[c] = "registered" /\ pc' = [pc EXCEPT ![c] = "returned"]
        /\ driver[p] # "running"
        /\ pending' = [pending EXCEPT ![p] = {e \in pending[p] : e.id # id[c]}]
        /\ reply' = [reply EXCEPT ![c] = ConnClosed]
        /\ UNCHANGED <<outgoing, driver, id, answered>>
    BY <1>4 DEF SendRefused, Forget, ChannelOpen, taskVars
  <2>2. \A q \in Peers : \A e \in pending'[q] : e \in pending[q] /\ e.call # c
    BY <1>0, <2>1 DEF TypeOK, TableInv
  <2>3. TableInv'
    BY <2>1, <2>2 DEF TypeOK, TableInv, Entries
  <2>4. WaitInv'
    <3> SUFFICES ASSUME NEW d \in Calls PROVE
              /\ pc'[d] \in {"idle", "allocated"} => reply'[d] = NoReply
              /\ pc'[d] \in {"registered", "awaiting"} /\ reply'[d] = NoReply =>
                     Entry(id'[d], d) \in pending'[Owner[d]]
      BY DEF WaitInv
    <3>1. CASE d = c
      BY <2>1, <3>1 DEF TypeOK
    <3>2. CASE d # c
      <4>1. pc'[d] = pc[d] /\ reply'[d] = reply[d] /\ id'[d] = id[d]
        BY <2>1, <3>2 DEF TypeOK
      <4>2. ASSUME pc[d] \in {"registered", "awaiting"}, reply[d] = NoReply
            PROVE  Entry(id[d], d) \in pending'[Owner[d]]
        <5>1. Entry(id[d], d) \in pending[Owner[d]] /\ Entry(id[d], d).id = id[d]
          BY <4>2 DEF WaitInv, Entry
        <5>2. CASE Owner[d] = p
          <6>1. id[d] # id[c]
            BY <2>1, <3>2, <4>2, <5>2 DEF IdInv
          <6> QED BY <1>0, <2>1, <5>1, <5>2, <6>1 DEF TypeOK
        <5>3. CASE Owner[d] # p
          BY <2>1, <5>1, <5>3, Owners DEF TypeOK
        <5> QED BY <5>2, <5>3
      <4> QED BY <4>1, <4>2 DEF WaitInv
    <3> QED BY <3>1, <3>2
  <2>5. EndInv'
    BY <2>1, <2>2 DEF TypeOK, EndInv, NoPendingLeak, Entries
  <2>6. ReplyInv'
    BY <1>0, <2>1 DEF TypeOK, ReplyInv
  <2> QED BY <2>3, <2>4, <2>5, <2>6
<1>5. ASSUME Return(c) \/ Abandon(c),
             NEW ending \in {"returned", "abandoned"},
             pc[c] = "awaiting", pc' = [pc EXCEPT ![c] = ending],
             UNCHANGED <<pending, outgoing, driver, id, reply, answered>>,
             ending = "abandoned" \/ reply[c] # NoReply
      PROVE  TablePart'
  <2>1. TableInv'
    BY <1>5, EntryType DEF TypeOK, TableInv
  <2>2. WaitInv' /\ ReplyInv'
    BY <1>5 DEF TypeOK, WaitInv, ReplyInv
  <2>3. EndInv'
    BY <1>5, EntryType DEF TypeOK, EndInv, NoPendingLeak
  <2> QED BY <2>1, <2>2, <2>3
<1> QED
  BY <1>1, <1>2, <1>3, <1>4, <1>5 DEF CallStep, Return, Abandon, peerVars, taskVars

\* The ways a driver's loops end.
HangupStep(p) == ReadEof(p) \/ ReadError(p) \/ WriteError(p) \/ DropDriver(p)

\* However the loops end, the channel of p and the lines it had not read are
\* lost, and what it wrote is kept, perhaps with a torn line behind it.
LEMMA HangupFacts ==
    ASSUME TypeOK, NEW p \in Peers, HangupStep(p)
    PROVE  /\ driver[p] = "running"
           /\ \E status \in {"stopped", "dropped"} : driver' = [driver EXCEPT ![p] = status]
           /\ outgoing' = [outgoing EXCEPT ![p] = <<>>]
           /\ wire'[Other(p)] = <<>>
           /\ wire'[p] \in {wire[p], Append(wire[p], Fragment)}
           /\ UNCHANGED <<next_id, pending, pc, id, reply, tasks, runs, answered, note>>
<1>1. /\ driver[p] = "running"
      /\ Hangup(p, "stopped") \/ Hangup(p, "dropped")
      /\ UNCHANGED <<next_id, pending, pc, id, reply, tasks, runs, answered, note>>
  BY DEF HangupStep, ReadEof, ReadError, WriteError, DropDriver, peerVars, callVars, taskVars
<1>2. Other(p) \in Peers /\ Other(p) # p /\ wire \in [Peers -> Seq(Line)]
  BY OtherPeer DEF TypeOK
<1>3. ASSUME NEW status \in {"stopped", "dropped"}, Hangup(p, status)
      PROVE  /\ driver' = [driver EXCEPT ![p] = status]
             /\ outgoing' = [outgoing EXCEPT ![p] = <<>>]
             /\ wire'[Other(p)] = <<>>
             /\ wire'[p] \in {wire[p], Append(wire[p], Fragment)}
  <2>1. CASE wire' = [wire EXCEPT ![Other(p)] = <<>>]
    BY <1>2, <1>3, <2>1 DEF Hangup
  <2>2. CASE wire' = [wire EXCEPT ![Other(p)] = <<>>, ![p] = Append(@, Fragment)]
    BY <1>2, <1>3, <2>2 DEF Hangup
  <2> QED BY <1>3, <2>1, <2>2 DEF Hangup
<1> QED BY <1>1, <1>3

\* They are kept by the drivers: a response resolves the call of its entry,
\* and drain_pending resolves the calls that are left.
LEMMA TableDriverStep ==
    ASSUME TypeOK, IInv, NEW p \in Peers, DriverStep(p)
    PROVE  TablePart'
<1> USE DEF IInv, TablePart
<1>0. NoReply # ConnClosed /\ \A c \in Calls : c # NoReply /\ c # ConnClosed
  BY CallsAssumption DEF NoReply, ConnClosed
<1>1. CASE Write(p)
  <2>1. /\ driver[p] = "running" /\ UNCHANGED <<pending, driver, pc, id, reply, answered>>
        /\ outgoing' = [outgoing EXCEPT ![p] = Received(@)]
    BY <1>1 DEF Write, peerVars, callVars, taskVars
  <2>2. TableInv' /\ WaitInv' /\ ReplyInv' /\ NoPendingLeak'
    BY <2>1 DEF TableInv, WaitInv, ReplyInv, EndInv, NoPendingLeak
  <2> QED BY <2>1, <2>2 DEF TypeOK, EndInv
<1>2. CASE ReadResponse(p)
  <2> DEFINE line == Head(wire[Other(p)])
             matching == {e \in pending[p] : e.id = line.id}
  <2>1. /\ CanRead(p) /\ line.kind = "response"
        /\ pending' = [pending EXCEPT ![p] = @ \ matching]
        /\ reply' = [c \in Calls |->
                        IF \E e \in matching : e.call = c THEN line.body ELSE reply[c]]
        /\ UNCHANGED <<outgoing, driver, pc, id, answered>>
    BY <1>2 DEF ReadResponse, Complete, taskVars
  <2>2. \A e \in matching : line.body = e.call /\ e.call \in answered /\ e.call \in Calls
    BY <2>1, MatchedResponse, EntryType
  <2>3. \A c \in Calls : reply'[c] = reply[c] \/ (reply'[c] = c /\ c \in answered)
    BY <2>1, <2>2
  <2>4. \A q \in Peers : \A e \in pending'[q] : e \in pending[q] /\ e.call \in Calls
    BY <2>1, EntryType DEF TypeOK
  <2>5. \A q \in Peers : \A e \in pending'[q] : reply'[e.call] = reply[e.call]
    <3> SUFFICES ASSUME NEW q \in Peers, NEW e \in pending'[q],
                        NEW f \in matching, f.call = e.call
                 PROVE  FALSE
      BY <2>1, <2>4
    <3>1. q = p /\ e.id = f.id
      BY <2>4 DEF TableInv
    <3> QED BY <2>1, <3>1 DEF TypeOK
  <2>6. TableInv'
    BY <2>1, <2>4, <2>5 DEF TableInv
  <2>7. WaitInv'
    <3> SUFFICES ASSUME NEW c \in Calls PROVE
              /\ pc[c] \in {"idle", "allocated"} => reply'[c] = NoReply
              /\ pc[c] \in {"registered", "awaiting"} /\ reply'[c] = NoReply =>
                     Entry(id[c], c) \in pending'[Owner[c]]
      BY <2>1 DEF WaitInv
    <3>1. ASSUME pc[c] \in {"idle", "allocated"} PROVE reply'[c] = NoReply
      <4>1. \A e \in matching : e.call # c
        BY <3>1 DEF TableInv
      <4> QED BY <2>1, <3>1, <4>1 DEF WaitInv
    <3>2. ASSUME pc[c] \in {"registered", "awaiting"}, reply'[c] = NoReply
          PROVE  Entry(id[c], c) \in pending'[Owner[c]]
      <4>1. reply[c] = NoReply
        BY <1>0, <2>3, <3>2
      <4>2. Entry(id[c], c) \in pending[Owner[c]] /\ Entry(id[c], c).call = c
        BY <3>2, <4>1 DEF WaitInv, Entry
      <4>3. Entry(id[c], c) \notin matching
        BY <1>0, <2>1, <2>2, <3>2, <4>2
      <4> QED BY <2>1, <4>2, <4>3, Owners DEF TypeOK
    <3> QED BY <3>1, <3>2
  <2>8. EndInv'
    BY <2>1, <2>4 DEF EndInv, NoPendingLeak
  <2>9. ReplyInv'
    BY <1>0, <2>1, <2>3 DEF ReplyInv
  <2> QED BY <2>6, <2>7, <2>8, <2>9
<1>3. CASE ReadRequest(p) \/ ReadNotification(p)
  <2>1. UNCHANGED <<pending, outgoing, driver, pc, id, reply, answered>>
    BY <1>3 DEF ReadRequest, ReadNotification, peerVars, callVars, taskVars
  <2> QED BY <2>1 DEF TableInv, WaitInv, ReplyInv, EndInv, NoPendingLeak
<1>4. CASE ReadFragment(p)
  <2>1. /\ driver[p] = "running" /\ UNCHANGED <<pending, driver, pc, id, reply, answered>>
        /\ outgoing' = [outgoing EXCEPT ![p] = Append(@, Response(NullId, ParseError))]
    BY <1>4 DEF ReadFragment, CanRead, Enqueue, ChannelOpen, peerVars, callVars, taskVars
  <2>2. TableInv' /\ WaitInv' /\ ReplyInv' /\ NoPendingLeak'
    BY <2>1 DEF TableInv, WaitInv, ReplyInv, EndInv, NoPendingLeak
  <2> QED BY <2>1, <2>2 DEF TypeOK, EndInv
<1>5. CASE HangupStep(p)
  <2>1. PICK status \in {"stopped", "dropped"} :
            /\ driver[p] = "running" /\ driver' = [driver EXCEPT ![p] = status]
            /\ outgoing' = [outgoing EXCEPT ![p] = <<>>]
            /\ UNCHANGED <<pending, pc, id, reply, answered>>
    BY <1>5, HangupFacts
  <2>2. TableInv' /\ WaitInv'
    BY <2>1 DEF TableInv, WaitInv
  <2>3. ReplyInv'
    BY <2>1, Owners DEF TypeOK, ReplyInv
  <2>4. EndInv'
    BY <2>1 DEF TypeOK, EndInv, NoPendingLeak
  <2> QED BY <2>2, <2>3, <2>4
<1>6. CASE Drain(p)
  <2>1. /\ driver[p] = "stopped" /\ driver' = [driver EXCEPT ![p] = "done"]
        /\ pending' = [pending EXCEPT ![p] = {}]
        /\ reply' = [c \in Calls |->
                        IF \E e \in pending[p] : e.call = c THEN ConnClosed ELSE reply[c]]
        /\ UNCHANGED <<outgoing, pc, id, answered>>
    BY <1>6 DEF Drain, taskVars
  <2>2. \A q \in Peers : \A e \in pending'[q] : q # p /\ e \in pending[q] /\ e.call \in Calls
    BY <2>1, EntryType DEF TypeOK
  <2>3. \A q \in Peers : \A e \in pending'[q] : reply'[e.call] = reply[e.call]
    BY <2>1, <2>2 DEF TableInv
  <2>4. TableInv'
    BY <2>1, <2>2, <2>3 DEF TableInv
  <2>5. WaitInv'
    <3> SUFFICES ASSUME NEW c \in Calls PROVE
              /\ pc[c] \in {"idle", "allocated"} => reply'[c] = NoReply
              /\ pc[c] \in {"registered", "awaiting"} /\ reply'[c] = NoReply =>
                     Entry(id[c], c) \in pending'[Owner[c]]
      BY <2>1 DEF WaitInv
    <3>1. ASSUME pc[c] \in {"idle", "allocated"} PROVE reply'[c] = NoReply
      <4>1. \A e \in pending[p] : e.call # c
        BY <3>1 DEF TableInv
      <4> QED BY <2>1, <3>1, <4>1 DEF WaitInv
    <3>2. ASSUME pc[c] \in {"registered", "awaiting"}, reply'[c] = NoReply
          PROVE  Entry(id[c], c) \in pending'[Owner[c]]
      <4>1. reply[c] = NoReply /\ \A e \in pending[p] : e.call # c
        BY <1>0, <2>1, <3>2
      <4>2. Entry(id[c], c) \in pending[Owner[c]] /\ Entry(id[c], c).call = c
        BY <3>2, <4>1 DEF WaitInv, Entry
      <4>3. Owner[c] # p
        BY <4>1, <4>2
      <4> QED BY <2>1, <4>2, <4>3, Owners DEF TypeOK
    <3> QED BY <3>1, <3>2
  <2>6. EndInv'
    BY <2>1, <2>2 DEF TypeOK, EndInv, NoPendingLeak
  <2>7. ReplyInv'
    <3> SUFFICES ASSUME NEW c \in Calls PROVE
              /\ reply'[c] \in {NoReply, ConnClosed, c}
              /\ reply'[c] = c => c \in answered
              /\ reply'[c] = ConnClosed => driver'[Owner[c]] # "running"
      BY <2>1 DEF ReplyInv
    <3>1. (\E e \in pending[p] : e.call = c) => Owner[c] = p
      BY DEF TableInv
    <3> QED BY <1>0, <2>1, <3>1, Owners DEF TypeOK, ReplyInv
  <2> QED BY <2>4, <2>5, <2>6, <2>7
<1> QED BY <1>1, <1>2, <1>3, <1>4, <1>5, <1>6 DEF DriverStep, HangupStep

\* They are kept by the handlers, which only answer through an open channel.
LEMMA TableOtherStep ==
    ASSUME TypeOK, IInv, UNCHANGED <<pending, pc, id, reply, driver>>,
           answered \subseteq answered',
           \A p \in Peers : driver[p] # "running" => outgoing'[p] = outgoing[p]
    PROVE  TablePart'
BY DEF IInv, TablePart, TableInv, WaitInv, ReplyInv, EndInv, NoPendingLeak

-----------------------------------------------------------------------------
(* The lines under way.                                                    *)

\* Adding a request or a notification that is not under way yet.
LEMMA OnceAppend ==
    ASSUME NEW s \in Seq(Line), NEW l \in Line, Once(s),
           l.kind \in {"request", "notification"} => \A i \in 1..Len(s) : s[i] # l
    PROVE  Once(Append(s, l))
BY DEF Once

\* The request or notification at the head occurs nowhere behind it.
LEMMA OnceTail ==
    ASSUME NEW s \in Seq(Line), s # <<>>, Once(s)
    PROVE  /\ Once(Tail(s))
           /\ Head(s).kind \in {"request", "notification"} =>
                  \A i \in 1..Len(Tail(s)) : Tail(s)[i] # Head(s)
<1>1. Len(s) \in Nat \ {0} /\ Len(Tail(s)) = Len(s) - 1 /\ Head(s) = s[1]
  OBVIOUS
<1>2. \A i \in 1..Len(Tail(s)) : Tail(s)[i] = s[i + 1] /\ i + 1 \in 1..Len(s) /\ i + 1 # 1
  BY <1>1
<1>3. Once(Tail(s))
  BY <1>1, <1>2 DEF Once
<1>4. ASSUME Head(s).kind \in {"request", "notification"}, NEW i \in 1..Len(Tail(s))
      PROVE  Tail(s)[i] # Head(s)
  <2>1. 1 \in 1..Len(s)
    BY <1>1
  <2> QED BY <1>1, <1>2, <1>4, <2>1 DEF Once
<1> QED BY <1>3, <1>4

\* A part of a pipe has no duplicates if the pipe has none.
LEMMA OnceConcat ==
    ASSUME NEW s \in Seq(Line), NEW t \in Seq(Line), Once(s \o t)
    PROVE  Once(s) /\ Once(t)
<1>1. \A i \in 1..Len(s) : (s \o t)[i] = s[i] /\ i \in 1..Len(s \o t)
  OBVIOUS
<1>2. \A i \in 1..Len(t) : (s \o t)[i + Len(s)] = t[i] /\ i + Len(s) \in 1..Len(s \o t)
  OBVIOUS
<1>3. Once(s)
  BY <1>1 DEF Once
<1>4. Once(t)
  <2> SUFFICES ASSUME NEW i \in 1..Len(t), NEW j \in 1..Len(t),
                      t[i] = t[j], t[i].kind \in {"request", "notification"}
               PROVE  i = j
    BY DEF Once
  <2>1. i + Len(s) = j + Len(s)
    BY <1>2 DEF Once
  <2> QED BY <2>1
<1> QED BY <1>3, <1>4

\* A pipe is a sequence of lines.
LEMMA TransitType ==
    ASSUME TypeOK, NEW p \in Peers
    PROVE  /\ Transit(p) \in Seq(Line)
           /\ wire[p] \in Seq(Line) /\ outgoing[p] \in Seq(Line)
BY DEF TypeOK, Transit

\* Calls only move forward.
LEMMA Forward ==
    ASSUME TypeOK, [Next]_vars
    PROVE  /\ \A c \in Calls : pc[c] \in PastSend => pc'[c] \in PastSend /\ id'[c] = id[c]
           /\ answered \subseteq answered'
<1>1. ASSUME NEW c \in Calls, CallStep(c)
      PROVE  /\ \A d \in Calls : pc[d] \in PastSend => pc'[d] \in PastSend /\ id'[d] = id[d]
             /\ answered' = answered
  BY <1>1 DEF TypeOK, PastSend, CallStep, Allocate, Register, SendOk, SendRefused, Return,
              Abandon, peerVars, taskVars
<1>2. CASE UNCHANGED vars
  BY <1>2 DEF vars
<1>3. ASSUME NEW p \in Peers, Finish(p) PROVE answered \subseteq answered'
  BY <1>3 DEF Finish
<1>4. ASSUME NEW p \in Peers, Panic(p) \/ DropHandle(p) PROVE answered' = answered
  BY <1>4 DEF Panic, DropHandle, taskVars
<1> QED BY <1>1, <1>2, <1>3, <1>4, DriverFrame, HandlerFrame, NoteFrame DEF Next

\* A line stays in order while its request is not started and its
\* notification not handed to its handler.
LEMMA LineKept ==
    ASSUME TypeOK, RunInv, [Next]_vars, NEW q \in Peers, NEW l \in Line, LineOK(q, l),
           l.kind = "request" => runs'[l.body] = 0,
           l.kind = "notification" => note'[l.body] = "sent"
    PROVE  LineOK(q, l)'
<1>1. CASE l.kind = "request"
  <2>1. l.body \in Calls
    BY <1>1 DEF Line, Fragment
  <2> QED BY <1>1, <2>1, Forward DEF LineOK
<1>2. CASE l.kind = "response"
  <2>1. l.body \in answered => /\ l.body \in Calls /\ l.body \in answered'
                               /\ id'[l.body] = id[l.body]
    BY Forward DEF TypeOK, RunInv
  <2> QED BY <1>2, <2>1 DEF LineOK
<1>3. CASE l.kind = "notification"
  BY <1>3 DEF LineOK
<1> QED BY <1>1, <1>2, <1>3 DEF LineOK

\* Every line of the next pipe is in order if it is new and in order, or was
\* under way already and its request or notification was not read by this step.
LEMMA LinesKept ==
    ASSUME TypeOK, RunInv, TransitInv, [Next]_vars, NEW q \in Peers,
           NEW x \in Line, LineOK(q, x)',
           \A i \in 1..Len(Transit(q)') :
               \/ Transit(q)'[i] = x
               \/ \E j \in 1..Len(Transit(q)) :
                      /\ Transit(q)'[i] = Transit(q)[j]
                      /\ Transit(q)[j].kind = "request" => runs'[Transit(q)[j].body] = 0
                      /\ Transit(q)[j].kind = "notification" =>
                             note'[Transit(q)[j].body] = "sent"
    PROVE  \A i \in 1..Len(Transit(q)') : LineOK(q, Transit(q)[i])'
<1>1. Transit(q) \in Seq(Line) /\ \A j \in 1..Len(Transit(q)) : LineOK(q, Transit(q)[j])
  BY TransitType DEF TransitInv
<1>2. ASSUME NEW j \in 1..Len(Transit(q)), NEW l \in Line, l = Transit(q)[j],
             l.kind = "request" => runs'[l.body] = 0,
             l.kind = "notification" => note'[l.body] = "sent"
      PROVE  LineOK(q, l)'
  BY <1>1, <1>2, LineKept
<1>3. \A j \in 1..Len(Transit(q)) : \A l \in Line :
          /\ l = Transit(q)[j]
          /\ l.kind = "request" => runs'[l.body] = 0
          /\ l.kind = "notification" => note'[l.body] = "sent"
          => LineOK(q, l)'
  BY <1>2
<1>4. ASSUME NEW i \in 1..Len(Transit(q)') PROVE LineOK(q, Transit(q)[i])'
  <2>1. CASE Transit(q)'[i] = x
    BY <2>1 DEF LineOK
  <2>2. CASE \E j \in 1..Len(Transit(q)) :
                 /\ Transit(q)'[i] = Transit(q)[j]
                 /\ Transit(q)[j].kind = "request" => runs'[Transit(q)[j].body] = 0
                 /\ Transit(q)[j].kind = "notification" => note'[Transit(q)[j].body] = "sent"
    <3>1. PICK j \in 1..Len(Transit(q)) :
                 /\ Transit(q)'[i] = Transit(q)[j]
                 /\ Transit(q)[j].kind = "request" => runs'[Transit(q)[j].body] = 0
                 /\ Transit(q)[j].kind = "notification" => note'[Transit(q)[j].body] = "sent"
      BY <2>2
    <3>2. Transit(q)[j] \in Line
      BY <1>1
    <3>3. PICK l \in Line : l = Transit(q)[j]
      BY <3>2
    <3>4. LineOK(q, l)' /\ l = Transit(q)'[i]
      BY <1>3, <3>1, <3>3
    <3> QED BY <3>4 DEF LineOK
  <2> QED BY <1>4, <2>1, <2>2
<1> QED BY <1>4

\* What the pipe lemmas need of a torn line.
FragmentOK == Fragment \in Line /\ \A q \in Peers : LineOK(q, Fragment)

\* A torn line is in order in every pipe.
LEMMA FragmentIsOK == FragmentOK /\ FragmentOK'
BY DEF FragmentOK, Line, LineOK, Fragment

\* A pipe that does not change.
LEMMA PipeSame ==
    ASSUME TypeOK, RunInv, TransitInv, [Next]_vars, NEW q \in Peers,
           Transit(q)' = Transit(q),
           \A c \in Calls : Owner[c] = q => runs'[c] = runs[c],
           \A n \in Notes : NoteOwner[n] = q /\ note[n] = "sent" => note'[n] = "sent"
    PROVE  /\ \A i \in 1..Len(Transit(q)') : LineOK(q, Transit(q)[i])'
           /\ Once(Transit(q)')
<1>1. \A i \in 1..Len(Transit(q)) :
          /\ Transit(q)[i] \in Line
          /\ LineOK(q, Transit(q)[i])
  BY TransitType DEF TransitInv
<1>2. \A l \in Line : /\ l.kind = "request" => l.body \in Calls
                      /\ l.kind = "notification" => l.body \in Notes
  BY DEF Line, Fragment
<1>3. \A i \in 1..Len(Transit(q)) :
          /\ Transit(q)[i].kind = "request" => runs'[Transit(q)[i].body] = 0
          /\ Transit(q)[i].kind = "notification" => note'[Transit(q)[i].body] = "sent"
  BY <1>1, <1>2 DEF LineOK
<1>4. \A i \in 1..Len(Transit(q)') : LineOK(q, Transit(q)[i])'
  BY <1>3, LinesKept, FragmentIsOK DEF FragmentOK
<1> QED BY <1>4 DEF TransitInv

\* A pipe that takes a new line.
LEMMA PipeAppend ==
    ASSUME TypeOK, RunInv, TransitInv, [Next]_vars, NEW q \in Peers,
           NEW x \in Line, LineOK(q, x)',
           Transit(q)' = Append(Transit(q), x),
           x.kind \in {"request", "notification"} =>
               \A i \in 1..Len(Transit(q)) : Transit(q)[i] # x,
           UNCHANGED runs,
           \A n \in Notes : note[n] = "sent" => note'[n] = "sent"
    PROVE  /\ \A i \in 1..Len(Transit(q)') : LineOK(q, Transit(q)[i])'
           /\ Once(Transit(q)')
<1>1. /\ Transit(q) \in Seq(Line) /\ Once(Transit(q))
      /\ \A i \in 1..Len(Transit(q)) : LineOK(q, Transit(q)[i])
  BY TransitType DEF TransitInv
<1>2. \A l \in Line : /\ l.kind = "request" => l.body \in Calls
                      /\ l.kind = "notification" => l.body \in Notes
  BY DEF Line, Fragment
<1>3. \A i \in 1..Len(Transit(q)) :
          /\ Transit(q)[i].kind = "request" => runs'[Transit(q)[i].body] = 0
          /\ Transit(q)[i].kind = "notification" => note'[Transit(q)[i].body] = "sent"
  BY <1>1, <1>2 DEF LineOK
<1>4. \A i \in 1..Len(Transit(q)') :
          Transit(q)'[i] = x \/ \E j \in 1..Len(Transit(q)) : j = i /\ Transit(q)'[i] = Transit(q)[j]
  BY <1>1
<1>5. \A i \in 1..Len(Transit(q)') : LineOK(q, Transit(q)[i])'
  BY <1>3, <1>4, LinesKept
<1> QED BY <1>1, <1>5, OnceAppend

\* A pipe whose head is read.
LEMMA PipeTail ==
    ASSUME TypeOK, RunInv, TransitInv, [Next]_vars, NEW q \in Peers,
           Transit(q) # <<>>, Transit(q)' = Tail(Transit(q)),
           NEW h, h = Head(Transit(q)),
           \A c \in Calls : h # Request(id[c], c) => runs'[c] = runs[c],
           \A n \in Notes : h # Notification(n) /\ note[n] = "sent" => note'[n] = "sent"
    PROVE  /\ \A i \in 1..Len(Transit(q)') : LineOK(q, Transit(q)[i])'
           /\ Once(Transit(q)')
<1>1. /\ Transit(q) \in Seq(Line) /\ Once(Transit(q))
      /\ \A i \in 1..Len(Transit(q)) : LineOK(q, Transit(q)[i])
  BY TransitType DEF TransitInv
<1>2. /\ Once(Tail(Transit(q)))
      /\ h.kind \in {"request", "notification"} =>
             \A i \in 1..Len(Tail(Transit(q))) : Tail(Transit(q))[i] # h
  BY <1>1, OnceTail
<1>3. ASSUME NEW i \in 1..Len(Tail(Transit(q)))
      PROVE  /\ i + 1 \in 1..Len(Transit(q))
             /\ Tail(Transit(q))[i] = Transit(q)[i + 1]
             /\ Transit(q)[i + 1].kind = "request" => runs'[Transit(q)[i + 1].body] = 0
             /\ Transit(q)[i + 1].kind = "notification" =>
                    note'[Transit(q)[i + 1].body] = "sent"
  <2>1. /\ i + 1 \in 1..Len(Transit(q))
        /\ Tail(Transit(q))[i] = Transit(q)[i + 1]
        /\ Transit(q)[i + 1] \in Line
    BY <1>1, <1>3
  <2>2. PICK l \in Line : l = Transit(q)[i + 1]
    BY <2>1
  <2>3. LineOK(q, l)
    BY <1>1, <2>1, <2>2
  <2>4. ASSUME l.kind = "request" PROVE runs'[l.body] = 0
    <3>1. l.body \in Calls /\ l = Request(id[l.body], l.body)
      BY <2>3, <2>4 DEF Line, Fragment, LineOK, Request
    <3>2. l # h
      BY <1>2, <2>1, <2>2, <2>4
    <3> QED BY <2>3, <2>4, <3>1, <3>2 DEF LineOK
  <2>5. ASSUME l.kind = "notification" PROVE note'[l.body] = "sent"
    <3>1. l.body \in Notes /\ l = Notification(l.body)
      BY <2>5 DEF Line, Fragment, Notification
    <3>2. l # h
      BY <1>2, <2>1, <2>2, <2>5
    <3> QED BY <2>3, <2>5, <3>1, <3>2 DEF LineOK
  <2> QED BY <2>1, <2>2, <2>4, <2>5
<1>4. \A i \in 1..Len(Transit(q)') :
          \E j \in 1..Len(Transit(q)) :
              /\ Transit(q)'[i] = Transit(q)[j]
              /\ Transit(q)[j].kind = "request" => runs'[Transit(q)[j].body] = 0
              /\ Transit(q)[j].kind = "notification" =>
                     note'[Transit(q)[j].body] = "sent"
  BY <1>3
<1>5. \A i \in 1..Len(Transit(q)') : LineOK(q, Transit(q)[i])'
  BY <1>4, LinesKept, FragmentIsOK DEF FragmentOK
<1> QED BY <1>2, <1>5

\* A pipe of which the channel or the wire is lost, or that ends in a torn line.
LEMMA PipeCut ==
    ASSUME TypeOK, TypeOK', RunInv, TransitInv, [Next]_vars, NEW q \in Peers,
           UNCHANGED <<runs, note>>,
           \/ wire'[q] = <<>> /\ outgoing'[q] = outgoing[q]
           \/ wire'[q] = wire[q] /\ outgoing'[q] = <<>>
           \/ wire'[q] = Append(wire[q], Fragment) /\ outgoing'[q] = <<>>
    PROVE  /\ \A i \in 1..Len(Transit(q)') : LineOK(q, Transit(q)[i])'
           /\ Once(Transit(q)')
<1>1. /\ Transit(q) \in Seq(Line) /\ Once(Transit(q))
      /\ wire[q] \in Seq(Line) /\ outgoing[q] \in Seq(Line)
      /\ \A i \in 1..Len(Transit(q)) : LineOK(q, Transit(q)[i])
  BY TransitType DEF TransitInv
<1>2. Once(wire[q]) /\ Once(outgoing[q]) /\ Fragment \in Line
  BY <1>1, OnceConcat, FragmentIsOK DEF Transit, FragmentOK
<1>3. Once(Append(wire[q], Fragment))
  BY <1>1, <1>2, OnceAppend DEF Fragment
<1>4. Transit(q)' \in {outgoing[q], wire[q], Append(wire[q], Fragment)}
  <2>1. Transit(q)' = wire'[q] \o outgoing'[q]
    BY DEF Transit
  <2>2. CASE wire'[q] = <<>> /\ outgoing'[q] = outgoing[q]
    BY <1>1, <2>1, <2>2, ConcatEmptySeq
  <2>3. CASE wire'[q] = wire[q] /\ outgoing'[q] = <<>>
    BY <1>1, <2>1, <2>3, ConcatEmptySeq
  <2>4. CASE wire'[q] = Append(wire[q], Fragment) /\ outgoing'[q] = <<>>
    <3>1. Append(wire[q], Fragment) \in Seq(Line)
      BY <1>1, <1>2
    <3> QED BY <2>1, <2>4, <3>1, ConcatEmptySeq
  <2> QED BY <2>2, <2>3, <2>4
<1>5. \A i \in 1..Len(Transit(q)') :
          Transit(q)'[i] = Fragment \/ \E j \in 1..Len(Transit(q)) : Transit(q)'[i] = Transit(q)[j]
  <2> DEFINE w == wire[q]
             o == outgoing[q]
  <2>1. Transit(q) = w \o o
    BY DEF Transit
  <2>2. w \in Seq(Line) /\ o \in Seq(Line)
    BY <1>1
  <2> HIDE DEF w, o
  <2>3. /\ \A i \in 1..Len(w) : i \in 1..Len(w \o o) /\ (w \o o)[i] = w[i]
        /\ \A i \in 1..Len(o) : i + Len(w) \in 1..Len(w \o o) /\ (w \o o)[i + Len(w)] = o[i]
    BY <2>2, ConcatElements
  <2>4. \A i \in 1..Len(wire[q]) : i \in 1..Len(Transit(q)) /\ Transit(q)[i] = wire[q][i]
    BY <2>1, <2>3 DEF w
  <2>5. \A i \in 1..Len(outgoing[q]) : /\ i + Len(wire[q]) \in 1..Len(Transit(q))
                                      /\ Transit(q)[i + Len(wire[q])] = outgoing[q][i]
    BY <2>1, <2>3 DEF w, o
  <2>6. CASE Transit(q)' = outgoing[q]
    BY <2>5, <2>6
  <2>7. CASE Transit(q)' = wire[q]
    BY <2>4, <2>7
  <2>8. CASE Transit(q)' = Append(wire[q], Fragment)
    BY <1>1, <2>4, <2>8
  <2> QED BY <1>4, <2>6, <2>7, <2>8
<1>6. \A l \in Line : /\ l.kind = "request" => l.body \in Calls
                      /\ l.kind = "notification" => l.body \in Notes
  BY DEF Line, Fragment
<1>7. \A j \in 1..Len(Transit(q)) :
          /\ Transit(q)[j].kind = "request" => runs'[Transit(q)[j].body] = 0
          /\ Transit(q)[j].kind = "notification" => note'[Transit(q)[j].body] = "sent"
  BY <1>1, <1>6 DEF LineOK
<1>8. \A i \in 1..Len(Transit(q)') : LineOK(q, Transit(q)[i])'
  BY <1>5, <1>7, LinesKept, FragmentIsOK DEF FragmentOK
<1> QED BY <1>2, <1>3, <1>4, <1>8

-----------------------------------------------------------------------------
(* TransitInv and RunInv are kept by every step.                           *)

\* TransitInv for one pipe.
PipeOK(q) == /\ \A i \in 1..Len(Transit(q)) : LineOK(q, Transit(q)[i])
             /\ Once(Transit(q))

\* Reading the head of one pipe, as far as the pipes are concerned.
LEMMA ReadPipe ==
    ASSUME TypeOK, TypeOK', IInv, NEW p \in Peers, CanRead(p),
           wire' = [wire EXCEPT ![Other(p)] = Tail(@)]
    PROVE  /\ Transit(Other(p)) # <<>>
           /\ Head(Transit(Other(p))) = Head(wire[Other(p)])
           /\ outgoing'[Other(p)] = outgoing[Other(p)] =>
                  Transit(Other(p))' = Tail(Transit(Other(p)))
           /\ outgoing'[p] = outgoing[p] => Transit(p)' = Transit(p)
           /\ \A x \in Line : outgoing'[p] = Append(outgoing[p], x) =>
                  Transit(p)' = Append(Transit(p), x)
<1>1. Other(p) \in Peers /\ Other(p) # p
  BY OtherPeer
<1>2. /\ wire[p] \in Seq(Line) /\ outgoing[p] \in Seq(Line)
      /\ wire[Other(p)] \in Seq(Line) /\ outgoing[Other(p)] \in Seq(Line)
      /\ wire[Other(p)] # <<>>
  BY <1>1, TransitType DEF CanRead
<1>3. wire'[p] = wire[p] /\ wire'[Other(p)] = Tail(wire[Other(p)])
  BY <1>1 DEF TypeOK
<1>4. /\ Transit(Other(p)) # <<>> /\ Head(Transit(Other(p))) = Head(wire[Other(p)])
      /\ Tail(wire[Other(p)]) \o outgoing[Other(p)] = Tail(Transit(Other(p)))
  BY <1>2, ConcatRead DEF Transit
<1>5. ASSUME NEW x \in Line
      PROVE  wire[p] \o Append(outgoing[p], x) = Append(wire[p] \o outgoing[p], x)
  BY <1>2, SendToPipe
<1> QED BY <1>3, <1>4, <1>5 DEF Transit

\* A caller's step sends at most its own request, under the id it allocated.
LEMMA TransitCallStep ==
    ASSUME TypeOK, IInv, [Next]_vars, NEW c \in Calls, CallStep(c), NEW q \in Peers
    PROVE  PipeOK(q)'
<1> USE DEF IInv
<1>1. CASE SendOk(c) /\ Owner[c] = q
  <2>1. PICK x \in Line : x = Request(id[c], c)
    BY DEF TypeOK, Request, Line
  <2>2. /\ pc[c] = "registered" /\ pc'[c] = "awaiting"
        /\ Transit(q)' = wire[q] \o Append(outgoing[q], x)
        /\ UNCHANGED <<runs, note, id>>
    BY <1>1, <2>1 DEF SendOk, TypeOK, Transit, peerVars, taskVars
  <2>3. wire[q] \in Seq(Line) /\ outgoing[q] \in Seq(Line)
    BY TransitType
  <2>4. wire[q] \o Append(outgoing[q], x) = Append(wire[q] \o outgoing[q], x)
    BY <2>3, SendToPipe
  <2>5. Transit(q)' = Append(Transit(q), x)
    BY <2>2, <2>4 DEF Transit
  <2>6. \A i \in 1..Len(Transit(q)) : Transit(q)[i] # x
    BY <2>1, <2>2 DEF TransitInv, LineOK, Request, PastSend
  <2>7. runs[c] = 0
    BY <2>2 DEF RunInv, PastSend
  <2>8. LineOK(q, x)'
    BY <1>1, <2>1, <2>2, <2>7 DEF LineOK, Request, PastSend
  <2> QED BY <2>2, <2>5, <2>6, <2>8, PipeAppend DEF PipeOK
<1>2. CASE ~(SendOk(c) /\ Owner[c] = q)
  <2>1. /\ wire'[q] = wire[q] /\ outgoing'[q] = outgoing[q]
        /\ UNCHANGED <<runs, note>>
    BY <1>2, Owners DEF CallStep, Allocate, Register, SendOk, SendRefused, Return, Abandon,
                        TypeOK, peerVars, taskVars
  <2> QED BY <2>1, PipeSame DEF PipeOK, Transit
<1> QED BY <1>1, <1>2

\* A driver moves, reads or loses lines; the only line it sends answers a torn
\* one under the null id.
LEMMA TransitDriverStep ==
    ASSUME TypeOK, TypeOK', IInv, [Next]_vars, NEW p \in Peers, DriverStep(p), NEW q \in Peers
    PROVE  PipeOK(q)'
<1> USE DEF IInv
<1>0. /\ q = p \/ q = Other(p)
      /\ Other(p) \in Peers /\ Other(p) # p /\ Other(Other(p)) = p
  BY OtherPeer DEF Peers, Other
<1>1. CASE Write(p)
  <2>1. /\ outgoing[p] # <<>> /\ UNCHANGED <<runs, note>>
        /\ wire' = [wire EXCEPT ![p] = Append(@, Head(outgoing[p]))]
        /\ outgoing' = [outgoing EXCEPT ![p] = Tail(@)]
    BY <1>1 DEF Write, Received, taskVars
  <2>2. Append(wire[p], Head(outgoing[p])) \o Tail(outgoing[p]) = Transit(p)
    BY <2>1, TransitType, ConcatWrite DEF Transit
  <2>3. Transit(q)' = Transit(q)
    BY <1>0, <2>1, <2>2 DEF TypeOK, Transit
  <2> QED BY <2>1, <2>3, PipeSame DEF PipeOK
<1>2. CASE ReadResponse(p)
  <2>1. /\ CanRead(p) /\ wire' = [wire EXCEPT ![Other(p)] = Tail(@)]
        /\ UNCHANGED <<outgoing, runs, note>>
    BY <1>2 DEF ReadResponse, taskVars
  <2>2. /\ Transit(Other(p)) # <<>>
        /\ Transit(Other(p))' = Tail(Transit(Other(p)))
        /\ Transit(p)' = Transit(p)
    BY <2>1, ReadPipe
  <2>3. PipeOK(p)'
    BY <2>1, <2>2, PipeSame DEF PipeOK
  <2>4. PipeOK(Other(p))'
    BY <1>0, <2>1, <2>2, PipeTail DEF PipeOK
  <2> QED BY <1>0, <2>3, <2>4
<1>3. CASE ReadRequest(p)
  <2> DEFINE line == Head(wire[Other(p)])
  <2>1. /\ CanRead(p) /\ wire' = [wire EXCEPT ![Other(p)] = Tail(@)]
        /\ line.kind = "request"
        /\ runs' = [runs EXCEPT ![line.body] = @ + 1]
        /\ UNCHANGED <<outgoing, note>>
    BY <1>3 DEF ReadRequest, peerVars
  <2>2. /\ Transit(Other(p)) # <<>>
        /\ Head(Transit(Other(p))) = line
        /\ Transit(Other(p))' = Tail(Transit(Other(p)))
        /\ Transit(p)' = Transit(p)
    BY <2>1, ReadPipe
  <2>3. line \in Line /\ LineOK(Other(p), line)
    BY <2>1, HeadOK
  <2>4. line.body \in Calls /\ Owner[line.body] = Other(p) /\ line = Request(id[line.body], line.body)
    BY <2>1, <2>3 DEF Line, Fragment, LineOK, Request
  <2>5. \A c \in Calls : c # line.body => runs'[c] = runs[c]
    BY <2>1 DEF TypeOK
  <2>6. PipeOK(p)'
    BY <1>0, <2>1, <2>2, <2>4, <2>5, PipeSame DEF PipeOK
  <2>7. PipeOK(Other(p))'
    BY <1>0, <2>1, <2>2, <2>4, <2>5, PipeTail DEF PipeOK
  <2> QED BY <1>0, <2>6, <2>7
<1>4. CASE ReadNotification(p)
  <2> DEFINE line == Head(wire[Other(p)])
  <2>1. /\ CanRead(p) /\ wire' = [wire EXCEPT ![Other(p)] = Tail(@)]
        /\ line.kind = "notification"
        /\ note' = [note EXCEPT ![line.body] = "handling"]
        /\ UNCHANGED <<outgoing, runs>>
    BY <1>4 DEF ReadNotification, peerVars, taskVars
  <2>2. /\ Transit(Other(p)) # <<>>
        /\ Head(Transit(Other(p))) = line
        /\ Transit(Other(p))' = Tail(Transit(Other(p)))
        /\ Transit(p)' = Transit(p)
    BY <2>1, ReadPipe
  <2>3. line \in Line /\ LineOK(Other(p), line)
    BY <2>1, HeadOK
  <2>4. line.body \in Notes /\ NoteOwner[line.body] = Other(p) /\ line = Notification(line.body)
    BY <2>1, <2>3 DEF Line, Fragment, LineOK, Notification
  <2>5. \A n \in Notes : n # line.body => note'[n] = note[n]
    BY <2>1 DEF TypeOK
  <2>6. PipeOK(p)'
    BY <1>0, <2>1, <2>2, <2>4, <2>5, PipeSame DEF PipeOK
  <2>7. PipeOK(Other(p))'
    BY <1>0, <2>1, <2>2, <2>4, <2>5, PipeTail DEF PipeOK
  <2> QED BY <1>0, <2>6, <2>7
<1>5. CASE ReadFragment(p)
  <2>1. PICK x \in Line : x = Response(NullId, ParseError)
    BY DEF Response, Line, Outcomes, NullId
  <2>2. /\ CanRead(p) /\ wire' = [wire EXCEPT ![Other(p)] = Tail(@)]
        /\ outgoing' = [outgoing EXCEPT ![p] = Append(@, x)]
        /\ UNCHANGED <<runs, note>>
    BY <1>5, <2>1 DEF ReadFragment, CanRead, Enqueue, ChannelOpen, taskVars
  <2>3. outgoing'[p] = Append(outgoing[p], x) /\ outgoing'[Other(p)] = outgoing[Other(p)]
    BY <1>0, <2>2 DEF TypeOK
  <2>4. /\ Transit(Other(p)) # <<>>
        /\ Transit(Other(p))' = Tail(Transit(Other(p)))
        /\ Transit(p)' = Append(Transit(p), x)
    BY <2>2, <2>3, ReadPipe
  <2>5. LineOK(p, x)' /\ x.kind = "response"
    BY <2>1 DEF LineOK, Response
  <2>6. PipeOK(p)'
    BY <2>2, <2>4, <2>5, PipeAppend DEF PipeOK
  <2>7. PipeOK(Other(p))'
    BY <1>0, <2>2, <2>4, PipeTail DEF PipeOK
  <2> QED BY <1>0, <2>6, <2>7
<1>6. CASE HangupStep(p)
  <2>1. /\ outgoing' = [outgoing EXCEPT ![p] = <<>>]
        /\ wire'[Other(p)] = <<>>
        /\ wire'[p] \in {wire[p], Append(wire[p], Fragment)}
        /\ UNCHANGED <<runs, note>>
    BY <1>6, HangupFacts
  <2>2. outgoing'[p] = <<>> /\ outgoing'[Other(p)] = outgoing[Other(p)]
    BY <1>0, <2>1 DEF TypeOK
  <2> QED BY <1>0, <2>1, <2>2, PipeCut DEF PipeOK
<1>7. CASE Drain(p)
  <2>1. UNCHANGED <<wire, outgoing, runs, note>>
    BY <1>7 DEF Drain, taskVars
  <2> QED BY <2>1, PipeSame DEF PipeOK, Transit
<1> QED BY <1>1, <1>2, <1>3, <1>4, <1>5, <1>6, <1>7 DEF DriverStep, HangupStep

\* A handler that returns sends the answer of its call, under the id of its
\* request.
LEMMA TransitFinishStep ==
    ASSUME TypeOK, IInv, [Next]_vars, NEW p \in Peers, Finish(p), NEW q \in Peers
    PROVE  PipeOK(q)'
<1> USE DEF IInv
<1>1. PICK t \in tasks[p] : /\ answered' = answered \cup {t.call}
                            /\ Enqueue(p, Response(t.id, t.call))
                            /\ UNCHANGED <<wire, driver, runs, note>>
  BY DEF Finish
<1>2. /\ t \in Entries /\ t.call \in Calls /\ t.id \in Nat
      /\ Owner[t.call] = Other(p) /\ t.id = id[t.call] /\ runs[t.call] = 1
  BY DEF TypeOK, RunInv, Entries
<1>3. CASE ChannelOpen(p) /\ q = p
  <2>1. PICK x \in Line : x = Response(t.id, t.call)
    BY <1>2 DEF Response, Line, Outcomes
  <2>2. outgoing'[q] = Append(outgoing[q], x) /\ wire'[q] = wire[q]
    BY <1>1, <1>3, <2>1 DEF Enqueue, TypeOK
  <2>3. wire[q] \in Seq(Line) /\ outgoing[q] \in Seq(Line)
    BY TransitType
  <2>4. wire[q] \o Append(outgoing[q], x) = Append(wire[q] \o outgoing[q], x)
    BY <2>3, SendToPipe
  <2>5. Transit(q)' = Append(Transit(q), x)
    BY <2>2, <2>4 DEF Transit
  <2>6. x.kind = "response" /\ x.id = t.id /\ x.body = t.call
    BY <2>1 DEF Response
  <2>7. id'[t.call] = id[t.call] /\ t.call \in answered'
    BY <1>1, <1>2, Forward DEF RunInv
  <2>8. LineOK(q, x)'
    BY <1>2, <1>3, <2>6, <2>7 DEF LineOK
  <2> QED BY <1>1, <2>5, <2>6, <2>8, PipeAppend DEF PipeOK
<1>4. CASE ~(ChannelOpen(p) /\ q = p)
  <2>1. outgoing'[q] = outgoing[q] /\ wire'[q] = wire[q]
    BY <1>1, <1>4 DEF Enqueue, TypeOK
  <2> QED BY <1>1, <2>1, PipeSame DEF PipeOK, Transit
<1> QED BY <1>3, <1>4

\* notify() sends one line, once.
LEMMA TransitNoteStep ==
    ASSUME TypeOK, IInv, [Next]_vars, NEW n \in Notes, Notify(n) \/ NoteHandled(n),
           NEW q \in Peers
    PROVE  PipeOK(q)'
<1> USE DEF IInv
<1>1. CASE Notify(n) /\ ChannelOpen(NoteOwner[n]) /\ NoteOwner[n] = q
  <2>1. PICK x \in Line : x = Notification(n)
    BY DEF Notification, Line
  <2>2. /\ note[n] = "idle" /\ note' = [note EXCEPT ![n] = "sent"]
        /\ outgoing' = [outgoing EXCEPT ![q] = Append(@, x)]
        /\ UNCHANGED <<wire, runs>>
    BY <1>1, <2>1 DEF Notify, taskVars
  <2>3. wire[q] \in Seq(Line) /\ outgoing[q] \in Seq(Line)
    BY TransitType
  <2>4. wire[q] \o Append(outgoing[q], x) = Append(wire[q] \o outgoing[q], x)
    BY <2>3, SendToPipe
  <2>5. Transit(q)' = Append(Transit(q), x)
    BY <2>2, <2>4 DEF Transit, TypeOK
  <2>6. x.kind = "notification" /\ x.body = n
    BY <2>1 DEF Notification
  <2>7. \A i \in 1..Len(Transit(q)) : Transit(q)[i] # x
    BY <2>2, <2>6 DEF TransitInv, LineOK
  <2>8. LineOK(q, x)'
    BY <1>1, <2>2, <2>6 DEF LineOK, TypeOK
  <2>9. \A m \in Notes : note[m] = "sent" => note'[m] = "sent"
    BY <2>2 DEF TypeOK
  <2> QED BY <2>2, <2>5, <2>7, <2>8, <2>9, PipeAppend DEF PipeOK
<1>2. CASE ~(Notify(n) /\ ChannelOpen(NoteOwner[n]) /\ NoteOwner[n] = q)
  <2>1. /\ outgoing'[q] = outgoing[q] /\ wire'[q] = wire[q]
        /\ runs' = runs
    BY <1>2, Owners DEF Notify, NoteHandled, TypeOK, taskVars
  <2>2. /\ note[n] \in {"idle", "handling"}
        /\ note' \in {[note EXCEPT ![n] = "sent"], [note EXCEPT ![n] = "refused"],
                      [note EXCEPT ![n] = "handled"]}
    BY DEF Notify, NoteHandled
  <2>3. \A m \in Notes : note[m] = "sent" => note'[m] = "sent"
    BY <2>2 DEF TypeOK
  <2> QED BY <2>1, <2>3, PipeSame DEF PipeOK, Transit
<1> QED BY <1>1, <1>2

\* TransitInv is kept by every step.
LEMMA TransitStep ==
    ASSUME TypeOK, TypeOK', IInv, [Next]_vars
    PROVE  TransitInv'
<1> SUFFICES ASSUME NEW q \in Peers PROVE PipeOK(q)'
  BY DEF TransitInv, PipeOK
<1>1. ASSUME UNCHANGED <<wire, outgoing, runs, note>> PROVE PipeOK(q)'
  BY <1>1, PipeSame DEF IInv, PipeOK, Transit
<1>2. ASSUME NEW p \in Peers, Panic(p) \/ DropHandle(p) PROVE PipeOK(q)'
  BY <1>1, <1>2 DEF Panic, DropHandle, taskVars
<1>3. CASE UNCHANGED vars
  BY <1>1, <1>3 DEF vars
<1> QED
  BY <1>2, <1>3, TransitCallStep, TransitDriverStep, TransitFinishStep, TransitNoteStep DEF Next

\* A handler is started at most once: the request line that starts it is under
\* way once, and the call it names was not started before.
LEMMA RunStep ==
    ASSUME TypeOK, IInv, [Next]_vars
    PROVE  RunInv'
<1> USE DEF IInv
<1>0. \A p \in Peers : \A t \in tasks[p] : t \in Entries /\ t.call \in Calls
  BY DEF TypeOK, Entries
<1>1. ASSUME UNCHANGED <<runs, answered>>,
             \A p \in Peers : tasks'[p] \subseteq tasks[p]
      PROVE  RunInv'
  BY <1>0, <1>1, Forward DEF TypeOK, RunInv, PastSend
<1>2. ASSUME NEW p \in Peers, ReadRequest(p) PROVE RunInv'
  <2> DEFINE line == Head(wire[Other(p)])
  <2>1. /\ CanRead(p) /\ line.kind = "request"
        /\ tasks' = [tasks EXCEPT ![p] = @ \cup {Entry(line.id, line.body)}]
        /\ runs' = [runs EXCEPT ![line.body] = @ + 1]
        /\ UNCHANGED <<pc, id, answered>>
    BY <1>2 DEF ReadRequest, callVars
  <2>2. line \in Line /\ LineOK(Other(p), line)
    BY <2>1, HeadOK
  <2>3. /\ line.body \in Calls /\ Owner[line.body] = Other(p) /\ line.id = id[line.body]
        /\ runs[line.body] = 0 /\ pc[line.body] \in PastSend
    BY <2>1, <2>2 DEF Line, Fragment, LineOK
  <2>4. line.body \notin answered
    BY <2>3 DEF RunInv
  <2>5. /\ runs'[line.body] = 1
        /\ \A c \in Calls : c # line.body => runs'[c] = runs[c]
    BY <2>1, <2>3 DEF TypeOK
  <2>6. \A c \in Calls : runs'[c] \in {0, 1} /\ (runs'[c] = 1 => pc[c] \in PastSend)
    BY <2>3, <2>5 DEF RunInv
  <2>7. \A c \in answered : runs'[c] = 1
    BY <2>4, <2>5 DEF TypeOK, RunInv
  <2>8. ASSUME NEW q \in Peers, NEW t \in tasks'[q]
        PROVE  /\ Owner[t.call] = Other(q) /\ t.id = id[t.call]
               /\ runs'[t.call] = 1 /\ t.call \notin answered
    <3>1. CASE t \in tasks[q]
      BY <1>0, <2>3, <2>5, <3>1 DEF RunInv
    <3>2. CASE q = p /\ t = Entry(line.id, line.body)
      BY <2>3, <2>4, <2>5, <3>2 DEF Entry
    <3> QED BY <2>1, <2>8, <3>1, <3>2 DEF TypeOK
  <2> QED BY <2>1, <2>6, <2>7, <2>8 DEF RunInv
<1>3. ASSUME NEW p \in Peers, Finish(p) PROVE RunInv'
  <2>1. PICK t \in tasks[p] : /\ tasks' = [tasks EXCEPT ![p] = @ \ {t}]
                              /\ answered' = answered \cup {t.call}
                              /\ UNCHANGED <<pc, id, runs>>
    BY <1>3 DEF Finish, callVars
  <2>2. \A c \in answered' : runs'[c] = 1
    BY <2>1 DEF RunInv
  <2>3. ASSUME NEW q \in Peers, NEW u \in tasks'[q]
        PROVE  u \in tasks[q] /\ u.call # t.call
    <3>1. u \in tasks[q] /\ (q = p => u # t)
      BY <2>1, <2>3 DEF TypeOK
    <3>2. ASSUME u.call = t.call PROVE FALSE
      <4>1. Other(q) = Other(p) /\ u.id = t.id
        BY <3>1, <3>2 DEF RunInv
      <4>2. q = p
        BY <4>1, OtherPeer
      <4> QED BY <1>0, <3>1, <3>2, <4>1, <4>2 DEF Entries
    <3> QED BY <3>1, <3>2
  <2>4. \A q \in Peers : \A u \in tasks'[q] :
            /\ Owner[u.call] = Other(q) /\ u.id = id'[u.call]
            /\ runs'[u.call] = 1 /\ u.call \notin answered'
    BY <2>1, <2>3 DEF RunInv
  <2> QED BY <2>1, <2>2, <2>4 DEF RunInv
<1>4. ASSUME NEW p \in Peers, Panic(p) \/ DropHandle(p) PROVE RunInv'
  <2>1. UNCHANGED <<runs, answered>> /\ \A q \in Peers : tasks'[q] \subseteq tasks[q]
    BY <1>4 DEF Panic, DropHandle, TypeOK, taskVars
  <2> QED BY <1>1, <2>1
<1>5. ASSUME NEW c \in Calls, CallStep(c) PROVE RunInv'
  BY <1>1, <1>5 DEF CallStep, Allocate, Register, SendOk, SendRefused, Return, Abandon, taskVars
<1>6. ASSUME NEW p \in Peers, DriverStep(p), ~ReadRequest(p) PROVE RunInv'
  <2>1. UNCHANGED <<tasks, runs, answered>>
    BY <1>6 DEF DriverStep, Write, ReadResponse, ReadNotification, ReadFragment, ReadEof,
                ReadError, WriteError, Drain, DropDriver, taskVars
  <2> QED BY <1>1, <2>1
<1>7. ASSUME NEW n \in Notes, Notify(n) \/ NoteHandled(n) PROVE RunInv'
  BY <1>1, <1>7, NoteFrame
<1>8. CASE UNCHANGED vars
  BY <1>1, <1>8 DEF vars
<1> QED BY <1>2, <1>3, <1>4, <1>5, <1>6, <1>7, <1>8 DEF Next

-----------------------------------------------------------------------------
(* The theorems.                                                           *)

\* The inductive invariant holds initially.
LEMMA InvInit == Init => TypeOK /\ IInv
<1> SUFFICES ASSUME Init PROVE IInv
  BY TypeInit
<1>1. \A p \in Peers : Transit(p) = <<>>
  BY OtherPeer DEF Init, Transit
<1>2. IdInv /\ TableInv /\ WaitInv /\ EndInv
  BY Owners DEF Init, IdInv, TableInv, WaitInv, EndInv, NoPendingLeak
<1>3. ReplyInv /\ RunInv
  BY CallsAssumption DEF Init, ReplyInv, RunInv, NoReply, ConnClosed
<1>4. TransitInv
  BY <1>1 DEF TransitInv, Once
<1> QED BY <1>2, <1>3, <1>4 DEF IInv

\* Every step keeps the inductive invariant.
LEMMA InvStep ==
    ASSUME TypeOK, TypeOK', IInv, [Next]_vars
    PROVE  IInv'
<1>1. TablePart'
  <2>1. ASSUME NEW p \in Peers, Finish(p) PROVE TablePart'
    <3>1. /\ UNCHANGED <<pending, pc, id, reply, driver>> /\ answered \subseteq answered'
          /\ \E line : Enqueue(p, line)
      BY <2>1 DEF Finish, peerVars, callVars
    <3>2. \A q \in Peers : driver[q] # "running" => outgoing'[q] = outgoing[q]
      BY <3>1 DEF Enqueue, ChannelOpen, TypeOK
    <3> QED BY <3>1, <3>2, TableOtherStep
  <2>2. ASSUME NEW p \in Peers, Panic(p) \/ DropHandle(p) PROVE TablePart'
    BY <2>2, TableOtherStep DEF Panic, DropHandle, peerVars, callVars, taskVars
  <2>3. ASSUME NEW n \in Notes, Notify(n) \/ NoteHandled(n) PROVE TablePart'
    <3>1. \A q \in Peers : driver[q] # "running" => outgoing'[q] = outgoing[q]
      <4>1. CASE Notify(n)
        BY <4>1 DEF Notify, ChannelOpen, TypeOK
      <4>2. CASE NoteHandled(n)
        BY <4>2 DEF NoteHandled
      <4> QED BY <2>3, <4>1, <4>2
    <3> QED BY <2>3, <3>1, NoteFrame, TableOtherStep
  <2>4. CASE UNCHANGED vars
    BY <2>4, TableOtherStep DEF vars
  <2> QED BY <2>1, <2>2, <2>3, <2>4, TableCallStep, TableDriverStep DEF Next
<1> QED BY <1>1, IdStep, RunStep, TransitStep DEF IInv, TablePart

\* The inductive invariant holds in every reachable state.
THEOREM Invariance == Spec => []IInv
<1>1. Init => IInv
  BY InvInit
<1>2. TypeOK /\ TypeOK' /\ IInv /\ [Next]_vars => IInv'
  BY InvStep
<1> QED BY <1>1, <1>2, TypeCorrect, PTL DEF Spec

\* Correlation by id: no caller ever receives another call's answer.
THEOREM AnswersAreOwn == Spec => []OwnAnswer
<1>1. IInv => OwnAnswer
  BY DEF IInv, ReplyInv, OwnAnswer
<1> QED BY <1>1, Invariance, PTL

\* The other side starts the handler of a call at most once.
THEOREM ExecutedAtMostOnce == Spec => []SingleExecution
<1>1. IInv => SingleExecution
  BY DEF IInv, RunInv, SingleExecution
<1> QED BY <1>1, Invariance, PTL

\* A driver that returned leaves no caller waiting: its entry would still be in
\* the table, and the table holds none but those of refused sends.
THEOREM NobodyIsStranded == Spec => []NoStrandedCaller
<1>1. IInv => NoStrandedCaller
  <2> SUFFICES ASSUME IInv, NEW c \in Calls, driver[Owner[c]] = "done", pc[c] = "awaiting",
                      reply[c] = NoReply
               PROVE  FALSE
    BY DEF NoStrandedCaller
  <2>1. Entry(id[c], c) \in pending[Owner[c]] /\ Entry(id[c], c).call = c
    BY DEF IInv, WaitInv, Entry
  <2> QED BY <2>1, Owners DEF IInv, EndInv, NoPendingLeak
<1> QED BY <1>1, Invariance, PTL

\* A driver that returned leaves no entry behind for good.
THEOREM TableIsCleared == Spec => []NoPendingLeak
<1>1. IInv => NoPendingLeak
  BY DEF IInv, EndInv
<1> QED BY <1>1, Invariance, PTL

-----------------------------------------------------------------------------
(* RtConnection implements RtRpc.                                          *)

\* Register displaces no entry: the id it inserts under is new.
LEMMA NothingDisplaced ==
    ASSUME TypeOK, IInv, NEW c \in Calls, Register(c)
    PROVE  reply' = reply
<1>1. {e \in pending[Owner[c]] : e.id = id[c]} = {}
  <2> SUFFICES ASSUME NEW e \in pending[Owner[c]], e.id = id[c] PROVE FALSE
    OBVIOUS
  <2>1. e.call = c /\ pc[c] = "allocated"
    BY EntryOfId DEF Register, IInv
  <2> QED BY <2>1, Owners DEF IInv, TableInv
<1> QED BY <1>1 DEF Register, TypeOK

\* Every step of the pair is a step of the abstract calls, or none.
LEMMA RpcCallStep ==
    ASSUME TypeOK, IInv, NEW c \in Calls, CallStep(c)
    PROVE  [Rpc!Next]_(Rpc!vars)
<1>1. Owner[c] \in Peers /\ c # NoReply /\ c # ConnClosed
  BY Owners, CallsAssumption DEF NoReply, ConnClosed
<1>2. CASE Allocate(c)
  <2>1. Rpc!Call(c)
    BY <1>2 DEF Allocate, TypeOK, Rpc!Call, Phase, taskVars
  <2> QED BY <2>1 DEF Rpc!Next
<1>3. CASE Register(c)
  <2>1. UNCHANGED Rpc!vars
    BY <1>3, NothingDisplaced DEF Register, TypeOK, Rpc!vars, Phase, taskVars
  <2> QED BY <2>1
<1>4. CASE SendOk(c)
  <2>1. UNCHANGED Rpc!vars
    BY <1>4 DEF SendOk, TypeOK, Rpc!vars, Phase, taskVars
  <2> QED BY <2>1
<1>5. CASE SendRefused(c)
  <2>1. reply[c] \in {NoReply, ConnClosed}
    BY <1>5 DEF SendRefused, IInv, ReplyInv, RunInv, PastSend
  <2>2. Rpc!Refuse(c)
    BY <1>1, <1>5, <2>1 DEF SendRefused, ChannelOpen, TypeOK, Rpc!Refuse, Phase, taskVars
  <2> QED BY <2>2 DEF Rpc!Next
<1>6. CASE Return(c)
  <2>1. Rpc!Return(c)
    BY <1>6 DEF Return, TypeOK, Rpc!Return, Phase, taskVars
  <2> QED BY <2>1 DEF Rpc!Next
<1>7. CASE Abandon(c)
  <2>1. Rpc!Abandon(c)
    BY <1>7 DEF Abandon, TypeOK, Rpc!Abandon, Phase, taskVars
  <2> QED BY <2>1 DEF Rpc!Next
<1> QED BY <1>2, <1>3, <1>4, <1>5, <1>6, <1>7 DEF CallStep

\* A driver's step answers one call, starts one, closes one peer, fails the
\* calls left in a table, or is invisible.
LEMMA RpcDriverStep ==
    ASSUME TypeOK, IInv, NEW p \in Peers, DriverStep(p)
    PROVE  [Rpc!Next]_(Rpc!vars)
<1> USE DEF IInv
<1>1. CASE Write(p) \/ ReadNotification(p) \/ ReadFragment(p)
  <2>1. UNCHANGED <<pc, runs, answered, reply, driver>>
    BY <1>1 DEF Write, ReadNotification, ReadFragment, callVars, taskVars
  <2> QED BY <2>1 DEF Rpc!vars, Phase
<1>2. CASE ReadResponse(p)
  <2> DEFINE line == Head(wire[Other(p)])
             matching == {e \in pending[p] : e.id = line.id}
  <2>1. /\ CanRead(p) /\ line.kind = "response"
        /\ reply' = [c \in Calls |->
                        IF \E e \in matching : e.call = c THEN line.body ELSE reply[c]]
        /\ UNCHANGED <<pc, runs, answered, driver>>
    BY <1>2 DEF ReadResponse, Complete, taskVars
  <2>2. CASE matching = {}
    <3>1. reply' = reply
      BY <2>1, <2>2 DEF TypeOK
    <3> QED BY <2>1, <3>1 DEF Rpc!vars, Phase
  <2>3. CASE matching # {}
    <3>1. PICK e \in pending[p] : e.id = line.id
      BY <2>3
    <3>2. /\ e.call \in Calls /\ reply[e.call] = NoReply /\ pc[e.call] # "idle"
          /\ line.body = e.call /\ e.call \in answered
      BY <2>1, <3>1, EntryType, MatchedResponse DEF TableInv
    <3>3. \A f \in matching : f.call = e.call
      BY <2>1, <3>2, MatchedResponse
    <3>4. reply' = [reply EXCEPT ![e.call] = e.call]
      BY <2>1, <3>1, <3>2, <3>3 DEF TypeOK
    <3>5. Rpc!Answer(e.call)
      BY <2>1, <3>2, <3>4 DEF Rpc!Answer, Phase
    <3> QED BY <3>2, <3>5 DEF Rpc!Next
  <2> QED BY <2>2, <2>3
<1>3. CASE ReadRequest(p)
  <2> DEFINE line == Head(wire[Other(p)])
  <2>1. /\ CanRead(p) /\ line.kind = "request"
        /\ runs' = [runs EXCEPT ![line.body] = @ + 1]
        /\ UNCHANGED <<pc, reply, answered, driver>>
    BY <1>3 DEF ReadRequest, callVars
  <2>2. line \in Line /\ LineOK(Other(p), line)
    BY <2>1, HeadOK
  <2>3. line.body \in Calls /\ runs[line.body] = 0 /\ pc[line.body] \in PastSend
    BY <2>1, <2>2 DEF Line, Fragment, LineOK
  <2>4. runs' = [runs EXCEPT ![line.body] = 1]
    BY <2>1, <2>3 DEF TypeOK
  <2>5. Rpc!Start(line.body)
    BY <2>1, <2>3, <2>4 DEF Rpc!Start, Phase, PastSend
  <2> QED BY <2>3, <2>5 DEF Rpc!Next
<1>4. CASE HangupStep(p)
  <2>1. PICK status \in {"stopped", "dropped"} :
            /\ driver[p] = "running" /\ driver' = [driver EXCEPT ![p] = status]
            /\ UNCHANGED <<pc, reply, runs, answered>>
    BY <1>4, HangupFacts
  <2>2. Rpc!Close(p)
    BY <2>1 DEF TypeOK, Rpc!Close, Phase
  <2> QED BY <2>2 DEF Rpc!Next
<1>5. CASE Drain(p)
  <2> DEFINE failing == {e.call : e \in pending[p]}
  <2>1. /\ driver[p] = "stopped" /\ driver' = [driver EXCEPT ![p] = "done"]
        /\ reply' = [c \in Calls |->
                        IF \E e \in pending[p] : e.call = c THEN ConnClosed ELSE reply[c]]
        /\ UNCHANGED <<pc, runs, answered>>
    BY <1>5 DEF Drain, taskVars
  <2>2. \A c \in failing : /\ c \in Calls /\ Owner[c] = p
                           /\ pc[c] # "idle" /\ reply[c] = NoReply
    BY EntryType DEF TableInv
  <2>3. {q \in Peers : driver'[q] # "running"} = {q \in Peers : driver[q] # "running"}
    BY <2>1 DEF TypeOK
  <2>4. reply' = [c \in Calls |-> IF c \in failing THEN ConnClosed ELSE reply[c]]
    BY <2>1
  <2>5. Rpc!Fail(p, failing)
    BY <2>1, <2>2, <2>3, <2>4 DEF Rpc!Fail, Phase
  <2> QED BY <2>2, <2>5 DEF Rpc!Next
<1> QED BY <1>1, <1>2, <1>3, <1>4, <1>5 DEF DriverStep, HangupStep

\* Every step of the connections is a step of RtRpc, or none.
LEMMA RpcStep ==
    ASSUME TypeOK, IInv, [Next]_vars
    PROVE  [Rpc!Next]_(Rpc!vars)
<1>1. ASSUME UNCHANGED <<pc, runs, answered, reply, driver>> PROVE UNCHANGED Rpc!vars
  BY <1>1 DEF Rpc!vars, Phase
<1>2. ASSUME NEW p \in Peers, Finish(p) PROVE Rpc!Next
  <2>1. PICK t \in tasks[p] : /\ answered' = answered \cup {t.call}
                              /\ UNCHANGED <<pc, reply, runs, driver>>
    BY <1>2 DEF Finish, callVars
  <2>2. t.call \in Calls /\ runs[t.call] = 1 /\ t.call \notin answered
    BY DEF TypeOK, Entries, IInv, RunInv
  <2>3. Rpc!Finish(t.call)
    BY <2>1, <2>2 DEF Rpc!Finish, Phase
  <2> QED BY <2>2, <2>3 DEF Rpc!Next
<1>3. ASSUME NEW p \in Peers, Panic(p) \/ DropHandle(p) PROVE UNCHANGED Rpc!vars
  BY <1>1, <1>3 DEF Panic, DropHandle, callVars, taskVars
<1>4. ASSUME NEW n \in Notes, Notify(n) \/ NoteHandled(n) PROVE UNCHANGED Rpc!vars
  BY <1>1, <1>4, NoteFrame
<1>5. CASE UNCHANGED vars
  BY <1>1, <1>5 DEF vars
<1> QED BY <1>2, <1>3, <1>4, <1>5, RpcCallStep, RpcDriverStep DEF Next

\* The pair of connections keeps the promise of RtRpc: at most one execution,
\* its own result or connection_closed after a close, and one outcome for good.
THEOREM Refinement == Spec => ImplementsRpc
<1>1. Init => Rpc!Init
  BY DEF Init, Rpc!Init, Phase
<1>2. TypeOK /\ IInv /\ [Next]_vars => [Rpc!Next]_(Rpc!vars)
  BY RpcStep
<1> QED BY <1>1, <1>2, TypeCorrect, Invariance, PTL DEF Spec, ImplementsRpc, Rpc!Spec

-----------------------------------------------------------------------------
(* Updates and answers.                                                    *)

\* Behind a pipe that holds n, an answer of c may be sent.
LEMMA PrecedesAppend ==
    ASSUME NEW s \in Seq(Line), NEW x \in Line, NEW n, NEW c
    PROVE  /\ /\ Precedes(s, n, c)
              /\ x.kind = "response" /\ x.body = c => Present(s, n)
              => Precedes(Append(s, x), n, c)
           /\ Present(s, n) \/ x = Notification(n) => Present(Append(s, x), n)
BY DEF Precedes, Present

\* While n stands in front of the answers of c, none of them is at the head.
LEMMA PrecedesTail ==
    ASSUME NEW s \in Seq(Line), NEW n, NEW c, s # <<>>, Head(s) # Notification(n)
    PROVE  /\ Precedes(s, n, c) => /\ Precedes(Tail(s), n, c)
                                   /\ ~(Head(s).kind = "response" /\ Head(s).body = c)
           /\ Present(s, n) => Present(Tail(s), n)
<1>1. /\ \A i \in 1..Len(Tail(s)) : i + 1 \in 1..Len(s) /\ Tail(s)[i] = s[i + 1]
      /\ Head(s) = s[1] /\ 1 \in 1..Len(s) /\ Len(Tail(s)) = Len(s) - 1
      /\ Len(s) \in Nat
  OBVIOUS
<1>2. ASSUME Present(s, n) PROVE Present(Tail(s), n)
  <2>1. PICK i \in 1..Len(s) : s[i] = Notification(n)
    BY <1>2 DEF Present
  <2>2. i - 1 \in 1..Len(Tail(s)) /\ Tail(s)[i - 1] = Notification(n)
    BY <1>1, <2>1
  <2> QED BY <2>2 DEF Present
<1>3. ASSUME Precedes(s, n, c) PROVE Precedes(Tail(s), n, c)
  <2> SUFFICES ASSUME NEW j \in 1..Len(Tail(s)),
                      Tail(s)[j].kind = "response", Tail(s)[j].body = c
               PROVE  \E i \in 1..(j - 1) : Tail(s)[i] = Notification(n)
    BY DEF Precedes
  <2>1. PICK i \in 1..j : s[i] = Notification(n)
    BY <1>1, <1>3 DEF Precedes
  <2>2. i - 1 \in 1..(j - 1) /\ i - 1 \in 1..Len(Tail(s)) /\ Tail(s)[i - 1] = Notification(n)
    BY <1>1, <2>1
  <2> QED BY <2>2
<1>4. ASSUME Precedes(s, n, c) PROVE ~(Head(s).kind = "response" /\ Head(s).body = c)
  BY <1>1, <1>4 DEF Precedes
<1> QED BY <1>2, <1>3, <1>4

\* Losing the end of a pipe never brings an answer forward.
LEMMA PrecedesPrefix ==
    ASSUME NEW s \in Seq(Line), NEW t \in Seq(Line), NEW n, NEW c, Precedes(s \o t, n, c)
    PROVE  Precedes(s, n, c)
<1>1. \A i \in 1..Len(s) : i \in 1..Len(s \o t) /\ (s \o t)[i] = s[i]
  BY ConcatElements
<1>2. Len(s) \in Nat
  OBVIOUS
<1> SUFFICES ASSUME NEW j \in 1..Len(s), s[j].kind = "response", s[j].body = c
             PROVE  \E i \in 1..(j - 1) : s[i] = Notification(n)
  BY DEF Precedes
<1>3. PICK i \in 1..(j - 1) : (s \o t)[i] = Notification(n)
  BY <1>1 DEF Precedes
<1> QED BY <1>1, <1>2, <1>3

\* What a step may do to the pipe of n without letting an answer overtake n.
LEMMA UpdateKept ==
    ASSUME TypeOK, NEW n \in Notes, UpdateOK(n), note[n] = "sent", NoteParent[n] # NoCall,
           NEW q \in Peers, q = NoteOwner[n], NEW c, c = NoteParent[n],
           reply'[c] # c,
           \A p \in Peers : driver'[p] = "running" => driver[p] = "running",
           \/ Transit(q)' = Transit(q)
           \/ \E x \in Line : /\ Transit(q)' = Append(Transit(q), x)
                              /\ x.kind = "response" /\ x.body = c => driver[q] = "running"
           \/ /\ Transit(q) # <<>> /\ Transit(q)' = Tail(Transit(q))
              /\ Head(Transit(q)) # Notification(n)
           \/ driver'[Other(q)] # "running"
           \/ driver'[q] # "running" /\ Transit(q)' \in {wire[q], Append(wire[q], Fragment)}
    PROVE  UpdateOK(n)'
<1>1. /\ Transit(q) \in Seq(Line) /\ wire[q] \in Seq(Line) /\ outgoing[q] \in Seq(Line)
      /\ Other(q) \in Peers
  BY TransitType, OtherPeer
<1> SUFFICES ASSUME driver'[Other(q)] = "running"
             PROVE  /\ Precedes(Transit(q)', n, c)
                    /\ driver'[q] = "running" => Present(Transit(q)', n)
  BY DEF UpdateOK
<1>2. /\ driver[Other(q)] = "running"
      /\ Precedes(Transit(q), n, c)
      /\ driver[q] = "running" => Present(Transit(q), n)
  BY <1>1 DEF UpdateOK
<1>3. CASE Transit(q)' = Transit(q)
  BY <1>2, <1>3
<1>4. ASSUME NEW x \in Line, Transit(q)' = Append(Transit(q), x),
             x.kind = "response" /\ x.body = c => driver[q] = "running"
      PROVE  /\ Precedes(Transit(q)', n, c)
             /\ driver'[q] = "running" => Present(Transit(q)', n)
  BY <1>1, <1>2, <1>4, PrecedesAppend
<1>5. CASE /\ Transit(q) # <<>> /\ Transit(q)' = Tail(Transit(q))
           /\ Head(Transit(q)) # Notification(n)
  BY <1>1, <1>2, <1>5, PrecedesTail
<1>6. CASE driver'[q] # "running" /\ Transit(q)' \in {wire[q], Append(wire[q], Fragment)}
  <2>1. Precedes(wire[q], n, c)
    BY <1>1, <1>2, PrecedesPrefix DEF Transit
  <2>2. Fragment \in Line /\ Fragment.kind # "response"
    BY DEF Line, Fragment
  <2>3. Precedes(Append(wire[q], Fragment), n, c)
    BY <1>1, <2>1, <2>2, PrecedesAppend
  <2> QED BY <1>6, <2>1, <2>3
<1> QED BY <1>3, <1>4, <1>5, <1>6

\* The caller's steps: the only line they send is a request, and the only
\* outcome they set is connection_closed.
LEMMA UpdateCallStep ==
    ASSUME TypeOK, IInv, NEW d \in Calls, CallStep(d), NEW n \in Notes, UpdateOK(n),
           note'[n] = "sent", NoteParent[n] # NoCall
    PROVE  UpdateOK(n)'
<1> DEFINE q == NoteOwner[n]
           c == NoteParent[n]
<1>1. q \in Peers /\ c \in Calls /\ c # ConnClosed
  BY Owners, NotesAssumption, CallsAssumption
<1>2. UNCHANGED <<note, driver, wire>>
  BY DEF CallStep, Allocate, Register, SendOk, SendRefused, Return, Abandon, peerVars, taskVars
<1>3. reply[c] # c
  BY <1>2 DEF UpdateOK
<1>4. reply'[c] # c
  <2>1. CASE Register(d)
    BY <1>3, <2>1, NothingDisplaced
  <2>2. CASE SendRefused(d)
    BY <1>1, <1>3, <2>2 DEF SendRefused, TypeOK
  <2>3. CASE ~Register(d) /\ ~SendRefused(d)
    BY <1>3, <2>3 DEF CallStep, Allocate, SendOk, Return, Abandon
  <2> QED BY <2>1, <2>2, <2>3
<1>5. \/ Transit(q)' = Transit(q)
      \/ \E x \in Line : Transit(q)' = Append(Transit(q), x) /\ x.kind # "response"
  <2>1. CASE SendOk(d) /\ Owner[d] = q
    <3>1. PICK x \in Line : x = Request(id[d], d)
      BY DEF TypeOK, Request, Line
    <3>2. Transit(q)' = wire[q] \o Append(outgoing[q], x)
      BY <1>1, <2>1, <3>1 DEF SendOk, TypeOK, Transit
    <3>3. wire[q] \in Seq(Line) /\ outgoing[q] \in Seq(Line)
      BY <1>1, TransitType
    <3>4. wire[q] \o Append(outgoing[q], x) = Append(wire[q] \o outgoing[q], x)
      BY <3>3, SendToPipe
    <3>5. Transit(q)' = Append(Transit(q), x) /\ x.kind # "response"
      BY <3>1, <3>2, <3>4 DEF Transit, Request
    <3> QED BY <3>5
  <2>2. CASE ~(SendOk(d) /\ Owner[d] = q)
    <3>1. outgoing'[q] = outgoing[q]
      BY <1>1, <2>2, Owners DEF CallStep, Allocate, Register, SendOk, SendRefused, Return,
                                Abandon, TypeOK
    <3> QED BY <1>2, <3>1 DEF Transit
  <2> QED BY <2>1, <2>2
<1> HIDE DEF q, c
<1>6. UpdateOK(n)'
  BY <1>1, <1>2, <1>4, <1>5, UpdateKept DEF q, c
<1> QED BY <1>6

\* The drivers' steps: an answer is read only after n, and the peer that made
\* call c alone can read its answer.
LEMMA UpdateDriverStep ==
    ASSUME TypeOK, TypeOK', IInv, NEW p \in Peers, DriverStep(p), NEW n \in Notes,
           UpdateOK(n), note'[n] = "sent", NoteParent[n] # NoCall
    PROVE  UpdateOK(n)'
<1> USE DEF IInv
<1>1. PICK q \in Peers : q = NoteOwner[n]
  BY Owners
<1>2. PICK c \in Calls : c = NoteParent[n] /\ Owner[c] # q
  BY <1>1, NotesAssumption
<1>3. c # ConnClosed /\ c # ParseError /\ c # NoReply
  BY CallsAssumption
<1>4. /\ p = q \/ p = Other(q)
      /\ Other(q) \in Peers /\ Other(q) # q /\ Other(Other(q)) = q /\ Owner[c] = Other(q)
  BY <1>1, <1>2, OtherPeer, Owners DEF Peers, Other
<1>5. note[n] = "sent" /\ \A r \in Peers : driver'[r] = "running" => driver[r] = "running"
  <2>1. CASE Write(p) \/ ReadResponse(p) \/ ReadRequest(p) \/ ReadFragment(p)
    BY <2>1 DEF Write, ReadResponse, ReadRequest, ReadFragment
  <2>2. CASE ReadNotification(p)
    <3>1. UNCHANGED driver /\ note' = [note EXCEPT ![Head(wire[Other(p)]).body] = "handling"]
      BY <2>2 DEF ReadNotification
    <3>2. note \in [Notes -> {"idle", "sent", "refused", "handling", "handled"}]
      BY DEF TypeOK
    <3> HIDE DEF IInv
    <3> QED BY <3>1, <3>2
  <2>3. CASE ReadEof(p) \/ ReadError(p) \/ WriteError(p) \/ DropDriver(p)
    <3>1. UNCHANGED note
      BY <2>3 DEF ReadEof, ReadError, WriteError, DropDriver
    <3>2. driver' = [driver EXCEPT ![p] = "stopped"] \/ driver' = [driver EXCEPT ![p] = "dropped"]
      BY <2>3 DEF ReadEof, ReadError, WriteError, DropDriver, Hangup
    <3>3. driver \in [Peers -> {"running", "stopped", "done", "dropped"}]
      BY DEF TypeOK
    <3> HIDE DEF IInv
    <3> QED BY <3>1, <3>2, <3>3
  <2>4. CASE Drain(p)
    BY <2>4 DEF Drain, TypeOK
  <2> QED BY <2>1, <2>2, <2>3, <2>4 DEF DriverStep
<1>6. reply[c] # c
  BY <1>2, <1>5 DEF UpdateOK
<1>7. CASE Write(p)
  <2>1. /\ outgoing[p] # <<>> /\ UNCHANGED reply
        /\ wire' = [wire EXCEPT ![p] = Append(@, Head(outgoing[p]))]
        /\ outgoing' = [outgoing EXCEPT ![p] = Tail(@)]
    BY <1>7 DEF Write, Received, callVars
  <2>2. Append(wire[p], Head(outgoing[p])) \o Tail(outgoing[p]) = Transit(p)
    BY <2>1, TransitType, ConcatWrite DEF Transit
  <2>3. Transit(q)' = Transit(q)
    BY <1>4, <2>1, <2>2 DEF TypeOK, Transit
  <2> QED BY <1>1, <1>2, <1>5, <1>6, <2>1, <2>3, UpdateKept
<1>8. ASSUME CanRead(p), wire' = [wire EXCEPT ![Other(p)] = Tail(@)], UNCHANGED outgoing,
             p = q => reply'[c] # c,
             /\ p = Other(q) /\ ~(Head(Transit(q)).kind = "response" /\ Head(Transit(q)).body = c)
                => reply'[c] # c,
             p = Other(q) => Head(Transit(q)) # Notification(n)
      PROVE  UpdateOK(n)'
  <2>1. CASE p = q
    <3>1. Transit(q)' = Transit(q)
      BY <1>8, <2>1, ReadPipe
    <3> QED BY <1>1, <1>2, <1>5, <1>8, <2>1, <3>1, UpdateKept
  <2>2. CASE p = Other(q)
    <3>1. Transit(q) # <<>> /\ Transit(q)' = Tail(Transit(q)) /\ Transit(q) \in Seq(Line)
      BY <1>4, <1>8, <2>2, ReadPipe, TransitType
    <3>2. Precedes(Transit(q), n, c)
      BY <1>1, <1>2, <1>5, <1>8, <2>2 DEF UpdateOK, CanRead
    <3>3. reply'[c] # c
      BY <1>8, <2>2, <3>1, <3>2, PrecedesTail
    <3> QED BY <1>1, <1>2, <1>5, <1>8, <2>2, <3>1, <3>3, UpdateKept
  <2> QED BY <1>4, <2>1, <2>2
<1>9. ASSUME CanRead(p) PROVE p = Other(q) => Head(Transit(q)) = Head(wire[q])
  <2>1. p = Other(q) => wire[q] # <<>>
    BY <1>4, <1>9 DEF CanRead
  <2>2. wire[q] \in Seq(Line) /\ outgoing[q] \in Seq(Line)
    BY TransitType
  <2> QED BY <2>1, <2>2, ConcatRead DEF Transit
<1>10. CASE ReadResponse(p)
  <2> DEFINE line == Head(wire[Other(p)])
             matching == {e \in pending[p] : e.id = line.id}
  <2>1. /\ CanRead(p) /\ wire' = [wire EXCEPT ![Other(p)] = Tail(@)]
        /\ line.kind = "response"
        /\ UNCHANGED outgoing
        /\ reply'[c] = IF \E e \in matching : e.call = c THEN line.body ELSE reply[c]
    BY <1>10 DEF ReadResponse, Complete
  <2>2. p = q => reply'[c] # c
    BY <1>2, <1>6, <2>1 DEF TableInv
  <2>3. p = Other(q) /\ ~(Head(Transit(q)).kind = "response" /\ Head(Transit(q)).body = c)
        => reply'[c] # c
    BY <1>4, <1>6, <1>9, <2>1
  <2>4. p = Other(q) => Head(Transit(q)) # Notification(n)
    BY <1>4, <1>9, <2>1 DEF Notification
  <2> QED BY <1>8, <2>1, <2>2, <2>3, <2>4
<1>11. CASE ReadRequest(p)
  <2>1. /\ CanRead(p) /\ wire' = [wire EXCEPT ![Other(p)] = Tail(@)]
        /\ Head(wire[Other(p)]).kind = "request"
        /\ UNCHANGED <<outgoing, reply>>
    BY <1>11 DEF ReadRequest, callVars
  <2>2. p = Other(q) => Head(Transit(q)) # Notification(n)
    BY <1>4, <1>9, <2>1 DEF Notification
  <2> QED BY <1>6, <1>8, <2>1, <2>2
<1>12. CASE ReadNotification(p)
  <2> DEFINE line == Head(wire[Other(p)])
  <2>1. /\ CanRead(p) /\ wire' = [wire EXCEPT ![Other(p)] = Tail(@)]
        /\ note' = [note EXCEPT ![line.body] = "handling"]
        /\ UNCHANGED <<outgoing, reply>>
    BY <1>12 DEF ReadNotification, callVars
  <2>2. line.body # n
    BY <2>1 DEF TypeOK
  <2>3. p = Other(q) => Head(Transit(q)) # Notification(n)
    BY <1>4, <1>9, <2>1, <2>2 DEF Notification
  <2> QED BY <1>6, <1>8, <2>1, <2>3
<1>13. CASE ReadFragment(p)
  <2>1. PICK x \in Line : x = Response(NullId, ParseError)
    BY DEF Response, Line, Outcomes, NullId
  <2>2. /\ CanRead(p) /\ wire' = [wire EXCEPT ![Other(p)] = Tail(@)]
        /\ outgoing' = [outgoing EXCEPT ![p] = Append(@, x)]
        /\ Head(wire[Other(p)]).kind = "fragment"
        /\ UNCHANGED reply
    BY <1>13, <2>1 DEF ReadFragment, CanRead, Enqueue, ChannelOpen, callVars
  <2>3. outgoing'[p] = Append(outgoing[p], x) /\ outgoing'[Other(p)] = outgoing[Other(p)]
    BY <2>2, OtherPeer DEF TypeOK
  <2>4. /\ Transit(Other(p)) # <<>>
        /\ Transit(Other(p))' = Tail(Transit(Other(p)))
        /\ Transit(p)' = Append(Transit(p), x)
    BY <2>2, <2>3, ReadPipe
  <2>5. x.body # c
    BY <1>3, <2>1 DEF Response
  <2>6. p = Other(q) => Head(Transit(q)) # Notification(n)
    BY <1>4, <1>9, <2>2 DEF Notification
  <2>7. \/ \E y \in Line : Transit(q)' = Append(Transit(q), y) /\ y.body # c
        \/ /\ Transit(q) # <<>> /\ Transit(q)' = Tail(Transit(q))
           /\ Head(Transit(q)) # Notification(n)
    BY <1>4, <2>4, <2>5, <2>6
  <2> QED BY <1>1, <1>2, <1>5, <1>6, <2>2, <2>7, UpdateKept
<1>14. CASE HangupStep(p)
  <2> HIDE DEF IInv
  <2>1. /\ driver'[p] # "running"
        /\ outgoing'[p] = <<>>
        /\ wire'[p] \in {wire[p], Append(wire[p], Fragment)}
        /\ UNCHANGED reply
    <3>1. /\ \E status \in {"stopped", "dropped"} : driver' = [driver EXCEPT ![p] = status]
          /\ outgoing' = [outgoing EXCEPT ![p] = <<>>]
          /\ wire'[p] \in {wire[p], Append(wire[p], Fragment)}
          /\ UNCHANGED reply
      BY <1>14, HangupFacts
    <3> QED BY <3>1 DEF TypeOK
  <2>2. CASE p = q
    <3>1. wire'[q] \in Seq(Line)
      BY DEF TypeOK
    <3>2. Transit(q)' = wire'[q]
      BY <2>1, <2>2, <3>1, ConcatEmptySeq DEF Transit
    <3> QED BY <1>1, <1>2, <1>5, <1>6, <2>1, <2>2, <3>2, UpdateKept
  <2>3. CASE p = Other(q)
    BY <1>1, <1>2, <1>5, <1>6, <2>1, <2>3, UpdateKept
  <2> QED BY <1>4, <2>2, <2>3
<1>15. CASE Drain(p)
  <2>1. /\ UNCHANGED <<wire, outgoing>>
        /\ reply'[c] \in {ConnClosed, reply[c]}
    BY <1>15 DEF Drain
  <2>2. Transit(q)' = Transit(q)
    BY <2>1 DEF Transit
  <2> QED BY <1>1, <1>2, <1>3, <1>5, <1>6, <2>1, <2>2, UpdateKept
<1> QED BY <1>7, <1>10, <1>11, <1>12, <1>13, <1>14, <1>15 DEF DriverStep, HangupStep

\* A handler that finishes queues its answer behind what it has sent.
LEMMA UpdateFinishStep ==
    ASSUME TypeOK, NEW p \in Peers, Finish(p), NEW n \in Notes, UpdateOK(n),
           note'[n] = "sent", NoteParent[n] # NoCall
    PROVE  UpdateOK(n)'
<1>1. PICK q \in Peers : q = NoteOwner[n]
  BY Owners
<1>2. PICK c \in Calls : c = NoteParent[n]
  BY NotesAssumption
<1>3. UNCHANGED <<wire, driver, note, reply>>
  BY HandlerFrame
<1>4. reply[c] # c
  BY <1>2, <1>3 DEF UpdateOK
<1>5. PICK t \in tasks[p] : Enqueue(p, Response(t.id, t.call))
  BY DEF Finish
<1>6. PICK x \in Line : x = Response(t.id, t.call)
  <2>1. t \in Entries
    BY DEF TypeOK
  <2> QED BY <2>1 DEF Entries, Response, Line, Outcomes
<1>7. CASE ChannelOpen(p) /\ p = q
  <2>1. outgoing'[q] = Append(outgoing[q], x)
    BY <1>5, <1>6, <1>7 DEF Enqueue, TypeOK
  <2>2. wire[q] \in Seq(Line) /\ outgoing[q] \in Seq(Line)
    BY TransitType
  <2>3. wire[q] \o Append(outgoing[q], x) = Append(wire[q] \o outgoing[q], x)
    BY <2>2, SendToPipe
  <2>4. Transit(q)' = Append(Transit(q), x) /\ driver[q] = "running"
    BY <1>3, <1>7, <2>1, <2>3 DEF Transit, ChannelOpen
  <2> QED BY <1>1, <1>2, <1>3, <1>4, <2>4, UpdateKept
<1>8. CASE ~(ChannelOpen(p) /\ p = q)
  <2>1. Transit(q)' = Transit(q)
    BY <1>3, <1>5, <1>8 DEF Enqueue, TypeOK, Transit
  <2> QED BY <1>1, <1>2, <1>3, <1>4, <2>1, UpdateKept
<1> QED BY <1>7, <1>8

\* A handler that still runs was not answered, so the notification it sends
\* finds no answer of its call under way.
LEMMA UpdateSent ==
    ASSUME TypeOK, IInv, NEW n \in Notes, Notify(n), note'[n] = "sent",
           NoteParent[n] # NoCall
    PROVE  UpdateOK(n)'
<1> USE DEF IInv
<1>1. PICK q \in Peers : q = NoteOwner[n]
  BY Owners
<1>2. PICK c \in Calls : c = NoteParent[n] /\ c # NoCall
  BY NotesAssumption
<1>3. PICK x \in Line : x = Notification(n)
  BY DEF Notification, Line
<1>4. /\ note[n] = "idle" /\ Handling(q, c) /\ ChannelOpen(q)
      /\ outgoing'[q] = Append(outgoing[q], x)
      /\ UNCHANGED <<wire, driver, reply>>
  BY <1>1, <1>2, <1>3 DEF Notify, CanStart, TypeOK, callVars
<1>5. c \notin answered
  BY <1>4 DEF Handling, RunInv
<1>6. c # ParseError
  BY <1>2, CallsAssumption
<1>7. Transit(q) \in Seq(Line) /\ wire[q] \in Seq(Line) /\ outgoing[q] \in Seq(Line)
  BY TransitType
<1>8. wire[q] \o Append(outgoing[q], x) = Append(wire[q] \o outgoing[q], x)
  BY <1>7, SendToPipe
<1>9. Transit(q)' = Append(Transit(q), x)
  BY <1>4, <1>8 DEF Transit
<1>10. Precedes(Transit(q), n, c)
  BY <1>5, <1>6 DEF Precedes, TransitInv, LineOK
<1>11. Precedes(Transit(q)', n, c) /\ Present(Transit(q)', n)
  <2>1. x.kind # "response"
    BY <1>3 DEF Notification
  <2> QED BY <1>3, <1>7, <1>9, <1>10, <2>1, PrecedesAppend
<1>12. reply'[c] # c
  BY <1>4, <1>5 DEF ReplyInv
<1> QED BY <1>1, <1>2, <1>11, <1>12 DEF UpdateOK

\* Another notification goes to the end of its pipe.
LEMMA UpdateNoteStep ==
    ASSUME TypeOK, NEW m \in Notes, Notify(m) \/ NoteHandled(m), NEW n \in Notes,
           note[n] = "sent", UpdateOK(n), note'[n] = "sent", NoteParent[n] # NoCall
    PROVE  UpdateOK(n)'
<1>1. PICK q \in Peers : q = NoteOwner[n]
  BY Owners
<1>2. PICK c \in Calls : c = NoteParent[n]
  BY NotesAssumption
<1>3. UNCHANGED <<wire, driver, reply>>
  BY NoteFrame
<1>4. reply[c] # c
  BY <1>2 DEF UpdateOK
<1>5. PICK x \in Line : x = Notification(m)
  BY DEF Notification, Line
<1>6. outgoing'[q] = outgoing[q] \/ outgoing'[q] = Append(outgoing[q], x)
  BY <1>5, Owners DEF Notify, NoteHandled, TypeOK
<1>7. wire[q] \in Seq(Line) /\ outgoing[q] \in Seq(Line)
  BY TransitType
<1>8. wire[q] \o Append(outgoing[q], x) = Append(wire[q] \o outgoing[q], x)
  BY <1>7, SendToPipe
<1>9. Transit(q)' = Transit(q) \/ Transit(q)' = Append(Transit(q), x)
  BY <1>3, <1>6, <1>8 DEF Transit
<1>10. x.kind # "response"
  BY <1>5 DEF Notification
<1> QED BY <1>1, <1>2, <1>3, <1>4, <1>9, <1>10, UpdateKept

\* Every step keeps accepted notifications ahead of the answer.
LEMMA UpdateStep ==
    ASSUME TypeOK, TypeOK', IInv, UpdateInv, [Next]_vars
    PROVE  UpdateInv'
<1> SUFFICES ASSUME NEW n \in Notes, note'[n] = "sent", NoteParent[n] # NoCall
             PROVE  UpdateOK(n)'
  BY DEF UpdateInv, UpdateOK
<1>1. UpdateOK(n)
  BY DEF UpdateInv
<1>2. ASSUME UNCHANGED <<wire, outgoing, driver, reply, note>> PROVE UpdateOK(n)'
  BY <1>1, <1>2 DEF UpdateOK, Transit
<1>3. ASSUME NEW p \in Peers, Panic(p) \/ DropHandle(p) PROVE UpdateOK(n)'
  BY <1>2, <1>3 DEF Panic, DropHandle, callVars, taskVars
<1>4. ASSUME NEW m \in Notes, Notify(m) \/ NoteHandled(m) PROVE UpdateOK(n)'
  <2>1. CASE note[n] = "sent"
    BY <1>1, <1>4, <2>1, UpdateNoteStep
  <2>2. CASE note[n] # "sent"
    <3>1. Notify(n)
      BY <1>4, <2>2 DEF Notify, NoteHandled, TypeOK
    <3> QED BY <3>1, UpdateSent
  <2> QED BY <2>1, <2>2
<1>5. CASE UNCHANGED vars
  BY <1>2, <1>5 DEF vars
<1> QED BY <1>1, <1>3, <1>4, <1>5, UpdateCallStep, UpdateDriverStep, UpdateFinishStep DEF Next

\* The caller that has its answer has been handed every notification the
\* handler of its call had sent.
THEOREM UpdatesComeFirst == Spec => []UpdatesPrecedeAnswer
<1>1. Init => UpdateInv
  BY DEF Init, UpdateInv, UpdateOK
<1>2. TypeOK /\ TypeOK' /\ IInv /\ UpdateInv /\ [Next]_vars => UpdateInv'
  BY UpdateStep
<1>3. UpdateInv => UpdatesPrecedeAnswer
  BY CallsAssumption DEF UpdateInv, UpdateOK, UpdatesPrecedeAnswer
<1> QED BY <1>1, <1>2, <1>3, TypeCorrect, Invariance, PTL DEF Spec

=============================================================================
