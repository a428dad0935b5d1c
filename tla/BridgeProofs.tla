---------------------------- MODULE BridgeProofs ----------------------------
(***************************************************************************)
(* Safety of Bridge for every set of sessions, every number of terminals   *)
(* and chunks, and every choice of commands that fork or fail to be read.  *)
(***************************************************************************)
EXTENDS Bridge, SequenceTheorems, TLAPS

\* What was written is in the buffer or still in a pipe; no cursor is beyond
\* the end of the buffer; an exit is shown when it is marked as shown, and marked
\* when it is known.
Behind(t) == written[t] = Len(buffer[t]) + pipe[t]["out"] + pipe[t]["err"]
Marked(t) == exits_shown[t] = IF t \in exit_emitted THEN 1 ELSE 0
CountInv == \A t \in Terms : Behind(t) /\ Marked(t) /\ forwarded_len[t] <= Len(buffer[t])
MarkInv == \A t \in exit_emitted : exit[t]
CloneInv == call.op = "drain" => call.term \in Terms /\ call.seen <= Len(buffer[call.term])

\* A reader that saw the end of its pipe left nothing in it, and no process can
\* write to it any more; the waiter is beyond its joins when both have ended,
\* and publishes the exit after that.
Joined(t) == waiter[t] \in {"polling", "reaped", "published", "done"}
ThreadInv ==
    \A t \in Terms :
        /\ child[t] = "none" => waiter[t] = "none"
        /\ \A x \in Sources :
              reader[t][x] = "ended" => pipe[t][x] = 0 /\ ~HasWriter(t)
        /\ Joined(t) => \A x \in Sources : reader[t][x] \in {"ended", "failed"}
        /\ exit[t] => waiter[t] \in {"published", "done"}

\* A number that was not given out names no process; a record holds terminals
\* that were made for it, and no record holds none.
TableInv ==
    /\ \A t \in Terms : child[t] = "none" <=> t > terminal_seq
    /\ \A t \in Terms : t > terminal_seq => t \notin released
    /\ \A s \in Sessions : \A t \in terminals[s] : s = home[t] /\ t <= terminal_seq
    /\ \A s \in Sessions : replay[s] = "absent" => terminals[s] = {}

\* What the client was shown is the buffer up to the cursor: the one in the
\* clone while a drain is between its two looks.
Cursor(t) == IF call.op = "drain" /\ call.term = t THEN call.seen ELSE forwarded_len[t]
DisplayInv == \A t \in Terms : shown[t] = SubSeq(buffer[t], 1, Cursor(t))

IInv == CountInv /\ CloneInv /\ ThreadInv /\ TableInv /\ DisplayInv /\ MarkInv

-----------------------------------------------------------------------------
(* Types and counts.                                                       *)

LEMMA Bounds ==
    /\ MaxTerminals \in Nat /\ MaxOutput \in Nat
    /\ \A t \in Terms : t \in Int /\ t >= 1 /\ t <= MaxTerminals
    /\ Sources = {"out", "err"}
BY BoundsAssumption DEF Terms, Sources

\* The variables start in their types.
LEMMA TypeInit == Init => TypeOK
<1> SUFFICES ASSUME Init PROVE TypeOK
  OBVIOUS
<1>1. (CHOOSE s \in Sessions : TRUE) \in Sessions
  BY ChoicesAssumption
<1>2. home \in [Terms -> Sessions]
  BY <1>1 DEF Init
<1>3. /\ buffer \in [Terms -> Seq(Sources)] /\ shown \in [Terms -> Seq(Sources)]
  BY DEF Init
<1> QED BY <1>2, <1>3, Bounds DEF Init, TypeOK, Idle

\* The pipes and the buffer never hold more than what was written.
LEMMA Room ==
    ASSUME TypeOK, CountInv, NEW t \in Terms
    PROVE  /\ Len(buffer[t]) \in 0..MaxOutput
           /\ \A x \in Sources : pipe[t][x] \in Nat /\ pipe[t][x] <= written[t]
<1>1. /\ pipe[t]["out"] \in Nat /\ pipe[t]["err"] \in Nat /\ written[t] \in 0..MaxOutput
      /\ Len(buffer[t]) \in Nat
  BY Bounds DEF TypeOK
<1>2. Behind(t)
  BY DEF CountInv
<1>3. /\ Len(buffer[t]) <= written[t]
      /\ pipe[t]["out"] <= written[t] /\ pipe[t]["err"] <= written[t]
  BY <1>1, <1>2 DEF Behind
<1> QED BY <1>1, <1>3, Bounds

\* The bridge's methods keep every variable in its type.
LEMMA BridgeTypes ==
    ASSUME TypeOK, CountInv, BridgeStep
    PROVE  TypeOK'
<1> USE Bounds DEF TypeOK, sessionVars, termVars, viewVars, childVars, threadVars
<1>1. ASSUME NEW s \in Sessions, Create(s) PROVE TypeOK'
  <2>1. terminal_seq + 1 \in Terms /\ terminal_seq' \in 0..MaxTerminals
    BY <1>1 DEF Create, NextSeq, Terms
  <2>2. terminals' \in [Sessions -> SUBSET Terms] /\ home' \in [Terms -> Sessions]
    BY <1>1, <2>1 DEF Create, NextSeq
  <2>3. /\ child' \in [Terms -> {"none", "running", "exited", "reaped"}]
        /\ reader' \in [Terms -> [Sources -> {"none", "reading", "ended", "failed"}]]
        /\ waiter' \in [Terms -> {"none", "joining", "polling", "reaped", "published",
                                  "done"}]
    BY <1>1, <2>1 DEF Create, NextSeq
  <2> QED BY <1>1, <2>1, <2>2, <2>3 DEF Create
<1>2. ASSUME NEW s \in Sessions, Close(s) PROVE TypeOK'
  BY <1>2 DEF Close, SigKill
<1>3. ASSUME NEW s \in Sessions, NEW e \in {"full", "none"}, Reenter(s, e) PROVE TypeOK'
  BY <1>3 DEF Reenter
<1>4. ASSUME NEW s \in Sessions, NEW t \in Terms, AskKill(s, t) PROVE TypeOK'
  BY <1>4 DEF AskKill
<1>5. ASSUME NEW s \in Sessions, NEW t \in Terms, Release(s, t) PROVE TypeOK'
  BY <1>5 DEF Release, SigKill
<1>6. ASSUME NEW s \in Sessions, NEW t \in Terms, DrainBytes(s, t) PROVE TypeOK'
  <2>1. Len(buffer[t]) \in 0..MaxOutput /\ forwarded_len[t] \in Nat
    BY Room
  <2>2. \A i \in forwarded_len[t] + 1 .. Len(buffer[t]) : buffer[t][i] \in Sources
    BY <2>1, ElementOfSeq
  <2>3. SubSeq(buffer[t], forwarded_len[t] + 1, Len(buffer[t])) \in Seq(Sources)
    BY <2>1, <2>2, SubSeqProperties
  <2>4. shown' \in [Terms -> Seq(Sources)]
    BY <1>6, <2>3, ConcatProperties DEF DrainBytes
  <2>5. t \in 0..MaxTerminals
    OBVIOUS
  <2>6. call' \in [op : {"idle", "drain", "wait", "asleep", "woken"},
                   term : 0..MaxTerminals, seen : 0..MaxOutput]
    BY <1>6, <2>1, <2>5 DEF DrainBytes, Calling
  <2> QED BY <1>6, <2>4, <2>6 DEF DrainBytes
<1>7. ASSUME NEW s \in Sessions, NEW t \in Terms, WaitStart(s, t) PROVE TypeOK'
  <2>1. call' \in [op : {"idle", "drain", "wait", "asleep", "woken"},
                   term : 0..MaxTerminals, seen : 0..MaxOutput]
    BY <1>7 DEF WaitStart, Calling
  <2> QED BY <1>7, <2>1 DEF WaitStart
<1>8. ASSUME NEW t \in Terms, Kill(t) PROVE TypeOK'
  BY <1>8 DEF Kill, SigKill
<1>9. ASSUME NEW t \in Terms, DrainStatus(t) PROVE TypeOK'
  <2>1. call' \in [op : {"idle", "drain", "wait", "asleep", "woken"},
                   term : 0..MaxTerminals, seen : 0..MaxOutput]
    BY <1>9 DEF DrainStatus, Idle
  <2>2. exits_shown' \in [Terms -> 0..1]
    <3>1. Marked(t)
      BY DEF CountInv
    <3>2. t \notin exit_emitted => exits_shown[t] + 1 \in 0..1
      BY <3>1 DEF Marked
    <3> QED BY <1>9, <3>2 DEF DrainStatus
  <2>3. forwarded_len' \in [Terms -> 0..MaxOutput]
    BY <1>9 DEF DrainStatus, Forwarded
  <2>4. exit_emitted' \subseteq Terms
    BY <1>9 DEF DrainStatus
  <2> QED BY <1>9, <2>1, <2>2, <2>3, <2>4 DEF DrainStatus
<1>10. ASSUME NEW t \in Terms, WaitLook(t) PROVE TypeOK'
  <2>1. call' \in [op : {"idle", "drain", "wait", "asleep", "woken"},
                   term : 0..MaxTerminals, seen : 0..MaxOutput]
    BY <1>10 DEF WaitLook, Calling, Idle
  <2> QED BY <1>10, <2>1 DEF WaitLook
<1> QED BY <1>1, <1>2, <1>3, <1>4, <1>5, <1>6, <1>7, <1>8, <1>9, <1>10 DEF BridgeStep

\* So do the processes and the threads.
LEMMA ProcessTypes ==
    ASSUME TypeOK, CountInv, NEW t \in Terms, ProcessStep(t)
    PROVE  TypeOK'
<1> USE Bounds DEF TypeOK, sessionVars, termVars, viewVars, childVars, threadVars
<1>1. CASE Fork(t) \/ DescendantExits(t) \/ ChildExits(t)
  BY <1>1 DEF Fork, DescendantExits, ChildExits, Die
<1>2. ASSUME NEW x \in Sources, WriteChunk(t, x) PROVE TypeOK'
  <2>1. written[t] + 1 \in 0..MaxOutput /\ pipe[t][x] + 1 \in 0..MaxOutput
    <3>1. pipe[t][x] \in Nat /\ pipe[t][x] <= written[t] /\ written[t] \in Nat
      <4>1. pipe[t][x] \in Nat /\ written[t] \in Nat
        OBVIOUS
      <4> HIDE DEF TypeOK
      <4> QED BY <4>1, Room
    <3>2. written[t] < MaxOutput
      BY <1>2 DEF WriteChunk
    <3> QED BY <3>1, <3>2
  <2>2. written' \in [Terms -> 0..MaxOutput]
    BY <1>2, <2>1 DEF WriteChunk
  <2>3. pipe' \in [Terms -> [Sources -> 0..MaxOutput]]
    BY <1>2, <2>1 DEF WriteChunk
  <2> QED BY <1>2, <2>2, <2>3 DEF WriteChunk
<1>3. ASSUME NEW x \in Sources, ReadPipe(t, x) PROVE TypeOK'
  <2>1. pipe[t][x] - 1 \in 0..MaxOutput
    BY <1>3 DEF ReadPipe
  <2>2. pipe' \in [Terms -> [Sources -> 0..MaxOutput]]
    BY <1>3, <2>1 DEF ReadPipe
  <2>3. buffer' \in [Terms -> Seq(Sources)]
    BY <1>3, AppendProperties DEF ReadPipe
  <2> QED BY <1>3, <2>2, <2>3 DEF ReadPipe
<1>4. ASSUME NEW x \in Sources, ReaderEnds(t, x) PROVE TypeOK'
  <2>1. reader' \in [Terms -> [Sources -> {"none", "reading", "ended", "failed"}]]
    <3>1. PICK how \in {"ended", "failed"} : reader' = [reader EXCEPT ![t][x] = how]
      BY <1>4 DEF ReaderEnds
    <3> QED BY <3>1
  <2> QED BY <1>4, <2>1 DEF ReaderEnds
<1>5. CASE WaiterJoins(t)
  BY <1>5 DEF WaiterJoins
<1>7. CASE WaiterReaps(t)
  BY <1>7 DEF WaiterReaps
<1>8. CASE WaiterPublishes(t)
  BY <1>8 DEF WaiterPublishes
<1>6. CASE WaiterNotifies(t)
  <2>1. call' \in [op : {"idle", "drain", "wait", "asleep", "woken"},
                   term : 0..MaxTerminals, seen : 0..MaxOutput]
    BY <1>6 DEF WaiterNotifies, Calling
  <2> QED BY <1>6, <2>1 DEF WaiterNotifies
<1> QED BY <1>1, <1>2, <1>3, <1>4, <1>5, <1>6, <1>7, <1>8 DEF ProcessStep

-----------------------------------------------------------------------------
(* The parts of the invariant.                                             *)

\* A step that leaves output and cursors alone keeps the counts.
LEMMA CountFrame ==
    ASSUME CountInv, CloneInv,
           UNCHANGED <<written, buffer, pipe, call, forwarded_len, exit_emitted,
                       exits_shown>>
    PROVE  CountInv' /\ CloneInv'
BY DEF CountInv, CloneInv, Behind, Marked

\* So does one that only changes the call, to anything but a drain.
LEMMA CallFrame ==
    ASSUME CountInv, UNCHANGED <<written, buffer, pipe, forwarded_len, exit_emitted,
                                 exits_shown>>,
           call'.op # "drain"
    PROVE  CountInv' /\ CloneInv'
BY DEF CountInv, CloneInv, Behind, Marked

\* A drain takes a clone of the buffer, and its cursor from the clone.
LEMMA CountDrain ==
    ASSUME TypeOK, CountInv, CloneInv, NEW t \in Terms,
           (\E s \in Sessions : DrainBytes(s, t)) \/ DrainStatus(t)
    PROVE  CountInv' /\ CloneInv'
<1> USE DEF sessionVars, termVars, viewVars, childVars, threadVars
<1>1. CASE \E s \in Sessions : DrainBytes(s, t)
  <2>1. /\ call' = Calling("drain", t, Len(buffer[t]))
        /\ UNCHANGED <<written, buffer, pipe, forwarded_len, exit_emitted, exits_shown>>
    BY <1>1 DEF DrainBytes
  <2>2. Len(buffer[t]) \in Int
    BY DEF TypeOK
  <2> QED BY <2>1, <2>2 DEF CountInv, CloneInv, Behind, Marked, Calling
<1>2. CASE DrainStatus(t)
  <2>1. /\ forwarded_len' = [forwarded_len EXCEPT ![t] = call.seen]
        /\ UNCHANGED <<written, buffer, pipe>> /\ call' = Idle
        /\ call.op = "drain" /\ call.term = t
    BY <1>2 DEF DrainStatus, Forwarded
  <2>2. ASSUME NEW u \in Terms PROVE forwarded_len'[u] <= Len(buffer'[u])
    BY <2>1 DEF CountInv, CloneInv, TypeOK
  <2>3. ASSUME NEW u \in Terms PROVE Marked(u)'
    <3>1. Marked(u)
      BY DEF CountInv
    <3>2. CASE exit[t] /\ t \notin exit_emitted
      <4>1. /\ exit_emitted' = exit_emitted \cup {t}
            /\ exits_shown' = [exits_shown EXCEPT ![t] = exits_shown[t] + 1]
        BY <1>2, <3>2 DEF DrainStatus
      <4>2. CASE u = t
        BY <3>1, <3>2, <4>1, <4>2 DEF Marked, TypeOK
      <4>3. CASE u # t
        BY <3>1, <4>1, <4>3 DEF Marked, TypeOK
      <4> QED BY <4>2, <4>3
    <3>3. CASE ~(exit[t] /\ t \notin exit_emitted)
      <4>1. UNCHANGED <<exit_emitted, exits_shown>>
        BY <1>2, <3>3 DEF DrainStatus
      <4> QED BY <3>1, <4>1 DEF Marked
    <3> QED BY <3>2, <3>3
  <2>4. ASSUME NEW u \in Terms PROVE Behind(u)'
    BY <2>1 DEF CountInv, Behind
  <2> QED BY <2>1, <2>2, <2>3, <2>4 DEF CountInv, CloneInv, Idle
<1> QED BY <1>1, <1>2

\* A chunk is written to a pipe, and read from there into the buffer.
LEMMA CountChunk ==
    ASSUME TypeOK, CountInv, CloneInv, NEW t \in Terms, NEW x \in Sources,
           WriteChunk(t, x) \/ ReadPipe(t, x)
    PROVE  CountInv' /\ CloneInv'
<1>1. /\ pipe \in [Terms -> [Sources -> 0..MaxOutput]] /\ written \in [Terms -> 0..MaxOutput]
      /\ buffer \in [Terms -> Seq(Sources)] /\ forwarded_len \in [Terms -> 0..MaxOutput]
      /\ call.seen \in 0..MaxOutput
  BY DEF TypeOK
<1>2. UNCHANGED <<call, forwarded_len, exit_emitted, exits_shown>>
  BY DEF WriteChunk, ReadPipe, termVars, viewVars
<1>3. ASSUME NEW u \in Terms
      PROVE  Len(buffer[u]) \in Nat /\ Len(buffer'[u]) \in Nat /\ Len(buffer[u]) <= Len(buffer'[u])
  <2>1. CASE WriteChunk(t, x)
    BY <1>1, <2>1 DEF WriteChunk, threadVars
  <2>2. CASE ReadPipe(t, x)
    <3>1. buffer' = [buffer EXCEPT ![t] = Append(buffer[t], x)]
      BY <2>2 DEF ReadPipe
    <3>2. Len(Append(buffer[t], x)) = Len(buffer[t]) + 1
      BY <1>1, AppendProperties
    <3> QED BY <1>1, <3>1, <3>2
  <2> QED BY <2>1, <2>2
<1>4. ASSUME NEW u \in Terms PROVE Behind(u)'
  <2>1. /\ pipe[u]["out"] \in Nat /\ pipe[u]["err"] \in Nat /\ written[u] \in Nat
        /\ Len(buffer[u]) \in Nat
    BY <1>1, Bounds
  <2>2. written[u] = Len(buffer[u]) + pipe[u]["out"] + pipe[u]["err"]
    BY DEF CountInv, Behind
  <2>3. CASE u # t
    <3>1. written'[u] = written[u] /\ buffer'[u] = buffer[u] /\ pipe'[u] = pipe[u]
      BY <1>1, <2>3 DEF WriteChunk, ReadPipe, threadVars, childVars
    <3> QED BY <2>2, <3>1 DEF Behind
  <2>4. CASE u = t /\ WriteChunk(t, x)
    <3>1. written'[t] = written[t] + 1 /\ buffer' = buffer
      BY <1>1, <2>4 DEF WriteChunk, threadVars
    <3>2. pipe'[t] = [pipe[t] EXCEPT ![x] = pipe[t][x] + 1]
      BY <1>1, <2>4 DEF WriteChunk
    <3>3. \/ pipe'[t]["out"] = pipe[t]["out"] + 1 /\ pipe'[t]["err"] = pipe[t]["err"]
          \/ pipe'[t]["err"] = pipe[t]["err"] + 1 /\ pipe'[t]["out"] = pipe[t]["out"]
      BY <1>1, <3>2, Bounds
    <3>5. written'[t] = Len(buffer'[t]) + pipe'[t]["out"] + pipe'[t]["err"]
      <4>1. /\ pipe[t]["out"] \in Nat /\ pipe[t]["err"] \in Nat /\ written[t] \in Nat
            /\ Len(buffer[t]) \in Nat
            /\ written[t] = Len(buffer[t]) + pipe[t]["out"] + pipe[t]["err"]
        BY <2>1, <2>2, <2>4
      <4>2. CASE pipe'[t]["out"] = pipe[t]["out"] + 1 /\ pipe'[t]["err"] = pipe[t]["err"]
        BY <4>1, <4>2, <3>1
      <4>3. CASE pipe'[t]["err"] = pipe[t]["err"] + 1 /\ pipe'[t]["out"] = pipe[t]["out"]
        BY <4>1, <4>3, <3>1
      <4> QED BY <4>2, <4>3, <3>3
    <3> QED BY <2>4, <3>5 DEF Behind
  <2>5. CASE u = t /\ ReadPipe(t, x)
    <3>1. written' = written /\ buffer'[t] = Append(buffer[t], x)
      BY <1>1, <2>5 DEF ReadPipe, childVars
    <3>2. pipe'[t] = [pipe[t] EXCEPT ![x] = pipe[t][x] - 1]
      BY <1>1, <2>5 DEF ReadPipe
    <3>3. \/ pipe'[t]["out"] = pipe[t]["out"] - 1 /\ pipe'[t]["err"] = pipe[t]["err"]
          \/ pipe'[t]["err"] = pipe[t]["err"] - 1 /\ pipe'[t]["out"] = pipe[t]["out"]
      BY <1>1, <3>2, Bounds
    <3>4. Len(buffer'[t]) = Len(buffer[t]) + 1
      BY <1>1, <3>1, AppendProperties
    <3>6. written'[t] = written[t]
      BY <3>1
    <3>5. written'[t] = Len(buffer'[t]) + pipe'[t]["out"] + pipe'[t]["err"]
      <4>1. /\ pipe[t]["out"] \in Nat /\ pipe[t]["err"] \in Nat /\ written[t] \in Nat
            /\ Len(buffer[t]) \in Nat
            /\ written[t] = Len(buffer[t]) + pipe[t]["out"] + pipe[t]["err"]
        BY <2>1, <2>2, <2>5
      <4>2. CASE pipe'[t]["out"] = pipe[t]["out"] - 1 /\ pipe'[t]["err"] = pipe[t]["err"]
        BY <4>1, <4>2, <3>4, <3>6
      <4>3. CASE pipe'[t]["err"] = pipe[t]["err"] - 1 /\ pipe'[t]["out"] = pipe[t]["out"]
        BY <4>1, <4>3, <3>4, <3>6, SMTT(30)
      <4> QED BY <4>2, <4>3, <3>3
    <3> QED BY <2>5, <3>5 DEF Behind
  <2> QED BY <2>3, <2>4, <2>5
<1>5. ASSUME NEW u \in Terms PROVE Marked(u)' /\ forwarded_len'[u] <= Len(buffer'[u])
  <2>1. Marked(u) /\ forwarded_len[u] <= Len(buffer[u]) /\ forwarded_len[u] \in Nat
    BY <1>1, Bounds DEF CountInv
  <2> QED BY <1>2, <1>3, <2>1 DEF Marked
<1>6. CloneInv'
  <2>1. call.seen \in Nat
    BY <1>1, Bounds
  <2> QED BY <1>2, <1>3, <2>1 DEF CloneInv
<1> QED BY <1>4, <1>5, <1>6 DEF CountInv

\* Every step keeps the counts.
LEMMA CountStep ==
    ASSUME TypeOK, CountInv, CloneInv, [Next]_vars
    PROVE  CountInv' /\ CloneInv'
<1> USE DEF sessionVars, termVars, viewVars, childVars, threadVars
<1>1. CASE \E s \in Sessions : Create(s) \/ Close(s) \/ Reenter(s, "full")
                                \/ Reenter(s, "none")
  BY <1>1, CountFrame DEF Create, Close, Reenter
<1>2. CASE \E s \in Sessions, t \in Terms : AskKill(s, t) \/ Release(s, t)
  BY <1>2, CountFrame DEF AskKill, Release
<1>3. CASE \E s \in Sessions, t \in Terms : WaitStart(s, t)
  BY <1>3, CallFrame DEF WaitStart, Calling
<1>4. CASE \E t \in Terms : Kill(t)
  BY <1>4, CountFrame DEF Kill
<1>5. CASE \E t \in Terms : WaitLook(t)
  BY <1>5, CallFrame DEF WaitLook, Calling, Idle
<1>6. CASE \E t \in Terms : Fork(t) \/ DescendantExits(t) \/ ChildExits(t)
  BY <1>6, CountFrame DEF Fork, DescendantExits, ChildExits, Die
<1>7. CASE \E t \in Terms, x \in Sources : ReaderEnds(t, x)
  BY <1>7, CountFrame DEF ReaderEnds
<1>8. CASE \E t \in Terms : WaiterJoins(t) \/ WaiterReaps(t) \/ WaiterPublishes(t)
  BY <1>8, CountFrame DEF WaiterJoins, WaiterReaps, WaiterPublishes
<1>9. CASE \E t \in Terms : WaiterNotifies(t)
  <2>1. /\ UNCHANGED <<written, buffer, pipe, forwarded_len, exit_emitted, exits_shown>>
        /\ call' = call \/ call'.op = "woken"
    BY <1>9 DEF WaiterNotifies, Calling
  <2>2. CASE call' = call
    BY <2>1, <2>2, CountFrame
  <2> QED BY <2>1, <2>2, CallFrame
<1>10. CASE UNCHANGED vars
  BY <1>10, CountFrame DEF vars
<1> QED BY <1>1, <1>2, <1>3, <1>4, <1>5, <1>6, <1>7, <1>8, <1>9, <1>10, CountDrain, CountChunk
        DEF Next, BridgeStep, ProcessStep

\* The bridge leaves the threads alone, except that it starts those of a new
\* terminal.
LEMMA ThreadBridge ==
    ASSUME TypeOK, TableInv, ThreadInv, BridgeStep
    PROVE  ThreadInv'
<1> USE Bounds DEF TypeOK, ThreadInv, Joined, HasWriter, sessionVars, termVars, viewVars,
                   childVars, threadVars
<1>1. ASSUME UNCHANGED <<child, descendant, pipe, reader, waiter, exit>>
      PROVE  ThreadInv'
  BY <1>1
<1>2. ASSUME NEW s \in Sessions, Create(s) PROVE ThreadInv'
  <2>1. PICK t \in Terms : t = terminal_seq + 1
    BY <1>2 DEF Create, Terms
  <2>2. child[t] = "none" /\ waiter[t] = "none" /\ ~exit[t]
    <3>1. t > terminal_seq
      BY <2>1
    <3>2. child[t] = "none"
      BY <3>1 DEF TableInv
    <3> QED BY <3>2
  <2>3. /\ child' = [child EXCEPT ![t] = "running"]
        /\ reader' = [reader EXCEPT ![t] = [x \in Sources |-> "reading"]]
        /\ waiter' = [waiter EXCEPT ![t] = "joining"]
        /\ UNCHANGED <<descendant, pipe, exit>>
    BY <1>2, <2>1 DEF Create, NextSeq
  <2> QED BY <2>2, <2>3
<1>3. CASE \E s \in Sessions : Close(s) \/ Reenter(s, "full") \/ Reenter(s, "none")
  BY <1>1, <1>3 DEF Close, Reenter
<1>4. ASSUME NEW s \in Sessions, NEW t \in Terms,
             AskKill(s, t) \/ Release(s, t) \/ DrainBytes(s, t) \/ WaitStart(s, t)
      PROVE  ThreadInv'
  BY <1>1, <1>4 DEF AskKill, Release, DrainBytes, WaitStart
<1>5. ASSUME NEW t \in Terms, Kill(t) \/ DrainStatus(t) \/ WaitLook(t)
      PROVE  ThreadInv'
  BY <1>1, <1>5 DEF Kill, DrainStatus, WaitLook
<1> QED BY <1>2, <1>3, <1>4, <1>5 DEF BridgeStep

\* A process does not come back, so a pipe that was read to its end stays empty.
LEMMA ThreadProcess ==
    ASSUME TypeOK, ThreadInv, NEW t \in Terms, ProcessStep(t)
    PROVE  ThreadInv'
<1> USE Bounds DEF TypeOK, ThreadInv, Joined, HasWriter, sessionVars, termVars, viewVars,
                   childVars, threadVars
<1>1. CASE Fork(t)
  BY <1>1 DEF Fork
<1>2. CASE DescendantExits(t)
  BY <1>2 DEF DescendantExits
<1>3. CASE ChildExits(t)
  BY <1>3 DEF ChildExits, Die
<1>4. ASSUME NEW x \in Sources, WriteChunk(t, x) PROVE ThreadInv'
  <2>1. UNCHANGED <<child, descendant, reader, waiter, exit>> /\ HasWriter(t)
    BY <1>4 DEF WriteChunk
  <2>2. \A u \in Terms, y \in Sources : u # t => pipe'[u][y] = pipe[u][y]
    BY <1>4 DEF WriteChunk
  <2>3. \A y \in Sources : reader[t][y] # "ended"
    BY <2>1
  <2> HIDE DEF TypeOK
  <2> QED BY <2>1, <2>2, <2>3
<1>5. ASSUME NEW x \in Sources, ReadPipe(t, x) PROVE ThreadInv'
  <2>1. UNCHANGED <<child, descendant, reader, waiter, exit>> /\ reader[t][x] = "reading"
    BY <1>5 DEF ReadPipe
  <2>2. \A u \in Terms, y \in Sources : u # t \/ y # x => pipe'[u][y] = pipe[u][y]
    BY <1>5 DEF ReadPipe
  <2> HIDE DEF TypeOK
  <2> QED BY <2>1, <2>2
<1>6. ASSUME NEW x \in Sources, ReaderEnds(t, x) PROVE ThreadInv'
  <2>1. UNCHANGED <<child, descendant, pipe, waiter, exit>>
    BY <1>6 DEF ReaderEnds
  <2>2. PICK how \in {"ended", "failed"} :
           /\ reader' = [reader EXCEPT ![t][x] = how]
           /\ how = "ended" => pipe[t][x] = 0 /\ ~HasWriter(t)
    BY <1>6 DEF ReaderEnds
  <2>3. reader \in [Terms -> [Sources -> {"none", "reading", "ended", "failed"}]]
    OBVIOUS
  <2> HIDE DEF TypeOK
  <2>4. \A u \in Terms, y \in Sources :
           reader'[u][y] = IF u = t /\ y = x THEN how ELSE reader[u][y]
    BY <2>2, <2>3
  <2> QED BY <2>1, <2>2, <2>4, SMTT(30)
<1>7. CASE WaiterJoins(t)
  BY <1>7 DEF WaiterJoins
<1>8. CASE WaiterReaps(t)
  BY <1>8 DEF WaiterReaps
<1>9. CASE WaiterPublishes(t)
  BY <1>9 DEF WaiterPublishes
<1>10. CASE WaiterNotifies(t)
  BY <1>10 DEF WaiterNotifies
<1> QED BY <1>1, <1>2, <1>3, <1>4, <1>5, <1>6, <1>7, <1>8, <1>9, <1>10 DEF ProcessStep


\* The table of terminals follows the sequence counter; a record is emptied
\* when it goes or is replaced.
LEMMA TableStep ==
    ASSUME TypeOK, TableInv, [Next]_vars
    PROVE  TableInv'
<1> USE DEF sessionVars, termVars, viewVars, childVars, threadVars
<1>1. ASSUME UNCHANGED <<sessionVars, released>>,
             \A t \in Terms : child'[t] = "none" <=> child[t] = "none"
      PROVE  TableInv'
  BY <1>1 DEF TableInv
<1>2. ASSUME UNCHANGED <<sessionVars, released, child>> PROVE TableInv'
  BY <1>1, <1>2
<1>3. ASSUME NEW s \in Sessions, Create(s) PROVE TableInv'
  <2>1. PICK n \in Terms : n = terminal_seq + 1
    BY <1>3, Bounds DEF Create, Terms, TypeOK
  <2>2. /\ terminal_seq' = n /\ released' = released
        /\ terminals' = [terminals EXCEPT ![s] = terminals[s] \cup {n}]
        /\ home' = [home EXCEPT ![n] = s]
        /\ child' = [child EXCEPT ![n] = "running"]
        /\ replay'[s] # "absent"
        /\ \A r \in Sessions : r # s => replay'[r] = replay[r]
    BY <1>3, <2>1 DEF Create, NextSeq, TypeOK
  <2>3. \A t \in Terms : t > n <=> t > terminal_seq /\ t # n
    BY <2>1, Bounds DEF TypeOK
  <2>4. \A t \in Terms : child'[t] = "none" <=> t > n
    BY <2>2, <2>3 DEF TableInv, TypeOK
  <2>5. \A t \in Terms : t > n => t \notin released'
    BY <2>2, <2>3 DEF TableInv
  <2>6. ASSUME NEW r \in Sessions, NEW t \in terminals'[r]
        PROVE  r = home'[t] /\ t <= n
    <3>1. CASE r = s /\ t = n
      BY <2>1, <2>2, <3>1, Bounds DEF TypeOK
    <3>2. CASE ~(r = s /\ t = n)
      <4>1. t \in terminals[r] /\ t \in Terms
        BY <2>2, <2>6, <3>2 DEF TypeOK
      <4>2. r = home[t] /\ t <= terminal_seq
        BY <4>1 DEF TableInv
      <4>3. t # n /\ t <= n
        <5>1. t \in Int /\ terminal_seq \in Int
          BY <4>1, Bounds DEF TypeOK
        <5> QED BY <2>1, <4>2, <5>1
      <4> QED BY <2>2, <4>1, <4>2, <4>3 DEF TypeOK
    <3> QED BY <3>1, <3>2
  <2>7. \A r \in Sessions : replay'[r] = "absent" => terminals'[r] = {}
    BY <2>2 DEF TableInv, TypeOK
  <2> QED BY <2>2, <2>4, <2>5, <2>6, <2>7 DEF TableInv
<1>4. ASSUME NEW s \in Sessions, Close(s) \/ Reenter(s, "full") \/ Reenter(s, "none")
      PROVE  TableInv'
  <2>1. /\ terminals' = [terminals EXCEPT ![s] = {}]
        /\ UNCHANGED <<terminal_seq, home, released, child>>
        /\ \A r \in Sessions : r # s => replay'[r] = replay[r]
    BY <1>4 DEF Close, Reenter, TypeOK
  <2>2. \A r \in Sessions : terminals'[r] = IF r = s THEN {} ELSE terminals[r]
    BY <2>1 DEF TypeOK
  <2> QED BY <2>1, <2>2 DEF TableInv
<1>5. ASSUME NEW s \in Sessions, NEW t \in Terms, Release(s, t) PROVE TableInv'
  <2>1. UNCHANGED <<sessionVars, child>> /\ released' = released \cup {t} /\ t \in terminals[s]
    BY <1>5 DEF Release, Live
  <2>2. t <= terminal_seq /\ terminal_seq \in Int /\ t \in Int
    BY <2>1, Bounds DEF TableInv, TypeOK
  <2>3. ~(t > terminal_seq)
    BY <2>2
  <2> QED BY <2>1, <2>3 DEF TableInv
<1>6. ASSUME NEW s \in Sessions, NEW t \in Terms,
             AskKill(s, t) \/ DrainBytes(s, t) \/ WaitStart(s, t)
      PROVE  TableInv'
  BY <1>2, <1>6 DEF AskKill, DrainBytes, WaitStart
<1>7. ASSUME NEW t \in Terms, Kill(t) \/ DrainStatus(t) \/ WaitLook(t) PROVE TableInv'
  BY <1>2, <1>7 DEF Kill, DrainStatus, WaitLook
<1>8. ASSUME NEW t \in Terms, ChildExits(t) \/ WaiterReaps(t) PROVE TableInv'
  <2>1. UNCHANGED <<sessionVars, released>>
    BY <1>8 DEF ChildExits, Die, WaiterReaps
  <2>2. \A u \in Terms : child'[u] = "none" <=> child[u] = "none"
    BY <1>8 DEF ChildExits, Die, WaiterReaps, TypeOK
  <2> QED BY <1>1, <2>1, <2>2
<1>9. ASSUME NEW t \in Terms,
             \/ Fork(t) \/ DescendantExits(t)
             \/ \E x \in Sources : WriteChunk(t, x) \/ ReadPipe(t, x) \/ ReaderEnds(t, x)
             \/ WaiterJoins(t) \/ WaiterPublishes(t) \/ WaiterNotifies(t)
      PROVE  TableInv'
  BY <1>2, <1>9 DEF Fork, DescendantExits, WriteChunk, ReadPipe, ReaderEnds, WaiterJoins,
                    WaiterPublishes, WaiterNotifies
<1>10. CASE UNCHANGED vars
  BY <1>2, <1>10 DEF vars
<1> QED BY <1>3, <1>4, <1>5, <1>6, <1>7, <1>8, <1>9, <1>10 DEF Next, BridgeStep, ProcessStep

-----------------------------------------------------------------------------
(* What the client is shown.                                               *)

\* The beginning of a buffer that grows does not change.
LEMMA PrefixStays ==
    ASSUME NEW S, NEW q \in Seq(S), NEW x \in S, NEW n \in 0..Len(q)
    PROVE  SubSeq(Append(q, x), 1, n) = SubSeq(q, 1, n)
<1>1. /\ Append(q, x) \in Seq(S) /\ Len(Append(q, x)) = Len(q) + 1 /\ Len(q) \in Nat
      /\ \A i \in 1..Len(q) : Append(q, x)[i] = q[i]
  BY AppendProperties
<1>2. \A i \in 1..n : q[i] \in S /\ Append(q, x)[i] = q[i]
  BY <1>1, ElementOfSeq
<1>3. /\ SubSeq(q, 1, n) \in Seq(S) /\ Len(SubSeq(q, 1, n)) = n
      /\ \A i \in 1..n : SubSeq(q, 1, n)[i] = q[i]
  BY <1>1, <1>2, SubSeqProperties
<1>4. /\ SubSeq(Append(q, x), 1, n) \in Seq(S) /\ Len(SubSeq(Append(q, x), 1, n)) = n
      /\ \A i \in 1..n : SubSeq(Append(q, x), 1, n)[i] = q[i]
  BY <1>1, <1>2, SubSeqProperties
<1> QED BY <1>3, <1>4, SeqEqual

\* A chunk that begins at the cursor prolongs what was shown without a gap.
LEMMA ChunkContinues ==
    ASSUME NEW S, NEW q \in Seq(S), NEW n \in 0..Len(q)
    PROVE  SubSeq(q, 1, n) \o SubSeq(q, n + 1, Len(q)) = SubSeq(q, 1, Len(q))
<1>1. Len(q) \in Nat
  OBVIOUS
<1>2. 1 \in 1 .. Len(q) + 1 /\ n \in 1 - 1 .. Len(q) /\ Len(q) \in n .. Len(q)
  BY <1>1
<1> QED BY <1>2, ConcatAdjacentSubSeq


\* A drain appends the chunk from the cursor on and moves the cursor to the end
\* of its clone; the buffer grows at its end.
LEMMA DisplayStep ==
    ASSUME TypeOK, CountInv, CloneInv, DisplayInv, [Next]_vars
    PROVE  DisplayInv'
<1> USE DEF sessionVars, termVars, viewVars, childVars, threadVars
<1>1. ASSUME UNCHANGED <<shown, buffer, call, forwarded_len>> PROVE DisplayInv'
  BY <1>1 DEF DisplayInv, Cursor
<1>2. ASSUME UNCHANGED <<shown, buffer, forwarded_len>>, call.op # "drain",
             call'.op # "drain"
      PROVE  DisplayInv'
  BY <1>2 DEF DisplayInv, Cursor
<1>3. ASSUME NEW s \in Sessions, NEW t \in Terms, DrainBytes(s, t) PROVE DisplayInv'
  <2>1. /\ call = Idle /\ call' = Calling("drain", t, Len(buffer[t]))
        /\ shown' = [shown EXCEPT ![t] =
                        shown[t] \o SubSeq(buffer[t], forwarded_len[t] + 1, Len(buffer[t]))]
        /\ UNCHANGED <<buffer, forwarded_len>>
    BY <1>3 DEF DrainBytes
  <2>2. ASSUME NEW u \in Terms PROVE shown[u] = SubSeq(buffer[u], 1, forwarded_len[u])
    BY <2>1 DEF DisplayInv, Cursor, Idle
  <2>3. forwarded_len[t] \in 0..Len(buffer[t]) /\ buffer[t] \in Seq(Sources)
    BY Bounds DEF CountInv, TypeOK
  <2>4. shown'[t] = SubSeq(buffer[t], 1, Len(buffer[t]))
    <3>1. shown'[t] = shown[t] \o SubSeq(buffer[t], forwarded_len[t] + 1, Len(buffer[t]))
      BY <2>1 DEF TypeOK
    <3> QED BY <2>2, <2>3, <3>1, ChunkContinues
  <2>5. ASSUME NEW u \in Terms, u # t PROVE shown'[u] = shown[u]
    BY <2>1, <2>5 DEF TypeOK
  <2>6. \A u \in Terms : Cursor(u)' = IF u = t THEN Len(buffer[t]) ELSE forwarded_len[u]
    BY <2>1 DEF Cursor, Calling
  <2> QED BY <2>1, <2>2, <2>4, <2>5, <2>6 DEF DisplayInv
<1>4. ASSUME NEW t \in Terms, DrainStatus(t) PROVE DisplayInv'
  <2>1. /\ forwarded_len' = [forwarded_len EXCEPT ![t] = call.seen]
        /\ UNCHANGED <<shown, buffer>> /\ call' = Idle
        /\ call.op = "drain" /\ call.term = t
    BY <1>4 DEF DrainStatus, Forwarded
  <2>2. \A u \in Terms : Cursor(u)' = Cursor(u)
    BY <2>1 DEF Cursor, Idle, TypeOK
  <2> QED BY <2>1, <2>2 DEF DisplayInv
<1>5. ASSUME NEW t \in Terms, NEW x \in Sources, ReadPipe(t, x) PROVE DisplayInv'
  <2>1. /\ buffer' = [buffer EXCEPT ![t] = Append(buffer[t], x)]
        /\ UNCHANGED <<shown, call, forwarded_len>>
    BY <1>5 DEF ReadPipe
  <2>2. \A u \in Terms : Cursor(u)' = Cursor(u)
    BY <2>1 DEF Cursor
  <2>3. ASSUME NEW u \in Terms PROVE shown'[u] = SubSeq(buffer'[u], 1, Cursor(u))
    <3>1. shown[u] = SubSeq(buffer[u], 1, Cursor(u))
      BY DEF DisplayInv
    <3>2. CASE u = t
      <4>1. buffer'[u] = Append(buffer[u], x) /\ buffer[u] \in Seq(Sources)
        BY <2>1, <3>2 DEF TypeOK
      <4>2. Cursor(u) \in 0..Len(buffer[u])
        <5>1. forwarded_len[u] \in Nat /\ call.seen \in Nat /\ Len(buffer[u]) \in Nat
          BY Bounds DEF TypeOK
        <5> QED BY <5>1 DEF Cursor, CountInv, CloneInv
      <4> QED BY <2>1, <3>1, <4>1, <4>2, PrefixStays
    <3>3. CASE u # t
      BY <2>1, <3>1, <3>3 DEF TypeOK
    <3> QED BY <3>2, <3>3
  <2> QED BY <2>2, <2>3 DEF DisplayInv
<1>6. CASE \E s \in Sessions : Create(s) \/ Close(s) \/ Reenter(s, "full")
                                \/ Reenter(s, "none")
  BY <1>1, <1>6 DEF Create, Close, Reenter
<1>7. CASE \E s \in Sessions, t \in Terms : AskKill(s, t) \/ Release(s, t)
  BY <1>1, <1>7 DEF AskKill, Release
<1>8. CASE \E s \in Sessions, t \in Terms : WaitStart(s, t)
  BY <1>2, <1>8 DEF WaitStart, Calling, Idle
<1>9. CASE \E t \in Terms : Kill(t)
  BY <1>1, <1>9 DEF Kill
<1>10. CASE \E t \in Terms : WaitLook(t)
  BY <1>2, <1>10 DEF WaitLook, Calling, Idle
<1>11. CASE \E t \in Terms : Fork(t) \/ DescendantExits(t) \/ ChildExits(t)
  BY <1>1, <1>11 DEF Fork, DescendantExits, ChildExits, Die
<1>12. CASE \E t \in Terms, x \in Sources : WriteChunk(t, x) \/ ReaderEnds(t, x)
  BY <1>1, <1>12 DEF WriteChunk, ReaderEnds
<1>13. CASE \E t \in Terms : WaiterJoins(t) \/ WaiterReaps(t) \/ WaiterPublishes(t)
  BY <1>1, <1>13 DEF WaiterJoins, WaiterReaps, WaiterPublishes
<1>14. CASE \E t \in Terms : WaiterNotifies(t)
  <2>1. /\ UNCHANGED <<shown, buffer, forwarded_len>>
        /\ call' = call \/ (call.op = "asleep" /\ call'.op = "woken")
    BY <1>14 DEF WaiterNotifies, Calling
  <2> QED BY <1>1, <1>2, <2>1
<1>15. CASE UNCHANGED vars
  BY <1>1, <1>15 DEF vars
<1> QED BY <1>3, <1>4, <1>5, <1>6, <1>7, <1>8, <1>9, <1>10, <1>11, <1>12, <1>13, <1>14,
           <1>15
        DEF Next, BridgeStep, ProcessStep

\* An exit that is known stays known, and is marked by a drain that sees it.
LEMMA MarkStep ==
    ASSUME TypeOK, MarkInv, [Next]_vars
    PROVE  MarkInv'
<1> USE DEF sessionVars, termVars, viewVars, childVars, threadVars
<1>1. ASSUME UNCHANGED <<exit_emitted, exit>> PROVE MarkInv'
  BY <1>1 DEF MarkInv
<1>2. ASSUME NEW t \in Terms, DrainStatus(t) PROVE MarkInv'
  <2>1. /\ exit' = exit
        /\ \/ exit_emitted' = exit_emitted
           \/ exit[t] /\ exit_emitted' = exit_emitted \cup {t}
    BY <1>2 DEF DrainStatus
  <2> QED BY <2>1 DEF MarkInv
<1>3. ASSUME NEW t \in Terms, WaiterPublishes(t) PROVE MarkInv'
  <2>1. exit_emitted' = exit_emitted /\ \A u \in Terms : exit[u] => exit'[u]
    BY <1>3 DEF WaiterPublishes, TypeOK
  <2> QED BY <2>1 DEF MarkInv, TypeOK
<1>4. CASE \E s \in Sessions : Create(s) \/ Close(s) \/ Reenter(s, "full")
                                \/ Reenter(s, "none")
  BY <1>1, <1>4 DEF Create, Close, Reenter
<1>5. CASE \E s \in Sessions, t \in Terms :
              AskKill(s, t) \/ Release(s, t) \/ DrainBytes(s, t) \/ WaitStart(s, t)
  BY <1>1, <1>5 DEF AskKill, Release, DrainBytes, WaitStart
<1>6. CASE \E t \in Terms : Kill(t) \/ WaitLook(t)
  BY <1>1, <1>6 DEF Kill, WaitLook
<1>7. CASE \E t \in Terms : Fork(t) \/ DescendantExits(t) \/ ChildExits(t)
  BY <1>1, <1>7 DEF Fork, DescendantExits, ChildExits, Die
<1>8. CASE \E t \in Terms, x \in Sources :
              WriteChunk(t, x) \/ ReadPipe(t, x) \/ ReaderEnds(t, x)
  BY <1>1, <1>8 DEF WriteChunk, ReadPipe, ReaderEnds
<1>9. CASE \E t \in Terms : WaiterJoins(t) \/ WaiterReaps(t) \/ WaiterNotifies(t)
  BY <1>1, <1>9 DEF WaiterJoins, WaiterReaps, WaiterNotifies
<1>10. CASE UNCHANGED vars
  BY <1>1, <1>10 DEF vars
<1> QED BY <1>2, <1>3, <1>4, <1>5, <1>6, <1>7, <1>8, <1>9, <1>10
        DEF Next, BridgeStep, ProcessStep

-----------------------------------------------------------------------------
(* Theorems.                                                               *)

\* The inductive invariant holds initially.
LEMMA InvInit == Init => IInv
<1> SUFFICES ASSUME Init PROVE IInv
  OBVIOUS
<1>1. CountInv /\ CloneInv
  BY Bounds DEF Init, CountInv, CloneInv, Behind, Marked, Idle
<1>2. ThreadInv
  BY DEF Init, ThreadInv, Joined
<1>3. TableInv
  BY Bounds DEF Init, TableInv
<1>4. DisplayInv
  <2>1. \A t \in Terms : shown[t] = <<>> /\ buffer[t] = <<>> /\ Cursor(t) = 0
    BY DEF Init, Cursor, Idle
  <2>2. SubSeq(<<>>, 1, 0) = <<>>
    BY SubSeqEmpty
  <2> QED BY <2>1, <2>2 DEF DisplayInv
<1>5. MarkInv
  BY DEF Init, MarkInv
<1> QED BY <1>1, <1>2, <1>3, <1>4, <1>5 DEF IInv

\* Every step keeps the types and the invariant.
LEMMA InvNext == TypeOK /\ IInv /\ [Next]_vars => TypeOK' /\ IInv'
<1> SUFFICES ASSUME TypeOK, IInv, [Next]_vars PROVE TypeOK' /\ IInv'
  OBVIOUS
<1> USE DEF IInv
<1>1. TypeOK'
  <2>1. CASE UNCHANGED vars
    BY <2>1 DEF vars, TypeOK, sessionVars, termVars, viewVars, childVars, threadVars
  <2> QED BY <2>1, BridgeTypes, ProcessTypes DEF Next
<1>2. ThreadInv'
  <2>1. CASE UNCHANGED vars
    BY <2>1 DEF vars, ThreadInv, Joined, HasWriter, childVars, threadVars
  <2> QED BY <2>1, ThreadBridge, ThreadProcess DEF Next
<1> QED BY <1>1, <1>2, CountStep, TableStep, DisplayStep, MarkStep

\* Every variable has its type, and the exit of a terminal is shown at most once.
THEOREM TypeCorrect == Spec => []TypeOK
<1>1. Init => TypeOK /\ IInv
  BY TypeInit, InvInit
<1> QED BY <1>1, InvNext, PTL DEF Spec

\* The inductive invariant.
THEOREM Invariance == Spec => []IInv
<1>1. Init => TypeOK /\ IInv
  BY TypeInit, InvInit
<1> QED BY <1>1, InvNext, PTL DEF Spec

\* An exit is published after the waiter joined readers that left nothing unread.
LEMMA Complete == TypeOK /\ IInv => ExitMeansComplete
<1> SUFFICES ASSUME TypeOK, IInv, NEW t \in Terms, exit[t],
                    \A x \in Sources : reader[t][x] # "failed"
             PROVE  Len(buffer[t]) = written[t]
  BY DEF ExitMeansComplete
<1>1. \A x \in Sources : reader[t][x] = "ended"
  BY DEF IInv, ThreadInv, Joined
<1>2. pipe[t]["out"] = 0 /\ pipe[t]["err"] = 0
  BY <1>1, Bounds DEF IInv, ThreadInv
<1>3. written[t] = Len(buffer[t]) + pipe[t]["out"] + pipe[t]["err"]
  BY DEF IInv, CountInv, Behind
<1>4. Len(buffer[t]) \in Nat
  BY DEF TypeOK
<1> QED BY <1>2, <1>3, <1>4

\* The exit that terminal/output, the display and wait_for_exit read follows the
\* join of both readers, and a reader ends when nothing can be read any more: so
\* all the output is in the buffer (ProcessTerminalExecutor::spawn).
THEOREM OutputIsComplete == Spec => []ExitMeansComplete
BY Complete, TypeCorrect, Invariance, PTL

-----------------------------------------------------------------------------
(* Reachable processes.                                                    *)

\* A step after which as many handles are kept, and no process runs that did
\* not run before, leaves every process reachable.
LEMMA ReachFrame ==
    ASSUME NoRunawayProcess, UNCHANGED <<terminals, home, released>>,
           \A t \in killed : t \in killed',
           \A t \in Terms : child'[t] = "running" => child[t] = "running"
    PROVE  NoRunawayProcess'
BY DEF NoRunawayProcess

\* A process runs on out of reach only when a record with terminals is replaced.
LEMMA ReachStep ==
    ASSUME MayReenter = {}, TypeOK, TableInv, NoRunawayProcess, [Next]_vars
    PROVE  NoRunawayProcess'
<1> USE DEF sessionVars, termVars, viewVars, childVars, threadVars
<1>1. ASSUME NEW s \in Sessions, Create(s) PROVE NoRunawayProcess'
  <2>1. PICK n \in Terms : n = terminal_seq + 1
    BY <1>1, Bounds DEF Create, Terms, TypeOK
  <2>2. /\ UNCHANGED <<released, killed>>
        /\ terminals' = [terminals EXCEPT ![s] = terminals[s] \cup {n}]
        /\ home' = [home EXCEPT ![n] = s]
        /\ child' = [child EXCEPT ![n] = "running"]
    BY <1>1, <2>1 DEF Create, NextSeq
  <2>3. n \notin released
    <3>1. n > terminal_seq
      BY <2>1, Bounds DEF TypeOK
    <3> QED BY <3>1 DEF TableInv
  <2>4. ASSUME NEW t \in Terms, child'[t] = "running", t \notin killed'
        PROVE  t \in terminals'[home'[t]] \ released'
    <3>1. CASE t = n
      BY <2>2, <2>3, <3>1 DEF TypeOK
    <3>2. CASE t # n
      <4>1. child[t] = "running" /\ home'[t] = home[t] /\ home[t] \in Sessions
        BY <2>2, <2>4, <3>2 DEF TypeOK
      <4>2. t \in terminals[home[t]] \ released
        BY <2>2, <2>4, <4>1 DEF NoRunawayProcess
      <4> QED BY <2>2, <4>1, <4>2 DEF TypeOK
    <3> QED BY <3>1, <3>2
  <2> QED BY <2>4 DEF NoRunawayProcess
<1>2. ASSUME NEW s \in Sessions, Close(s) PROVE NoRunawayProcess'
  <2>1. /\ terminals' = [terminals EXCEPT ![s] = {}]
        /\ killed' = killed \cup {t \in terminals[s] : child[t] = "running"}
        /\ UNCHANGED <<home, released, child>>
    BY <1>2 DEF Close, SigKill
  <2>2. ASSUME NEW t \in Terms, child[t] = "running", t \notin killed'
        PROVE  t \in terminals'[home[t]] \ released
    <3>1. t \notin killed /\ t \notin terminals[s]
      BY <2>1, <2>2
    <3>2. t \in terminals[home[t]] \ released
      BY <2>2, <3>1 DEF NoRunawayProcess
    <3>3. home[t] # s /\ home[t] \in Sessions
      BY <3>1, <3>2 DEF TypeOK
    <3> QED BY <2>1, <3>2, <3>3 DEF TypeOK
  <2> QED BY <2>1, <2>2 DEF NoRunawayProcess
<1>3. ASSUME NEW s \in Sessions, Reenter(s, "full") \/ Reenter(s, "none")
      PROVE  NoRunawayProcess'
  <2>1. replay[s] = "absent" /\ terminals' = [terminals EXCEPT ![s] = {}]
    BY <1>3 DEF Reenter
  <2>2. terminals[s] = {}
    BY <2>1 DEF TableInv
  <2>3. terminals' = terminals
    BY <2>1, <2>2 DEF TypeOK
  <2> QED BY <1>3, <2>3, ReachFrame DEF Reenter
<1>4. ASSUME NEW s \in Sessions, NEW u \in Terms, Release(s, u) PROVE NoRunawayProcess'
  <2>1. /\ released' = released \cup {u}
        /\ killed' = killed \cup {t \in {u} : child[t] = "running"}
        /\ UNCHANGED <<home, terminals, child>>
    BY <1>4 DEF Release, SigKill
  <2> QED BY <2>1 DEF NoRunawayProcess
<1>5. CASE \E s \in Sessions, t \in Terms :
              AskKill(s, t) \/ DrainBytes(s, t) \/ WaitStart(s, t)
  BY <1>5, ReachFrame DEF AskKill, DrainBytes, WaitStart
<1>6. CASE \E t \in Terms : Kill(t)
  BY <1>6, ReachFrame DEF Kill, SigKill
<1>7. CASE \E t \in Terms : DrainStatus(t) \/ WaitLook(t)
  BY <1>7, ReachFrame DEF DrainStatus, WaitLook
<1>8. CASE \E t \in Terms : Fork(t) \/ DescendantExits(t)
  BY <1>8, ReachFrame DEF Fork, DescendantExits
<1>9. ASSUME NEW t \in Terms, ChildExits(t) \/ WaiterReaps(t) PROVE NoRunawayProcess'
  <2>1. \A u \in Terms : child'[u] = "running" => child[u] = "running"
    BY <1>9 DEF ChildExits, Die, WaiterReaps, TypeOK
  <2>2. UNCHANGED <<terminals, home, released, killed>>
    BY <1>9 DEF ChildExits, Die, WaiterReaps
  <2> QED BY <2>1, <2>2, ReachFrame
<1>10. CASE \E t \in Terms, x \in Sources :
               WriteChunk(t, x) \/ ReadPipe(t, x) \/ ReaderEnds(t, x)
  BY <1>10, ReachFrame DEF WriteChunk, ReadPipe, ReaderEnds
<1>11. CASE \E t \in Terms : WaiterJoins(t) \/ WaiterPublishes(t) \/ WaiterNotifies(t)
  BY <1>11, ReachFrame DEF WaiterJoins, WaiterPublishes, WaiterNotifies
<1>12. CASE UNCHANGED vars
  BY <1>12, ReachFrame DEF vars
<1> QED BY <1>1, <1>2, <1>3, <1>4, <1>5, <1>6, <1>7, <1>8, <1>9, <1>10, <1>11, <1>12
        DEF Next, BridgeStep, ProcessStep

\* While no session that has a record is loaded or resumed again, a process is
\* killed or is a live terminal of its session's record.  (CloseKills shows what
\* happens otherwise.)
THEOREM ProcessesStayInReach == MayReenter = {} => (Spec => []NoRunawayProcess)
<1> SUFFICES ASSUME MayReenter = {} PROVE Spec => []NoRunawayProcess
  OBVIOUS
<1>1. Init => NoRunawayProcess
  BY DEF Init, NoRunawayProcess
<1>2. TypeOK /\ IInv /\ NoRunawayProcess /\ [Next]_vars => NoRunawayProcess'
  BY ReachStep DEF IInv
<1> QED BY <1>1, <1>2, TypeCorrect, Invariance, PTL DEF Spec

-----------------------------------------------------------------------------
(* The refinement of TerminalView.                                         *)

\* A drain brings the client up to date: what it was shown is then the buffer.
LEMMA DrainShowsAll ==
    ASSUME TypeOK, IInv, NEW s \in Sessions, NEW t \in Terms, DrainBytes(s, t)
    PROVE  shown' = [shown EXCEPT ![t] = buffer[t]]
<1>1. /\ shown' = [shown EXCEPT ![t] =
                      shown[t] \o SubSeq(buffer[t], forwarded_len[t] + 1, Len(buffer[t]))]
      /\ call = Idle
  BY DEF DrainBytes
<1>2. forwarded_len[t] \in 0..Len(buffer[t]) /\ buffer[t] \in Seq(Sources)
  BY Bounds DEF IInv, CountInv, TypeOK
<1>3. shown[t] = SubSeq(buffer[t], 1, forwarded_len[t])
  BY <1>1 DEF IInv, DisplayInv, Cursor, Idle
<1>4. shown[t] \o SubSeq(buffer[t], forwarded_len[t] + 1, Len(buffer[t])) = buffer[t]
  BY <1>2, <1>3, ChunkContinues, SubSeqFull
<1> QED BY <1>1, <1>4

\* A buffer that a chunk was appended to prolongs the buffer.
LEMMA AppendProlongs ==
    ASSUME NEW S, NEW q \in Seq(S), NEW x \in S
    PROVE  IsStrictPrefix(q, Append(q, x))
<1>1. Len(q) \in Nat /\ Len(Append(q, x)) = Len(q) + 1
  BY AppendProperties
<1>2. SubSeq(Append(q, x), 1, Len(q)) = SubSeq(q, 1, Len(q))
  BY <1>1, PrefixStays
<1> QED BY <1>1, <1>2 DEF IsPrefix, IsStrictPrefix

\* Every step of the bridge, its processes and its threads is a step of the view
\* or leaves it alone.
LEMMA ViewStep ==
    ASSUME TypeOK, IInv, [Next]_vars
    PROVE  [View!Next]_(View!vars)
<1> USE DEF sessionVars, termVars, viewVars, childVars, threadVars
<1>1. ASSUME UNCHANGED <<buffer, exit, shown, exits_shown>> PROVE UNCHANGED View!vars
  BY <1>1 DEF View!vars
<1>2. ASSUME NEW s \in Sessions, NEW t \in Terms, DrainBytes(s, t)
      PROVE  View!Show(t) \/ UNCHANGED View!vars
  <2>1. shown' = [shown EXCEPT ![t] = buffer[t]] /\ UNCHANGED <<buffer, exit, exits_shown>>
    BY <1>2, DrainShowsAll DEF DrainBytes
  <2>2. CASE shown[t] = buffer[t]
    <3>1. shown' = shown
      BY <2>1, <2>2 DEF TypeOK
    <3> QED BY <1>1, <2>1, <3>1
  <2>3. CASE shown[t] # buffer[t]
    BY <2>1, <2>3 DEF View!Show
  <2> QED BY <2>2, <2>3
<1>3. ASSUME NEW t \in Terms, DrainStatus(t) PROVE View!End(t) \/ UNCHANGED View!vars
  <2>1. UNCHANGED <<buffer, exit, shown>>
    BY <1>3 DEF DrainStatus
  <2>2. CASE exit[t] /\ t \notin exit_emitted
    <3>1. exits_shown' = [exits_shown EXCEPT ![t] = exits_shown[t] + 1]
      BY <1>3, <2>2 DEF DrainStatus
    <3>2. exits_shown[t] = 0
      BY <2>2 DEF IInv, CountInv, Marked
    <3>3. exits_shown' = [exits_shown EXCEPT ![t] = 1]
      BY <3>1, <3>2
    <3> QED BY <2>1, <2>2, <3>2, <3>3 DEF View!End
  <2>3. CASE ~(exit[t] /\ t \notin exit_emitted)
    BY <1>1, <1>3, <2>1, <2>3 DEF DrainStatus
  <2> QED BY <2>2, <2>3
<1>4. ASSUME NEW t \in Terms, NEW x \in Sources, ReadPipe(t, x) PROVE View!Capture(t)
  <2>1. /\ buffer' = [buffer EXCEPT ![t] = Append(buffer[t], x)]
        /\ UNCHANGED <<exit, shown, exits_shown>> /\ reader[t][x] = "reading"
    BY <1>4 DEF ReadPipe
  <2>2. ~exit[t]
    BY <2>1 DEF IInv, ThreadInv, Joined
  <2>3. buffer'[t] = Append(buffer[t], x) /\ buffer' = [buffer EXCEPT ![t] = buffer'[t]]
    BY <2>1 DEF TypeOK
  <2>4. View!IsStrictPrefix(buffer[t], buffer'[t])
    <3>1. IsStrictPrefix(buffer[t], buffer'[t])
      BY <2>3, AppendProlongs DEF TypeOK
    <3> QED BY <3>1 DEF IsPrefix, IsStrictPrefix, View!IsPrefix, View!IsStrictPrefix
  <2> QED BY <2>1, <2>2, <2>3, <2>4 DEF View!Capture
<1>5. ASSUME NEW t \in Terms, WaiterPublishes(t) PROVE View!Finish(t)
  <2>1. exit' = [exit EXCEPT ![t] = TRUE] /\ UNCHANGED <<buffer, shown, exits_shown>>
    BY <1>5 DEF WaiterPublishes
  <2>2. \A u \in Terms : exit'[u] <=> exit[u] \/ u = t
    BY <2>1 DEF TypeOK
  <2>3. {u \in Terms : exit'[u]} = {u \in Terms : exit[u]} \cup {t}
    BY <2>2
  <2> QED BY <2>1, <2>3 DEF View!Finish
<1>6. CASE \E s \in Sessions : Create(s) \/ Close(s) \/ Reenter(s, "full")
                                \/ Reenter(s, "none")
  BY <1>1, <1>6 DEF Create, Close, Reenter
<1>7. CASE \E s \in Sessions, t \in Terms : AskKill(s, t) \/ Release(s, t) \/ WaitStart(s, t)
  BY <1>1, <1>7 DEF AskKill, Release, WaitStart
<1>8. CASE \E t \in Terms : Kill(t) \/ WaitLook(t)
  BY <1>1, <1>8 DEF Kill, WaitLook
<1>9. CASE \E t \in Terms : Fork(t) \/ DescendantExits(t) \/ ChildExits(t)
  BY <1>1, <1>9 DEF Fork, DescendantExits, ChildExits, Die
<1>10. CASE \E t \in Terms, x \in Sources : WriteChunk(t, x) \/ ReaderEnds(t, x)
  BY <1>1, <1>10 DEF WriteChunk, ReaderEnds
<1>11. CASE \E t \in Terms : WaiterJoins(t) \/ WaiterReaps(t) \/ WaiterNotifies(t)
  BY <1>1, <1>11 DEF WaiterJoins, WaiterReaps, WaiterNotifies
<1>12. CASE UNCHANGED vars
  BY <1>1, <1>12 DEF vars
<1>13. CASE BridgeStep
  BY <1>2, <1>3, <1>6, <1>7, <1>8, <1>13 DEF BridgeStep, View!Next
<1>14. CASE \E t \in Terms : ProcessStep(t)
  BY <1>4, <1>5, <1>9, <1>10, <1>11, <1>14 DEF ProcessStep, View!Next
<1> QED BY <1>12, <1>13, <1>14 DEF Next

\* What drain_terminal_display sends of a process that runs on is a display of
\* TerminalView: chunks that each bring the client up to date, and one exit, sent
\* when all the output is captured.
THEOREM Refinement == Spec => ImplementsView
<1>1. Init => View!Init
  BY DEF Init, View!Init
<1>2. TypeOK /\ IInv /\ [Next]_vars => [View!Next]_(View!vars)
  BY ViewStep
<1> QED BY <1>1, <1>2, TypeCorrect, Invariance, PTL DEF Spec, ImplementsView, View!Spec

\* After a terminal's exit the display gets one chunk at most, and that is all the
\* output that was missing (drain_terminal_display, unless a pipe failed).
THEOREM LateChunks == Spec => LateChunkIsLast
<1>1. TypeOK /\ IInv /\ [Next]_vars =>
        [\A t \in Terms :
            exits_shown[t] = 1 /\ shown'[t] # shown[t] /\ (\A x \in Sources : reader[t][x] # "failed")
                => Len(shown'[t]) = written[t]]_vars
  <2> SUFFICES ASSUME TypeOK, IInv, [Next]_vars, NEW t \in Terms, exits_shown[t] = 1,
                      shown'[t] # shown[t], \A x \in Sources : reader[t][x] # "failed"
               PROVE  Len(shown'[t]) = written[t]
    OBVIOUS
  <2>1. exit[t]
    BY DEF IInv, CountInv, Marked, MarkInv
  <2>2. Len(buffer[t]) = written[t]
    BY <2>1, Complete DEF ExitMeansComplete
  <2>3. shown'[t] = buffer[t]
    <3>1. View!vars' # View!vars
      BY DEF View!vars
    <3>2. PICK u \in Terms : View!Capture(u) \/ View!Finish(u) \/ View!Show(u) \/ View!End(u)
      BY <3>1, ViewStep DEF View!Next
    <3>3. View!Show(u)
      BY <3>2 DEF View!Capture, View!Finish, View!End
    <3>4. shown' = [shown EXCEPT ![u] = buffer[u]]
      BY <3>3 DEF View!Show
    <3> QED BY <3>4 DEF TypeOK
  <2> QED BY <2>2, <2>3
<1> QED BY <1>1, TypeCorrect, Invariance, PTL DEF Spec, LateChunkIsLast

=============================================================================
