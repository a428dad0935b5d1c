---------------------------- MODULE MediationProofs ----------------------------
(***************************************************************************)
(* What a client shows that came back to its session, for every length of   *)
(* the history, every version and whatever the agent supports; what is kept  *)
(* of an output and what its chunks decode to, for every output.             *)
(***************************************************************************)
EXTENDS Reentry, BridgeValues, FiniteSetTheorems, SequenceTheorems,
    WellFoundedInduction, TLAPS

-----------------------------------------------------------------------------
(* Slices of a sequence.                                                   *)

\* A slice of a sequence.
LEMMA SliceIs ==
    ASSUME NEW S, NEW t \in Seq(S), NEW from \in 1 .. Len(t) + 1, NEW to \in from - 1 .. Len(t)
    PROVE  /\ SubSeq(t, from, to) \in Seq(S)
           /\ Len(SubSeq(t, from, to)) = to + 1 - from
           /\ \A i \in 1 .. to + 1 - from : SubSeq(t, from, to)[i] = t[from - 1 + i]
<1>1. Len(t) \in Nat /\ from \in Int /\ to \in Int
  OBVIOUS
<1>2. \A i \in from .. to : i \in 1 .. Len(t)
  BY <1>1
<1>3. \A i \in from .. to : t[i] \in S
  BY <1>2, ElementOfSeq
<1>4. PICK u : u = SubSeq(t, from, to)
  OBVIOUS
<1>5. /\ u \in Seq(S) /\ Len(u) = IF from <= to THEN to - from + 1 ELSE 0
      /\ \A i \in 1 .. to - from + 1 : u[i] = t[from + i - 1]
  BY <1>1, <1>3, <1>4, SubSeqProperties
<1>6. Len(u) = to + 1 - from
  BY <1>1, <1>5
<1>7. \A i \in 1 .. to + 1 - from :
         i \in 1 .. to - from + 1 /\ from + i - 1 = from - 1 + i
  BY <1>1
<1>8. \A i \in 1 .. to + 1 - from : u[i] = t[from - 1 + i]
  BY <1>5, <1>7
<1> QED BY <1>4, <1>5, <1>6, <1>8

\* The slices of a sequence with one more element.
LEMMA SlicesGrow ==
    ASSUME NEW S, NEW t \in Seq(S), NEW c \in S, NEW k \in 0 .. Len(t)
    PROVE  /\ SubSeq(Append(t, c), 1, k) = SubSeq(t, 1, k)
           /\ SubSeq(Append(t, c), k + 1, Len(t) + 1) = Append(SubSeq(t, k + 1, Len(t)), c)
           /\ SubSeq(t, 1, k) \in Seq(S) /\ SubSeq(t, k + 1, Len(t)) \in Seq(S)
<1>1. PICK g \in Seq(S), n \in Nat :
         /\ g = Append(t, c) /\ n = Len(t) /\ Len(g) = n + 1
         /\ \A i \in 1 .. n : g[i] = t[i]
         /\ g[n + 1] = c
  <2>1. /\ Append(t, c) \in Seq(S) /\ Len(t) \in Nat
        /\ Len(Append(t, c)) = Len(t) + 1
        /\ \A i \in 1 .. Len(t) : t[i] = Append(t, c)[i]
        /\ Append(t, c)[Len(t) + 1] = c
    OBVIOUS
  <2> QED BY <2>1
<1>2. /\ 1 \in 1 .. Len(t) + 1 /\ 1 \in 1 .. Len(g) + 1
      /\ k \in 1 - 1 .. Len(t) /\ k \in 1 - 1 .. Len(g) /\ k \in 0 .. n
      /\ k + 1 \in 1 .. Len(t) + 1 /\ k + 1 \in 1 .. Len(g) + 1
      /\ n \in k + 1 - 1 .. Len(t) /\ n + 1 \in k + 1 - 1 .. Len(g)
      /\ k + 1 - 1 = k /\ n + 1 - (k + 1) = n - k /\ n + 1 + 1 - (k + 1) = n - k + 1
      /\ \A i \in Nat : 1 - 1 + i = i
  <2>1. n \in Nat /\ k \in Nat /\ k <= n /\ Len(t) = n /\ Len(g) = n + 1
    BY <1>1
  <2> QED BY <2>1
<1>3. PICK u, v : u = SubSeq(g, 1, k) /\ v = SubSeq(t, 1, k)
  OBVIOUS
<1>4. PICK x, y : x = SubSeq(g, k + 1, n + 1) /\ y = SubSeq(t, k + 1, n)
  OBVIOUS
<1>5. u \in Seq(S) /\ Len(u) = k /\ \A i \in 1 .. k : u[i] = g[i]
  <2>1. /\ u \in Seq(S) /\ Len(u) = k + 1 - 1
        /\ \A i \in 1 .. k + 1 - 1 : u[i] = g[1 - 1 + i]
    BY <1>1, <1>2, <1>3, SliceIs
  <2> QED BY <1>2, <2>1
<1>6. v \in Seq(S) /\ Len(v) = k /\ \A i \in 1 .. k : v[i] = t[i]
  <2>1. /\ v \in Seq(S) /\ Len(v) = k + 1 - 1
        /\ \A i \in 1 .. k + 1 - 1 : v[i] = t[1 - 1 + i]
    BY <1>1, <1>2, <1>3, SliceIs
  <2> QED BY <1>2, <2>1
<1>7. x \in Seq(S) /\ Len(x) = n - k + 1 /\ \A i \in 1 .. n - k + 1 : x[i] = g[k + i]
  <2>1. /\ x \in Seq(S) /\ Len(x) = n + 1 + 1 - (k + 1)
        /\ \A i \in 1 .. n + 1 + 1 - (k + 1) : x[i] = g[k + 1 - 1 + i]
    BY <1>1, <1>2, <1>4, SliceIs
  <2> QED BY <1>2, <2>1
<1>8. y \in Seq(S) /\ Len(y) = n - k /\ \A i \in 1 .. n - k : y[i] = t[k + i]
  <2>1. /\ y \in Seq(S) /\ Len(y) = n + 1 - (k + 1)
        /\ \A i \in 1 .. n + 1 - (k + 1) : y[i] = t[k + 1 - 1 + i]
    BY <1>1, <1>2, <1>4, SliceIs
  <2> QED BY <1>2, <2>1
<1>9. u = v
  <2>1. \A i \in 1 .. k : u[i] = v[i]
    BY <1>1, <1>2, <1>5, <1>6
  <2> QED BY <1>5, <1>6, <2>1, SeqEqual
<1>10. PICK z : z = Append(y, c)
  OBVIOUS
<1>11. /\ z \in Seq(S) /\ Len(z) = n - k + 1
       /\ \A i \in 1 .. n - k : z[i] = y[i]
       /\ z[n - k + 1] = c
  BY <1>8, <1>10, AppendProperties
<1>12. x = z
  <2>1. ASSUME NEW i \in 1 .. n - k + 1 PROVE x[i] = z[i]
    <3>1. CASE i = n - k + 1
      <4>1. k + i = n + 1
        BY <1>1, <1>2, <3>1
      <4> QED BY <1>1, <1>7, <1>11, <3>1, <4>1
    <3>2. CASE i # n - k + 1
      <4>1. i \in 1 .. n - k /\ k + i \in 1 .. n
        BY <1>1, <1>2, <3>2
      <4> QED BY <1>1, <1>7, <1>8, <1>11, <4>1
    <3> QED BY <3>1, <3>2
  <2> QED BY <1>7, <1>11, <2>1, SeqEqual
<1> QED BY <1>1, <1>3, <1>4, <1>6, <1>8, <1>9, <1>10, <1>12

-----------------------------------------------------------------------------
(* Coming back.                                                            *)

Entries == {"a", "b"}

\* The history from the point where the client's view of it starts.
View == SubSeq(history, since + 1, Len(history))

ReentryTypes ==
    /\ history \in Seq(Entries) /\ shown \in Seq(Entries) /\ toReplay \in Seq(Entries)
    /\ since \in Nat /\ since <= Len(history)

\* While the history is replayed, what is shown and what is to come make up the
\* view; before and after that, what is shown is the view: a client that comes
\* back without a replay shows what it showed when it left.
ReentryInv ==
    /\ ReentryTypes
    /\ link = "replaying" => shown \o toReplay = View
    /\ link # "replaying" => shown = View /\ toReplay = <<>>

\* The whole history is the view that starts at its beginning; nothing is the
\* view that starts at its end.
LEMMA ViewEnds ==
    ASSUME NEW h \in Seq(Entries)
    PROVE  /\ SubSeq(h, 0 + 1, Len(h)) = h
           /\ SubSeq(h, Len(h) + 1, Len(h)) = <<>>
<1>1. SubSeq(h, 0 + 1, Len(h)) = h
  BY SubSeqFull
<1>2. Len(h) \in Nat /\ Len(h) < Len(h) + 1
  OBVIOUS
<1>3. SubSeq(h, Len(h) + 1, Len(h)) = <<>>
  BY <1>2, SubSeqEmpty
<1> QED BY <1>1, <1>3

\* A replayed entry moves from what is to come to what is shown.
LEMMA EntryMoves ==
    ASSUME NEW s \in Seq(Entries), NEW t \in Seq(Entries), t # <<>>
    PROVE  /\ Append(s, Head(t)) \o Tail(t) = s \o t
           /\ Append(s, Head(t)) \in Seq(Entries) /\ Tail(t) \in Seq(Entries)
<1>1. Head(t) \in Entries /\ Tail(t) \in Seq(Entries) /\ <<Head(t)>> \in Seq(Entries)
  BY HeadTailProperties
<1>2. Append(s, Head(t)) = s \o <<Head(t)>> /\ Append(s, Head(t)) \in Seq(Entries)
  BY <1>1, AppendIsConcat, AppendProperties
<1>3. (s \o <<Head(t)>>) \o Tail(t) = s \o (<<Head(t)>> \o Tail(t))
  BY <1>1, ConcatAssociative
<1>4. <<Head(t)>> \o Tail(t) = t
  <2> DEFINE u == <<Head(t)>> \o Tail(t)
  <2>1. Len(Tail(t)) = Len(t) - 1 /\ \A i \in 1 .. Len(t) - 1 : Tail(t)[i] = t[i + 1]
    BY HeadTailProperties
  <2>2. Len(<<Head(t)>>) = 1 /\ <<Head(t)>>[1] = t[1] /\ Len(t) \in Nat \ {0}
    OBVIOUS
  <2>3. /\ u \in Seq(Entries) /\ Len(u) = Len(t)
        /\ \A i \in 1 .. Len(t) : u[i] = IF i <= 1 THEN <<Head(t)>>[i] ELSE Tail(t)[i - 1]
    BY <1>1, <2>1, <2>2, ConcatProperties
  <2> HIDE DEF u
  <2>4. \A i \in 1 .. Len(t) : u[i] = t[i]
    BY <2>1, <2>2, <2>3
  <2>5. u = t
    BY <2>3, <2>4, SeqEqual
  <2> QED BY <2>5 DEF u
<1> QED BY <1>1, <1>2, <1>3, <1>4

\* A replay is what a client that wants the whole history gets, and only that.
LEMMA LoadIsForAll ==
    ASSUME NEW intent, clientSpeaks = 1 => intent = "full", Routed(intent) # "refused"
    PROVE  intent = "full" <=> Routed(intent) = "load"
BY DEF Routed, Route

\* Every step keeps the invariant.
LEMMA ReentryKeeps ==
    ASSUME ReentryInv, ReentryNext
    PROVE  ReentryInv'
<1>1. ReentryTypes /\ Len(history) \in Nat
  BY DEF ReentryInv, ReentryTypes
<1>2. ASSUME NEW x \in Entries, Said(x) PROVE ReentryInv'
  <2>1. /\ history' = Append(history, x) /\ shown' = Append(shown, x)
        /\ link = "open" /\ link' = "open" /\ toReplay' = toReplay /\ since' = since
    BY <1>2 DEF Said
  <2>2. /\ Append(history, x) \in Seq(Entries) /\ Append(shown, x) \in Seq(Entries)
        /\ Len(Append(history, x)) = Len(history) + 1
    BY <1>1, AppendProperties DEF ReentryTypes
  <2>3. View' = Append(View, x)
    <3>1. history \in Seq(Entries) /\ since \in 0 .. Len(history)
      BY <1>1 DEF ReentryTypes
    <3>2. SubSeq(Append(history, x), since + 1, Len(history) + 1)
            = Append(SubSeq(history, since + 1, Len(history)), x)
      BY <3>1, <1>2, SlicesGrow
    <3>3. View' = SubSeq(Append(history, x), since + 1, Len(history) + 1)
      BY <2>1, <2>2 DEF View
    <3> QED BY <3>2, <3>3 DEF View
  <2>4. ReentryTypes'
    BY <1>1, <2>1, <2>2 DEF ReentryTypes
  <2>5. shown = View /\ toReplay = <<>>
    BY <2>1 DEF ReentryInv
  <2> QED BY <2>1, <2>3, <2>4, <2>5 DEF ReentryInv
<1>3. ASSUME NEW keeps \in BOOLEAN, Disconnect(keeps) PROVE ReentryInv'
  <2>1. link' = "closed" /\ toReplay' = <<>> /\ history' = history
    BY <1>3 DEF Disconnect
  <2>2. CASE keeps
    <3>1. shown' = shown /\ since' = since /\ link = "open"
      BY <1>3, <2>2 DEF Disconnect
    <3> QED BY <1>1, <2>1, <3>1 DEF ReentryInv, ReentryTypes, View
  <2>3. CASE ~keeps
    <3>1. shown' = <<>> /\ since' = Len(history)
      BY <1>3, <2>3 DEF Disconnect
    <3>2. View' = <<>>
      BY <1>1, <2>1, <3>1, ViewEnds DEF View, ReentryTypes
    <3>3. ReentryTypes'
      BY <1>1, <2>1, <3>1 DEF ReentryTypes
    <3> QED BY <2>1, <3>1, <3>2, <3>3 DEF ReentryInv
  <2> QED BY <2>2, <2>3
<1>4. ASSUME NEW intent \in Intents, Resume(intent) PROVE ReentryInv'
  <2>1. /\ link = "closed" /\ link' = "replaying" /\ history' = history
        /\ intent = "full" <=> Routed(intent) = "load"
        /\ toReplay' = IF Routed(intent) = "load" THEN history ELSE <<>>
        /\ shown' = IF intent = "full" THEN <<>> ELSE shown
        /\ since' = IF intent = "full" THEN 0 ELSE since
    BY <1>4, LoadIsForAll DEF Resume, Accepted
  <2>2. shown = View
    BY <2>1 DEF ReentryInv
  <2>3. CASE intent = "full"
    <3>1. shown' = <<>> /\ toReplay' = history /\ since' = 0
      BY <2>1, <2>3
    <3>2. View' = history /\ <<>> \o history = history
      BY <1>1, <2>1, <3>1, ViewEnds, ConcatEmptySeq DEF View, ReentryTypes
    <3>3. ReentryTypes'
      BY <1>1, <2>1, <3>1 DEF ReentryTypes
    <3> QED BY <2>1, <3>1, <3>2, <3>3 DEF ReentryInv
  <2>4. CASE intent # "full"
    <3>1. shown' = shown /\ toReplay' = <<>> /\ since' = since
      BY <2>1, <2>4
    <3>2. View' = View /\ shown \o <<>> = shown
      BY <1>1, <2>1, <3>1, ConcatEmptySeq DEF View, ReentryTypes
    <3>3. ReentryTypes'
      BY <1>1, <2>1, <3>1 DEF ReentryTypes
    <3> QED BY <2>1, <2>2, <3>1, <3>2, <3>3 DEF ReentryInv
  <2> QED BY <2>3, <2>4
<1>5. CASE ReplayNext
  <2>1. /\ link = "replaying" /\ link' = link /\ toReplay # <<>>
        /\ shown' = Append(shown, Head(toReplay)) /\ toReplay' = Tail(toReplay)
        /\ history' = history /\ since' = since
    BY <1>5 DEF ReplayNext
  <2>2. /\ shown' \o toReplay' = shown \o toReplay
        /\ shown' \in Seq(Entries) /\ toReplay' \in Seq(Entries)
    BY <1>1, <2>1, EntryMoves DEF ReentryTypes
  <2>3. ReentryTypes'
    BY <1>1, <2>1, <2>2 DEF ReentryTypes
  <2>4. View' = View
    BY <2>1 DEF View
  <2> QED BY <2>1, <2>2, <2>3, <2>4 DEF ReentryInv
<1>6. CASE Opened
  <2>1. /\ link = "replaying" /\ toReplay = <<>> /\ link' = "open"
        /\ UNCHANGED <<history, toReplay, shown, since>>
    BY <1>6 DEF Opened
  <2>2. shown \o <<>> = shown /\ shown \o toReplay = View
    BY <1>1, <2>1, ConcatEmptySeq DEF ReentryInv, ReentryTypes
  <2>3. ReentryTypes' /\ View' = View
    BY <1>1, <2>1 DEF ReentryTypes, View
  <2> QED BY <2>1, <2>2, <2>3 DEF ReentryInv
<1> QED BY <1>2, <1>3, <1>4, <1>5, <1>6 DEF ReentryNext, Entries

\* The invariant holds at the start: the client has seen nothing and asks for
\* nothing.
LEMMA ReentryStarts == ReentryInit => ReentryInv
<1> SUFFICES ASSUME ReentryInit PROVE ReentryInv
  OBVIOUS
<1>1. /\ link = "closed" /\ toReplay = <<>> /\ shown = <<>> /\ since = Len(history)
      /\ history \in UNION {[1 .. n -> {"a"}] : n \in 0 .. 1}
  BY DEF ReentryInit
<1>2. history \in Seq(Entries)
  <2>1. PICK n \in 0 .. 1 : history \in [1 .. n -> {"a"}]
    BY <1>1
  <2>2. n \in Nat /\ history \in [1 .. n -> Entries]
    BY <2>1 DEF Entries
  <2> QED BY <2>2, IsASeq
<1>3. ReentryTypes
  BY <1>1, <1>2 DEF ReentryTypes
<1>4. View = <<>>
  BY <1>1, <1>2, ViewEnds DEF View
<1> QED BY <1>1, <1>3, <1>4 DEF ReentryInv

\* A client that comes back to a session sees the history it asked for once,
\* and none that it did not ask for, however often it leaves, in the middle of a
\* replay too, and whichever methods the agent has (session.rs:168-179).
THEOREM HistoryIsShownOnce == ReentrySpec => []ShownOnce
<1>1. ReentryInv /\ [ReentryNext]_reentryVars => ReentryInv'
  <2>1. ReentryInv /\ UNCHANGED reentryVars => ReentryInv'
    BY DEF reentryVars, ReentryInv, ReentryTypes, View
  <2> QED BY <2>1, ReentryKeeps
<1>2. ReentryInv => ShownOnce
  BY DEF ReentryInv, View, ShownOnce
<1> QED BY ReentryStarts, <1>1, <1>2, PTL DEF ReentrySpec

-----------------------------------------------------------------------------
(* Sequences of sequences, put together.                                   *)

\* A set of naturals that is not empty has a least member.
LEMMA LeastNatural ==
    ASSUME NEW T, T \subseteq Nat, T # {}
    PROVE  \E x \in T : \A y \in T : ~(y < x)
<1>1. \E x \in T : \A y \in T : ~(<<y, x>> \in OpToRel(<, Nat))
  BY NatLessThanWellFounded, WFMin
<1> QED BY <1>1 DEF OpToRel

\* FlattenSeq puts the sequences together one by one, up to the n-th.
Flattens(it, seqs, n) ==
    it = [i \in 1 .. n |-> IF i = 1 THEN seqs[i] ELSE it[i - 1] \o seqs[i]]

\* There is such a function: what holds up to n - 1 sequences holds up to n.
LEMMA FlattensExists ==
    ASSUME NEW seqs, NEW n \in Nat
    PROVE  \E it : Flattens(it, seqs, n)
<1> DEFINE Bad == {k \in 0 .. n : ~ \E it : Flattens(it, seqs, k)}
<1>1. SUFFICES ASSUME Bad # {} PROVE FALSE
  OBVIOUS
<1>2. PICK k \in Bad : \A j \in Bad : ~(j < k)
  <2>1. Bad \subseteq Nat
    OBVIOUS
  <2> HIDE DEF Bad
  <2> QED BY <1>1, <2>1, LeastNatural
<1>3. CASE k = 0
  <2> DEFINE it == [i \in 1 .. 0 |-> 0]
  <2>1. Flattens(it, seqs, 0)
    BY DEF Flattens
  <2> QED BY <1>2, <1>3, <2>1
<1>4. CASE k # 0
  <2>1. k - 1 \in 0 .. n /\ k - 1 < k /\ k \in 1 .. n
    BY <1>2, <1>4
  <2>2. PICK g : Flattens(g, seqs, k - 1)
    BY <1>2, <2>1
  <2> DEFINE it == [i \in 1 .. k |-> IF i # k THEN g[i]
                       ELSE IF k = 1 THEN seqs[1] ELSE g[k - 1] \o seqs[k]]
  <2>3. ASSUME NEW i \in 1 .. k
        PROVE  it[i] = IF i = 1 THEN seqs[i] ELSE it[i - 1] \o seqs[i]
    <3>1. CASE i = k
      BY <3>1, <2>1
    <3>2. CASE i # k
      <4>1. /\ i \in 1 .. k - 1 /\ it[i] = g[i]
            /\ i # 1 => i - 1 \in 1 .. k /\ i - 1 # k
        BY <3>2, <2>1
      <4>2. g[i] = IF i = 1 THEN seqs[i] ELSE g[i - 1] \o seqs[i]
        BY <4>1, <2>2 DEF Flattens
      <4>3. i # 1 => it[i - 1] = g[i - 1]
        BY <4>1
      <4> QED BY <4>1, <4>2, <4>3
    <3> QED BY <3>1, <3>2
  <2>4. Flattens(it, seqs, k)
    <3> HIDE DEF it
    <3>1. it = [i \in 1 .. k |-> it[i]]
      BY DEF it
    <3>2. [i \in 1 .. k |-> it[i]] =
            [i \in 1 .. k |-> IF i = 1 THEN seqs[i] ELSE it[i - 1] \o seqs[i]]
      BY <2>3
    <3> QED BY <3>1, <3>2 DEF Flattens
  <2> QED BY <1>2, <2>4
<1> QED BY <1>3, <1>4

\* Two of them agree as far as both go.
LEMMA FlattensUnique ==
    ASSUME NEW s, NEW t, NEW m \in Nat, NEW n \in Nat, m <= n,
           NEW f, NEW g, Flattens(f, s, m), Flattens(g, t, n),
           \A i \in 1 .. m : s[i] = t[i]
    PROVE  \A i \in 1 .. m : f[i] = g[i]
<1> DEFINE Bad == {i \in 1 .. m : f[i] # g[i]}
<1>1. SUFFICES ASSUME Bad # {} PROVE FALSE
  OBVIOUS
<1>2. PICK k \in Bad : \A j \in Bad : ~(j < k)
  <2>1. Bad \subseteq Nat
    OBVIOUS
  <2> HIDE DEF Bad
  <2> QED BY <1>1, <2>1, LeastNatural
<1>3. /\ k \in 1 .. m /\ k \in 1 .. n /\ s[k] = t[k]
      /\ k # 1 => k - 1 \in 1 .. m /\ k - 1 < k
  BY <1>2
<1>4. k # 1 => f[k - 1] = g[k - 1]
  BY <1>2, <1>3
<1>5. f[k] = IF k = 1 THEN s[k] ELSE f[k - 1] \o s[k]
  BY <1>3 DEF Flattens
<1>6. g[k] = IF k = 1 THEN t[k] ELSE g[k - 1] \o t[k]
  BY <1>3 DEF Flattens
<1>7. f[k] = g[k]
  BY <1>3, <1>4, <1>5, <1>6
<1> QED BY <1>2, <1>7

\* FlattenSeq is the last value of that function.
LEMMA FlattenIs ==
    ASSUME NEW seqs, Len(seqs) \in Nat, Len(seqs) # 0
    PROVE  \E it : Flattens(it, seqs, Len(seqs)) /\ FlattenSeq(seqs) = it[Len(seqs)]
<1> DEFINE it == CHOOSE f : Flattens(f, seqs, Len(seqs))
<1>1. Flattens(it, seqs, Len(seqs))
  BY FlattensExists
<1>2. FlattenSeq(seqs) = it[Len(seqs)]
  BY DEF FlattenSeq, Flattens
<1> QED BY <1>1, <1>2

\* One more sequence is put at the end.
LEMMA FlattenAppend ==
    ASSUME NEW S, NEW seqs \in Seq(S), NEW x \in S
    PROVE  FlattenSeq(Append(seqs, x)) =
              IF seqs = <<>> THEN x ELSE FlattenSeq(seqs) \o x
<1>1. PICK n \in Nat, more \in Seq(S) :
         /\ n = Len(seqs) /\ more = Append(seqs, x) /\ Len(more) = n + 1
         /\ \A i \in 1 .. n : seqs[i] = more[i]
         /\ more[n + 1] = x /\ (seqs = <<>> <=> n = 0)
  <2>1. /\ Append(seqs, x) \in Seq(S) /\ Len(seqs) \in Nat
        /\ Len(Append(seqs, x)) = Len(seqs) + 1
        /\ \A i \in 1 .. Len(seqs) : seqs[i] = Append(seqs, x)[i]
        /\ Append(seqs, x)[Len(seqs) + 1] = x
    OBVIOUS
  <2>2. seqs = <<>> <=> Len(seqs) = 0
    BY EmptySeq
  <2> QED BY <2>1, <2>2
<1>2. PICK g : Flattens(g, more, n + 1) /\ FlattenSeq(more) = g[n + 1]
  <2>1. Len(more) \in Nat /\ Len(more) # 0
    BY <1>1
  <2>2. PICK g : Flattens(g, more, Len(more)) /\ FlattenSeq(more) = g[Len(more)]
    BY <2>1, FlattenIs
  <2> QED BY <1>1, <2>2
<1>3. CASE n = 0
  <2>1. g = [i \in 1 .. 1 |-> IF i = 1 THEN more[i] ELSE g[i - 1] \o more[i]]
    BY <1>2, <1>3 DEF Flattens
  <2>2. g[1] = more[1]
    BY <2>1
  <2> QED BY <1>1, <1>2, <1>3, <2>2
<1>4. CASE n # 0
  <2>1. PICK f : Flattens(f, seqs, n) /\ FlattenSeq(seqs) = f[n]
    BY <1>1, <1>4, FlattenIs
  <2>2. PICK m \in Nat : m = n + 1
    OBVIOUS
  <2>3. \A i \in 1 .. n : f[i] = g[i]
    <3>1. n <= m /\ Flattens(g, more, m)
      BY <1>2, <2>2
    <3>2. n \in Nat /\ m \in Nat /\ \A i \in 1 .. n : seqs[i] = more[i]
      BY <1>1, <2>2
    <3> QED BY <2>1, <3>1, <3>2, FlattensUnique
  <2>4. m \in 1 .. m /\ m # 1 /\ m - 1 = n /\ n \in 1 .. n
    BY <1>4, <2>2
  <2>5. g[m] = g[m - 1] \o more[m]
    BY <1>2, <2>2, <2>4 DEF Flattens
  <2> QED BY <1>1, <1>2, <1>4, <2>1, <2>2, <2>3, <2>4, <2>5
<1> QED BY <1>3, <1>4

-----------------------------------------------------------------------------
(* A text and its bytes.                                                   *)

Byte == 0 .. 255
Before(t, k) == Bytes(SubSeq(t, 1, k))
After(t, k)  == Bytes(SubSeq(t, k + 1, Len(t)))
Offset(t, k) == Len(Before(t, k))

\* The bytes of a text are the bytes before any character and those after it;
\* what begins a character is where one ends, and nothing else.
TextOK(t) ==
    /\ t \in Seq(Characters)
    /\ Bytes(t) \in Seq(Byte)
    /\ \A k \in 0 .. Len(t) : /\ Before(t, k) \in Seq(Byte) /\ After(t, k) \in Seq(Byte)
                              /\ Bytes(t) = Before(t, k) \o After(t, k)
    /\ \A k, m \in 0 .. Len(t) : k <= m => Offset(t, k) <= Offset(t, m)
    /\ \A i \in DOMAIN Bytes(t) :
          ~Continuation(Bytes(t)[i]) <=> \E k \in 0 .. Len(t) - 1 : i = Offset(t, k) + 1

\* One more character, at the end.
LEMMA BytesAppend ==
    ASSUME NEW s \in Seq(Characters), NEW c \in Characters, Bytes(s) \in Seq(Byte)
    PROVE  /\ Bytes(Append(s, c)) = Bytes(s) \o c
           /\ Bytes(Append(s, c)) \in Seq(Byte)
           /\ Len(Bytes(Append(s, c))) = Len(Bytes(s)) + Len(c)
           /\ \A i \in 1 .. Len(Bytes(s)) : Bytes(Append(s, c))[i] = Bytes(s)[i]
           /\ \A i \in 1 .. Len(c) : Bytes(Append(s, c))[Len(Bytes(s)) + i] = c[i]
<1>1. c \in Seq(Byte) /\ Len(c) \in Nat
  BY CharactersAssumption DEF Byte
<1>2. Bytes(Append(s, c)) = Bytes(s) \o c
  <2>1. CASE s = <<>>
    <3>1. Bytes(s) = <<>>
      BY <2>1, EmptySeq DEF Bytes, FlattenSeq
    <3>2. <<>> \o c = c
      BY <1>1, ConcatEmptySeq
    <3>3. Bytes(Append(s, c)) = c
      BY <2>1, FlattenAppend DEF Bytes
    <3> QED BY <3>1, <3>2, <3>3
  <2>2. CASE s # <<>>
    BY <2>2, FlattenAppend DEF Bytes
  <2> QED BY <2>1, <2>2
<1>3. PICK b \in Seq(Byte) : b = Bytes(s)
  OBVIOUS
<1>4. /\ b \o c \in Seq(Byte) /\ Len(b \o c) = Len(b) + Len(c)
      /\ \A i \in 1 .. Len(b) + Len(c) :
            (b \o c)[i] = IF i <= Len(b) THEN b[i] ELSE c[i - Len(b)]
  BY <1>1, <1>3, ConcatProperties
<1>5. Len(b) \in Nat
  BY <1>3
<1>6. \A i \in 1 .. Len(b) : (b \o c)[i] = b[i]
  BY <1>1, <1>4, <1>5
<1>7. ASSUME NEW i \in 1 .. Len(c) PROVE (b \o c)[Len(b) + i] = c[i]
  <2>1. /\ Len(b) + i \in 1 .. Len(b) + Len(c) /\ ~(Len(b) + i <= Len(b))
        /\ Len(b) + i - Len(b) = i
    BY <1>1, <1>5
  <2> QED BY <1>4, <2>1
<1> QED BY <1>2, <1>3, <1>4, <1>6, <1>7

\* No character, no byte.
LEMMA NoBytes == Bytes(<<>>) = <<>>
BY EmptySeq DEF Bytes, FlattenSeq

\* The empty text.
LEMMA TextBegins == TextOK(<<>>)
<1>1. PICK t : t = <<>>
  OBVIOUS
<1>2. t \in Seq(Characters) /\ t \in Seq(Byte) /\ Len(t) = 0 /\ DOMAIN t = {}
  BY <1>1
<1>3. Bytes(t) = t
  BY <1>1, NoBytes
<1>4. SubSeq(t, 1, 0) = t /\ SubSeq(t, 0 + 1, 0) = t
  BY <1>1, <1>2, SubSeqEmpty
<1>5. ASSUME NEW k \in 0 .. Len(t) PROVE k = 0
  BY <1>2
<1>6. Before(t, 0) = t /\ After(t, 0) = t /\ t \o t = t
  <2>1. t \o t = t
    BY <1>1, <1>2, ConcatEmptySeq
  <2> QED BY <1>2, <1>3, <1>4, <2>1 DEF Before, After
<1>7. \A k \in 0 .. Len(t) : /\ Before(t, k) \in Seq(Byte) /\ After(t, k) \in Seq(Byte)
                             /\ Bytes(t) = Before(t, k) \o After(t, k)
  BY <1>2, <1>3, <1>5, <1>6
<1>8. \A k, m \in 0 .. Len(t) : k <= m => Offset(t, k) <= Offset(t, m)
  BY <1>2, <1>5, <1>6 DEF Offset
<1> QED BY <1>1, <1>2, <1>3, <1>7, <1>8 DEF TextOK

\* A text grows by a character.
LEMMA TextGrows ==
    ASSUME NEW t, TextOK(t), NEW c \in Characters
    PROVE  TextOK(Append(t, c))
<1>1. t \in Seq(Characters) /\ Bytes(t) \in Seq(Byte)
  BY DEF TextOK
<1>2. PICK g : g = Append(t, c)
  OBVIOUS
<1>3. PICK n \in Nat : n = Len(t)
  BY <1>1
<1>4. g \in Seq(Characters) /\ Len(g) = n + 1
  BY <1>1, <1>2, <1>3
<1>5. PICK b \in Seq(Byte), l \in Nat : b = Bytes(t) /\ l = Len(b)
  BY <1>1
<1>6. c \in Seq(Byte) /\ Len(c) \in Nat /\ Len(c) > 0
      /\ \A i \in 1 .. Len(c) : Continuation(c[i]) <=> i # 1
  <2>1. c \in Seq(Byte) /\ c # <<>>
    BY CharactersAssumption DEF Byte
  <2>2. Len(c) \in Nat \ {0} /\ DOMAIN c = 1 .. Len(c)
    BY <2>1, EmptySeq
  <2> QED BY <2>1, <2>2, CharactersAssumption
<1>7. /\ Bytes(g) = b \o c /\ Bytes(g) \in Seq(Byte)
      /\ Len(Bytes(g)) = l + Len(c)
      /\ \A i \in 1 .. l : Bytes(g)[i] = b[i]
      /\ \A i \in 1 .. Len(c) : Bytes(g)[l + i] = c[i]
  BY <1>1, <1>2, <1>5, BytesAppend
<1>8. ASSUME NEW k \in 0 .. n
      PROVE  /\ Before(g, k) = Before(t, k) /\ After(g, k) = After(t, k) \o c
             /\ Before(t, k) \in Seq(Byte) /\ After(t, k) \in Seq(Byte)
             /\ After(g, k) \in Seq(Byte)
             /\ b = Before(t, k) \o After(t, k)
  <2>1. /\ SubSeq(g, 1, k) = SubSeq(t, 1, k)
        /\ SubSeq(g, k + 1, n + 1) = Append(SubSeq(t, k + 1, n), c)
        /\ SubSeq(t, k + 1, n) \in Seq(Characters)
    <3>1. k \in 0 .. Len(t)
      BY <1>3
    <3>2. /\ SubSeq(Append(t, c), 1, k) = SubSeq(t, 1, k)
          /\ SubSeq(Append(t, c), k + 1, Len(t) + 1) = Append(SubSeq(t, k + 1, Len(t)), c)
          /\ SubSeq(t, k + 1, Len(t)) \in Seq(Characters)
      <4>1. c \in Characters /\ t \in Seq(Characters)
        BY <1>1
      <4>2. SubSeq(Append(t, c), 1, k) = SubSeq(t, 1, k)
        BY <3>1, <4>1, SlicesGrow
      <4>3. SubSeq(Append(t, c), k + 1, Len(t) + 1) = Append(SubSeq(t, k + 1, Len(t)), c)
        BY <3>1, <4>1, SlicesGrow
      <4>4. SubSeq(t, k + 1, Len(t)) \in Seq(Characters)
        BY <3>1, <4>1, SlicesGrow
      <4> QED BY <4>2, <4>3, <4>4
    <3> QED BY <1>2, <1>3, <3>2
  <2>2. /\ Before(t, k) \in Seq(Byte) /\ After(t, k) \in Seq(Byte)
        /\ b = Before(t, k) \o After(t, k)
    BY <1>3, <1>5 DEF TextOK
  <2>3. Before(g, k) = Before(t, k)
    BY <2>1 DEF Before
  <2>4. After(t, k) = Bytes(SubSeq(t, k + 1, n)) /\ After(g, k) = Bytes(SubSeq(g, k + 1, n + 1))
    BY <1>3, <1>4 DEF After
  <2>5. After(g, k) = After(t, k) \o c /\ After(g, k) \in Seq(Byte)
    BY <2>1, <2>2, <2>4, BytesAppend
  <2> QED BY <2>2, <2>3, <2>5
<1>9. /\ Before(g, n + 1) = Bytes(g) /\ After(g, n + 1) = <<>>
      /\ Before(t, n) = b
  <2>1. SubSeq(g, 1, n + 1) = g /\ SubSeq(t, 1, n) = t
    BY <1>1, <1>3, <1>4, SubSeqFull
  <2>2. SubSeq(g, n + 1 + 1, n + 1) = <<>>
    <3>1. n + 1 + 1 \in Int /\ n + 1 \in Int /\ n + 1 < n + 1 + 1
      OBVIOUS
    <3> QED BY <3>1, SubSeqEmpty
  <2> QED BY <1>4, <1>5, <2>1, <2>2, NoBytes DEF Before, After
<1>10. ASSUME NEW k \in 0 .. n + 1
       PROVE  /\ Before(g, k) \in Seq(Byte) /\ After(g, k) \in Seq(Byte)
              /\ Bytes(g) = Before(g, k) \o After(g, k)
  <2>1. CASE k = n + 1
    <3>1. <<>> \in Seq(Byte) /\ Bytes(g) \o <<>> = Bytes(g)
      BY <1>7, ConcatEmptySeq, EmptySeq
    <3> QED BY <1>7, <1>9, <2>1, <3>1
  <2>2. CASE k # n + 1
    <3>1. k \in 0 .. n
      BY <1>3, <2>2
    <3>2. PICK x, y : x = Before(t, k) /\ y = After(t, k)
      OBVIOUS
    <3>3. x \in Seq(Byte) /\ y \in Seq(Byte) /\ b = x \o y
          /\ Before(g, k) = x /\ After(g, k) = y \o c /\ y \o c \in Seq(Byte)
      BY <1>8, <3>1, <3>2
    <3>4. (x \o y) \o c = x \o (y \o c)
      BY <1>6, <3>3, ConcatAssociative
    <3>5. Bytes(g) = x \o (y \o c)
      BY <1>7, <3>3, <3>4
    <3> QED BY <3>3, <3>5
  <2> QED BY <2>1, <2>2
<1>11. /\ Offset(t, n) = l /\ Offset(g, n + 1) = l + Len(c)
       /\ \A k \in 0 .. n : Offset(g, k) = Offset(t, k) /\ Offset(t, k) \in Nat
  BY <1>5, <1>7, <1>8, <1>9 DEF Offset
<1>12. \A k, m \in 0 .. n : k <= m => Offset(t, k) <= Offset(t, m)
  BY <1>3 DEF TextOK
<1>13. \A k \in 0 .. n : Offset(g, k) <= l
  BY <1>3, <1>11, <1>12
<1>14. ASSUME NEW k \in 0 .. n + 1, NEW m \in 0 .. n + 1, k <= m
       PROVE  Offset(g, k) <= Offset(g, m)
  <2>1. CASE m = n + 1
    <3>1. CASE k = n + 1
      BY <1>6, <1>11, <2>1, <3>1
    <3>2. CASE k # n + 1
      <4>1. k \in 0 .. n
        BY <1>3, <3>2
      <4> QED BY <1>6, <1>11, <1>13, <2>1, <4>1
    <3> QED BY <3>1, <3>2
  <2>2. CASE m # n + 1
    <3>1. k \in 0 .. n /\ m \in 0 .. n
      BY <1>3, <1>14, <2>2
    <3> QED BY <1>11, <1>12, <1>14, <3>1
  <2> QED BY <2>1, <2>2
<1>15. ASSUME NEW i \in 1 .. l + Len(c)
       PROVE  ~Continuation(Bytes(g)[i]) <=> \E k \in 0 .. n : i = Offset(g, k) + 1
  <2>1. CASE i <= l
    <3>1. i \in 1 .. l /\ i \in DOMAIN b /\ Bytes(g)[i] = b[i]
      BY <1>5, <1>7, <2>1
    <3>2. ~Continuation(b[i]) <=> \E k \in 0 .. n - 1 : i = Offset(t, k) + 1
      BY <1>3, <1>5, <3>1 DEF TextOK
    <3>3. i # Offset(g, n) + 1
      BY <1>3, <1>5, <1>11, <2>1
    <3>4. (\E k \in 0 .. n : i = Offset(g, k) + 1) <=> \E k \in 0 .. n - 1 : i = Offset(t, k) + 1
      <4>1. 0 .. n = (0 .. n - 1) \cup {n}
        BY <1>3
      <4> QED BY <1>11, <3>3, <4>1
    <3> QED BY <3>1, <3>2, <3>4
  <2>2. CASE i = l + 1
    <3>1. 1 \in 1 .. Len(c) /\ Bytes(g)[l + 1] = c[1] /\ ~Continuation(c[1])
      BY <1>6, <1>7
    <3>2. n \in 0 .. n /\ i = Offset(g, n) + 1
      BY <1>3, <1>11, <2>2
    <3> QED BY <2>2, <3>1, <3>2
  <2>3. CASE i > l + 1
    <3>1. PICK j \in 1 .. Len(c) : i = l + j /\ j # 1
      <4>1. i - l \in 1 .. Len(c) /\ i = l + (i - l) /\ i - l # 1
        BY <1>5, <1>6, <2>3
      <4> QED BY <4>1
    <3>2. Continuation(Bytes(g)[i])
      BY <1>6, <1>7, <3>1
    <3>3. ASSUME NEW k \in 0 .. n PROVE i # Offset(g, k) + 1
      <4>1. Offset(g, k) \in Nat /\ Offset(g, k) <= l
        BY <1>11, <1>13
      <4> QED BY <1>5, <2>3, <4>1
    <3> QED BY <3>2, <3>3
  <2> QED BY <1>5, <1>6, <2>1, <2>2, <2>3
<1>16. DOMAIN Bytes(g) = 1 .. l + Len(c) /\ n + 1 - 1 = n
  BY <1>3, <1>7
<1>17. \A k \in 0 .. Len(g) : /\ Before(g, k) \in Seq(Byte) /\ After(g, k) \in Seq(Byte)
                               /\ Bytes(g) = Before(g, k) \o After(g, k)
  BY <1>4, <1>10
<1>18. \A k, m \in 0 .. Len(g) : k <= m => Offset(g, k) <= Offset(g, m)
  BY <1>4, <1>14
<1>19. \A i \in DOMAIN Bytes(g) :
          ~Continuation(Bytes(g)[i]) <=> \E k \in 0 .. Len(g) - 1 : i = Offset(g, k) + 1
  BY <1>4, <1>15, <1>16
<1>20. TextOK(g)
  BY <1>4, <1>7, <1>17, <1>18, <1>19 DEF TextOK
<1> QED BY <1>2, <1>20

-----------------------------------------------------------------------------
(* The tail that fits.                                                     *)

\* What Min chooses.
LEMMA MinIs ==
    ASSUME NEW S \in SUBSET Int, NEW k \in S, \A i \in S : k <= i
    PROVE  Min(S) = k
<1>1. \A x, y \in S : (\A i \in S : x <= i) /\ (\A i \in S : y <= i) => x = y
  OBVIOUS
<1> QED BY <1>1 DEF Min

\* The end of a sequence.
LEMMA EndOf ==
    ASSUME NEW S, NEW s \in Seq(S), NEW t \in Seq(S)
    PROVE  SubSeq(s \o t, Len(s) + 1, Len(s \o t)) = t
<1>1. PICK m \in Nat, n \in Nat : m = Len(s) /\ n = Len(t)
  OBVIOUS
<1>2. PICK b : b = s \o t
  OBVIOUS
<1>3. /\ b \in Seq(S) /\ Len(b) = m + n
      /\ \A i \in 1 .. m + n : b[i] = IF i <= m THEN s[i] ELSE t[i - m]
  BY <1>1, <1>2, ConcatProperties
<1>4. PICK u : u = SubSeq(b, m + 1, m + n)
  OBVIOUS
<1>5. u \in Seq(S) /\ Len(u) = n /\ \A i \in 1 .. n : u[i] = b[m + i]
  <2>1. /\ m + 1 \in 1 .. Len(b) + 1 /\ m + n \in m + 1 - 1 .. Len(b)
        /\ m + n + 1 - (m + 1) = n /\ m + 1 - 1 = m
    BY <1>1, <1>3
  <2>2. /\ u \in Seq(S) /\ Len(u) = m + n + 1 - (m + 1)
        /\ \A i \in 1 .. m + n + 1 - (m + 1) : u[i] = b[m + 1 - 1 + i]
    BY <1>3, <1>4, <2>1, SliceIs
  <2> QED BY <2>1, <2>2
<1>6. ASSUME NEW i \in 1 .. n PROVE u[i] = t[i]
  <2>1. m + i \in 1 .. m + n /\ ~(m + i <= m) /\ m + i - m = i
    BY <1>1
  <2> QED BY <1>3, <1>5, <2>1
<1>7. u = t
  BY <1>1, <1>5, <1>6, SeqEqual
<1> QED BY <1>1, <1>2, <1>3, <1>4, <1>7

\* A part of a text fits when its first character begins at the cut or after it.
LEMMA FittingIs ==
    ASSUME TextOK(text), NEW limit \in 0 .. Len(Bytes(text))
    PROVE  /\ \A k \in 0 .. Len(text) :
                /\ Offset(text, k) \in Nat
                /\ Len(After(text, k)) = Len(Bytes(text)) - Offset(text, k)
                /\ k \in Fitting(limit) <=>
                       Offset(text, k) >= Len(Bytes(text)) - limit
           /\ Fitting(limit) \subseteq 0 .. Len(text)
           /\ Len(text) \in Fitting(limit)
           /\ Offset(text, 0) = 0 /\ Offset(text, Len(text)) = Len(Bytes(text))
<1>1. PICK n \in Nat : n = Len(text)
  BY DEF TextOK
<1>2. PICK b \in Seq(Byte), l \in Nat : b = Bytes(text) /\ l = Len(b)
  BY DEF TextOK
<1>3. ASSUME NEW k \in 0 .. n
      PROVE  /\ Offset(text, k) \in Nat
             /\ Len(After(text, k)) = l - Offset(text, k)
             /\ k \in Fitting(limit) <=> Offset(text, k) >= l - limit
  <2>1. PICK x \in Seq(Byte), y \in Seq(Byte) :
           x = Before(text, k) /\ y = After(text, k) /\ b = x \o y
    BY <1>1, <1>2 DEF TextOK
  <2>2. l = Len(x) + Len(y) /\ Len(x) \in Nat /\ Len(y) \in Nat
    BY <1>2, <2>1, ConcatProperties
  <2>3. Offset(text, k) = Len(x) /\ Len(After(text, k)) = Len(y)
    BY <2>1 DEF Offset
  <2>4. k \in Fitting(limit) <=> Len(y) <= limit
    BY <1>1, <2>1 DEF Fitting, After
  <2>5. limit \in Nat
    BY <1>2
  <2> QED BY <2>2, <2>3, <2>4, <2>5
<1>4. Fitting(limit) \subseteq 0 .. n
  BY <1>1 DEF Fitting
<1>5. Offset(text, n) = l
  <2>1. SubSeq(text, 1, n) = text
    BY <1>1, SubSeqFull DEF TextOK
  <2> QED BY <1>1, <1>2, <2>1 DEF Offset, Before
<1>6. Offset(text, 0) = 0
  <2>1. SubSeq(text, 1, 0) = <<>>
    BY SubSeqEmpty
  <2>2. Before(text, 0) = <<>>
    BY <2>1, NoBytes DEF Before
  <2> QED BY <2>2 DEF Offset
<1>7. n \in 0 .. n /\ limit \in Nat /\ l >= l - limit
  BY <1>1, <1>2
<1>8. n \in Fitting(limit)
  BY <1>3, <1>5, <1>7
<1> QED BY <1>1, <1>2, <1>3, <1>4, <1>5, <1>6, <1>8

\* What begins a character at the cut or after it first is the first part that fits.
LEMMA TailStartIs ==
    ASSUME TextOK(text), NEW limit \in 0 .. Len(Bytes(text)), limit < Len(Bytes(text))
    PROVE  /\ Min(Fitting(limit)) \in Fitting(limit)
           /\ TailStart(Bytes(text), limit) = Offset(text, Min(Fitting(limit))) + 1
<1>1. PICK n \in Nat : n = Len(text)
  BY DEF TextOK
<1>2. PICK b \in Seq(Byte), l \in Nat : b = Bytes(text) /\ l = Len(b)
  BY DEF TextOK
<1>3. /\ \A k \in 0 .. n : /\ Offset(text, k) \in Nat
                           /\ k \in Fitting(limit) <=> Offset(text, k) >= l - limit
      /\ Fitting(limit) \subseteq 0 .. n /\ n \in Fitting(limit) /\ Offset(text, n) = l
  BY <1>1, <1>2, FittingIs
<1>4. PICK m \in Fitting(limit) : \A k \in Fitting(limit) : m <= k
  <2>1. PICK m \in Fitting(limit) : \A k \in Fitting(limit) : ~(k < m)
    <3>1. Fitting(limit) \subseteq Nat /\ Fitting(limit) # {}
      BY <1>3
    <3> QED BY <3>1, LeastNatural
  <2>2. \A k \in Fitting(limit) : k \in Nat
    BY <1>3
  <2> QED BY <2>1, <2>2
<1>5. Min(Fitting(limit)) = m
  <2>1. Fitting(limit) \in SUBSET Int
    BY <1>3
  <2> QED BY <1>4, <2>1, MinIs
<1>6. /\ \A k \in 0 .. n : k >= m => Offset(text, m) <= Offset(text, k)
      /\ m \in 0 .. n /\ Offset(text, m) \in Nat
  BY <1>1, <1>3, <1>4 DEF TextOK
<1>7. /\ limit \in Nat /\ l - limit + 1 \in Nat /\ Offset(text, m) + 1 >= l - limit + 1
      /\ Offset(text, m) <= l
  BY <1>2, <1>3, <1>4, <1>6
<1>8. \A i \in 1 .. l : ~Continuation(b[i]) <=> \E k \in 0 .. n - 1 : i = Offset(text, k) + 1
  <2>1. DOMAIN b = 1 .. l
    BY <1>2
  <2>2. \A i \in DOMAIN b : ~Continuation(b[i]) <=>
                               \E k \in 0 .. Len(text) - 1 : i = Offset(text, k) + 1
    BY <1>2 DEF TextOK
  <2> QED BY <1>1, <2>1, <2>2
<1> DEFINE T == {i \in l - limit + 1 .. l + 1 : i = l + 1 \/ ~Continuation(b[i])}
<1>9. Offset(text, m) + 1 \in T
  <2>1. Offset(text, m) + 1 \in l - limit + 1 .. l + 1
    BY <1>2, <1>6, <1>7
  <2>2. ASSUME Offset(text, m) + 1 # l + 1 PROVE ~Continuation(b[Offset(text, m) + 1])
    <3>1. m # n /\ m \in 0 .. n - 1
      BY <1>1, <1>3, <1>6, <2>2
    <3>2. Offset(text, m) + 1 \in 1 .. l
      BY <1>2, <1>6, <1>7, <2>2
    <3> QED BY <1>8, <3>1, <3>2
  <2> QED BY <2>1, <2>2
<1>10. ASSUME NEW i \in T PROVE Offset(text, m) + 1 <= i
  <2>1. CASE i = l + 1
    BY <1>2, <1>6, <1>7, <2>1
  <2>2. CASE i # l + 1
    <3>1. i \in 1 .. l /\ i >= l - limit + 1 /\ ~Continuation(b[i])
      BY <1>2, <1>7, <2>2
    <3>2. PICK k \in 0 .. n - 1 : i = Offset(text, k) + 1
      BY <1>8, <3>1
    <3>3. k \in 0 .. n /\ Offset(text, k) \in Nat
      BY <1>1, <1>3
    <3>4. Offset(text, k) >= l - limit
      BY <1>2, <1>7, <3>1, <3>2, <3>3
    <3>5. k >= m
      BY <1>3, <1>4, <1>6, <3>3, <3>4
    <3> QED BY <1>6, <3>2, <3>3, <3>5
  <2> QED BY <2>1, <2>2
<1>11. Min(T) = Offset(text, m) + 1
  <2>1. T \in SUBSET Int
    BY <1>2, <1>7
  <2> HIDE DEF T
  <2> QED BY <1>9, <1>10, <2>1, MinIs
<1>12. TailStart(b, limit) = Min(T)
  BY <1>2 DEF TailStart
<1> QED BY <1>2, <1>4, <1>5, <1>11, <1>12

\* What is kept is the longest end of the output that fits.
LEMMA TailFits ==
    ASSUME TextOK(text)
    PROVE  TailIsLongestFit
<1> SUFFICES ASSUME NEW limit \in 0 .. Len(Bytes(text))
             PROVE  LET view == ViewWithinLimit(Bytes(text), limit) IN
                    /\ view.output = Bytes(SubSeq(text, Min(Fitting(limit)) + 1, Len(text)))
                    /\ view.truncated <=> view.output # Bytes(text)
  BY DEF TailIsLongestFit
<1>1. PICK n \in Nat : n = Len(text)
  BY DEF TextOK
<1>2. PICK b \in Seq(Byte), l \in Nat : b = Bytes(text) /\ l = Len(b)
  BY DEF TextOK
<1>3. limit \in Nat /\ limit # Absent /\ limit <= l
  BY <1>2 DEF Absent
<1>4. /\ \A k \in 0 .. n : /\ Offset(text, k) \in Nat
                           /\ Len(After(text, k)) = l - Offset(text, k)
                           /\ k \in Fitting(limit) <=> Offset(text, k) >= l - limit
      /\ Fitting(limit) \subseteq 0 .. n /\ Offset(text, 0) = 0
  BY <1>1, <1>2, FittingIs
<1>5. CASE limit = l
  <2>1. ViewWithinLimit(b, limit) = [output |-> b, truncated |-> FALSE]
    BY <1>2, <1>5 DEF ViewWithinLimit
  <2>2. 0 \in Fitting(limit)
    BY <1>1, <1>2, <1>4, <1>5
  <2>3. Min(Fitting(limit)) = 0
    <3>1. Fitting(limit) \in SUBSET Int /\ \A k \in Fitting(limit) : 0 <= k
      BY <1>1, <1>4
    <3> QED BY <2>2, <3>1, MinIs
  <2>4. SubSeq(text, 0 + 1, n) = text
    BY <1>1, SubSeqFull DEF TextOK
  <2>5. Bytes(SubSeq(text, Min(Fitting(limit)) + 1, Len(text))) = b
    BY <1>1, <1>2, <2>3, <2>4
  <2>6. /\ ViewWithinLimit(b, limit).output = b
        /\ ViewWithinLimit(b, limit).truncated = FALSE
    BY <2>1
  <2> QED BY <1>2, <2>5, <2>6
<1>6. CASE limit # l
  <2>1. PICK m : m = Min(Fitting(limit))
    OBVIOUS
  <2>2. limit < l
    BY <1>2, <1>3, <1>6
  <2>3. m \in Fitting(limit) /\ TailStart(b, limit) = Offset(text, m) + 1
    BY <1>2, <2>1, <2>2, TailStartIs
  <2>4. PICK x \in Seq(Byte), y \in Seq(Byte) :
           x = Before(text, m) /\ y = After(text, m) /\ b = x \o y
    BY <1>1, <1>2, <1>4, <2>3 DEF TextOK
  <2>5. SubSeq(b, Offset(text, m) + 1, l) = y
    <3>1. SubSeq(x \o y, Len(x) + 1, Len(x \o y)) = y
      BY EndOf
    <3> QED BY <1>2, <2>4, <3>1 DEF Offset
  <2>6. ViewWithinLimit(b, limit) = [output |-> y, truncated |-> TRUE]
    <3>1. ~(limit = Absent \/ Len(b) <= limit)
      BY <1>2, <1>3, <2>2
    <3>2. ViewWithinLimit(b, limit) =
             [output |-> SubSeq(b, TailStart(b, limit), Len(b)), truncated |-> TRUE]
      BY <3>1 DEF ViewWithinLimit
    <3> QED BY <1>2, <2>3, <2>5, <3>2
  <2>7. y # b
    <3>1. Len(y) <= limit
      BY <1>2, <1>4, <2>3, <2>4 DEF Fitting, After
    <3> QED BY <1>2, <1>3, <2>2, <3>1
  <2>8. y = Bytes(SubSeq(text, m + 1, n))
    BY <1>1, <2>4 DEF After
  <2> QED BY <1>1, <1>2, <2>1, <2>6, <2>7, <2>8
<1> QED BY <1>5, <1>6

ValuesInv == TextOK(text)

\* The invariant: a text of whole characters.
LEMMA ValuesInvariant == ValuesSpec => []ValuesInv
<1>1. ValuesInit => ValuesInv
  BY TextBegins DEF ValuesInit, ValuesInv
<1>2. ValuesInv /\ [ValuesNext]_text => ValuesInv'
  <2>1. ASSUME ValuesInv, NEW c \in Characters, Write(c) PROVE ValuesInv'
    <3>1. TextOK(Append(text, c))
      BY <2>1, TextGrows DEF ValuesInv
    <3> QED BY <2>1, <3>1 DEF ValuesInv, Write
  <2>2. ASSUME ValuesInv, text' = text PROVE ValuesInv'
    BY <2>2 DEF ValuesInv
  <2> QED BY <2>1, <2>2 DEF ValuesNext
<1> QED BY <1>1, <1>2, PTL DEF ValuesSpec

\* terminal/output keeps the longest end of the output that fits and begins with
\* a whole character (view_within_limit of terminal.rs), and says whether
\* anything is missing.
THEOREM TailsAreWhole == ValuesSpec => []TailIsLongestFit
<1>1. ValuesInv => TailIsLongestFit
  BY TailFits DEF ValuesInv
<1> QED BY <1>1, ValuesInvariant, PTL

-----------------------------------------------------------------------------
(* Base64.                                                                 *)

\* The four sextets of a number.
Sextets(n, p, q, r, s) ==
    /\ p = (n \div 262144) % 64 /\ q = (n \div 4096) % 64
    /\ r = (n \div 64) % 64 /\ s = n % 64

\* The sextets of three bytes are made into the same number, and it into the
\* same bytes; bytes that are not there leave no trace in the last sextets.
LEMMA SextetsJoin ==
    ASSUME NEW a \in Byte, NEW c \in Byte, NEW d \in Byte,
           NEW n, n = 65536 * a + 256 * c + d,
           NEW p, NEW q, NEW r, NEW s, Sextets(n, p, q, r, s)
    PROVE  /\ p \in 0 .. 63 /\ q \in 0 .. 63 /\ r \in 0 .. 63 /\ s \in 0 .. 63
           /\ Number(p, q, r, s) = n /\ ThreeBytes(n) = <<a, c, d>>
           /\ d = 0 => s = 0
           /\ c = 0 /\ d = 0 => r = 0
<1>0. /\ p = (n \div 262144) % 64 /\ q = (n \div 4096) % 64
      /\ r = (n \div 64) % 64 /\ s = n % 64
  BY SMT DEF Sextets
<1>1. a \in 0 .. 255 /\ c \in 0 .. 255 /\ d \in 0 .. 255
  BY DEF Byte
<1>2. PICK a1 \in 0 .. 63, a0 \in 0 .. 3 : a = 4 * a1 + a0
  <2>1. PICK x, y : x = a \div 4 /\ y = a % 4
    OBVIOUS
  <2>2. x \in 0 .. 63 /\ y \in 0 .. 3
    BY <1>1, <2>1
  <2>3. a = 4 * x + y
    BY <1>1, <2>1
  <2> QED BY <2>2, <2>3
<1>3. PICK c1 \in 0 .. 15, c0 \in 0 .. 15 : c = 16 * c1 + c0
  <2>1. PICK x, y : x = c \div 16 /\ y = c % 16
    OBVIOUS
  <2>2. x \in 0 .. 15 /\ y \in 0 .. 15
    BY <1>1, <2>1
  <2>3. c = 16 * x + y
    BY <1>1, <2>1
  <2> QED BY <2>2, <2>3
<1>4. PICK d1 \in 0 .. 3, d0 \in 0 .. 63 : d = 64 * d1 + d0
  <2>1. PICK x, y : x = d \div 64 /\ y = d % 64
    OBVIOUS
  <2>2. x \in 0 .. 3 /\ y \in 0 .. 63
    BY <1>1, <2>1
  <2>3. d = 64 * x + y
    BY <1>1, <2>1
  <2> QED BY <2>2, <2>3
<1>5. n \in Nat /\ n = 262144 * a1 + 65536 * a0 + 4096 * c1 + 256 * c0 + 64 * d1 + d0
  BY <1>0, <1>1, <1>2, <1>3, <1>4
<1>6. n \div 262144 = a1 /\ a1 % 64 = a1
  BY <1>2, <1>3, <1>4, <1>5
<1>7. n \div 4096 = 64 * a1 + 16 * a0 + c1 /\ (64 * a1 + 16 * a0 + c1) % 64 = 16 * a0 + c1
  BY <1>2, <1>3, <1>4, <1>5
<1>8. /\ n \div 64 = 4096 * a1 + 1024 * a0 + 64 * c1 + 4 * c0 + d1
      /\ (4096 * a1 + 1024 * a0 + 64 * c1 + 4 * c0 + d1) % 64 = 4 * c0 + d1
  BY <1>2, <1>3, <1>4, <1>5
<1>9. n % 64 = d0
  <2>1. PICK m \in Nat : m = 4096 * a1 + 1024 * a0 + 64 * c1 + 4 * c0 + d1
    OBVIOUS
  <2>2. n = 64 * m + d0
    BY <1>2, <1>3, <1>4, <1>5, <2>1, SMT
  <2> QED BY <1>4, <2>1, <2>2, SMT
<1>10. n \div 65536 = a /\ n \div 256 = 256 * a + c /\ (256 * a + c) % 256 = c /\ n % 256 = d
  BY <1>1, SMT
<1>11. p = a1 /\ q = 16 * a0 + c1 /\ r = 4 * c0 + d1 /\ s = d0
  BY <1>0, <1>6, <1>7, <1>8, <1>9
<1>12. p \in 0 .. 63 /\ q \in 0 .. 63 /\ r \in 0 .. 63 /\ s \in 0 .. 63
  BY <1>2, <1>3, <1>4, <1>11
<1>13. 262144 * p + 4096 * q + 64 * r + s = n
  BY <1>2, <1>3, <1>4, <1>5, <1>11
<1>14. (d = 0 => s = 0) /\ (c = 0 /\ d = 0 => r = 0)
  BY <1>2, <1>3, <1>4, <1>11
<1>15. Number(p, q, r, s) = n
  BY <1>13, SMT DEF Number
<1>16. ThreeBytes(n) = <<a, c, d>>
  <2>1. (n \div 256) % 256 = c
    BY <1>10, SMT
  <2> QED BY <1>10, <2>1, SMT DEF ThreeBytes
<1> QED BY <1>12, <1>14, <1>15, <1>16

\* Where the bytes of the g-th group end.
EndOfGroup(b, g) == IF 3 * g <= Len(b) THEN 3 * g ELSE Len(b)

\* The four letters of a group.
LEMMA LettersAre ==
    ASSUME NEW b \in Seq(Byte), NEW g \in Nat, NEW h \in Nat,
           g >= 1, h = 3 * (g - 1) + 1, h <= Len(b), NEW j \in 1 .. 4
    PROVE  Base64(b)[4 * (g - 1) + j] = Sextet(b, h, j)
<1>1. PICK l \in Nat : l = Len(b)
  OBVIOUS
<1>2. PICK m \in Nat : m = (l + 2) \div 3
  BY <1>1
<1>3. g <= m
  <2>1. l + 2 >= 3 * g
    BY <1>1
  <2> QED BY <1>2, <2>1
<1>4. PICK k \in Nat : k = 4 * (g - 1) + j
  OBVIOUS
<1>5. k \in 1 .. 4 * m
  BY <1>2, <1>3, <1>4
<1>6. (k - 1) \div 4 = g - 1 /\ (k - 1) % 4 = j - 1
  BY <1>4
<1>7. 3 * ((k - 1) \div 4) + 1 = h /\ ((k - 1) % 4) + 1 = j
  BY <1>6
<1>8. Base64(b) = [i \in 1 .. 4 * m |-> Sextet(b, 3 * ((i - 1) \div 4) + 1, ((i - 1) % 4) + 1)]
  BY <1>1, <1>2 DEF Base64
<1>9. Base64(b)[k] = Sextet(b, 3 * ((k - 1) \div 4) + 1, ((k - 1) % 4) + 1)
  BY <1>5, <1>8
<1> QED BY <1>4, <1>7, <1>9

\* A letter is a sextet of the three bytes, or the padding.
LEMMA SextetIs ==
    ASSUME NEW b, NEW h, NEW p, NEW q, NEW r, NEW s, Sextets(Triple(b, h), p, q, r, s)
    PROVE  /\ Sextet(b, h, 1) = p /\ Sextet(b, h, 2) = q
           /\ Sextet(b, h, 3) = IF h + 1 \in DOMAIN b THEN r ELSE Padding
           /\ Sextet(b, h, 4) = IF h + 2 \in DOMAIN b THEN s ELSE Padding
<1>1. PICK n : n = Triple(b, h)
  OBVIOUS
<1>2. /\ p = (n \div 262144) % 64 /\ q = (n \div 4096) % 64
      /\ r = (n \div 64) % 64 /\ s = n % 64
  BY <1>1, SMT DEF Sextets
<1>3. Sextet(b, h, 1) = p
  BY <1>1, <1>2, SMT DEF Sextet
<1>4. Sextet(b, h, 2) = q
  BY <1>1, <1>2, SMT DEF Sextet
<1>5. Sextet(b, h, 3) = IF h + 1 \in DOMAIN b THEN r ELSE Padding
  BY <1>1, <1>2, SMT DEF Sextet
<1>6. Sextet(b, h, 4) = IF h + 2 \in DOMAIN b THEN s ELSE Padding
  BY <1>1, <1>2, SMT DEF Sextet
<1> QED BY <1>3, <1>4, <1>5, <1>6

\* A group decodes to the bytes it was made of.
LEMMA GroupDecodes ==
    ASSUME NEW b \in Seq(Byte), NEW g \in Nat, NEW h \in Nat,
           g >= 1, h = 3 * (g - 1) + 1, h <= Len(b)
    PROVE  DecodedGroup(Base64(b), g) = SubSeq(b, h, EndOfGroup(b, g))
<1>1. PICK l \in Nat : l = Len(b)
  OBVIOUS
<1>2. DOMAIN b = 1 .. l /\ \A i \in 1 .. l : b[i] \in Byte
  BY <1>1
<1>3. PICK a, c, d : a = At(b, h) /\ c = At(b, h + 1) /\ d = At(b, h + 2)
  OBVIOUS
<1>4. /\ a \in Byte /\ c \in Byte /\ d \in Byte
      /\ a = b[h]
      /\ h + 1 \in DOMAIN b => c = b[h + 1]
      /\ h + 2 \in DOMAIN b => d = b[h + 2]
      /\ h + 1 \notin DOMAIN b => c = 0 /\ d = 0
      /\ h + 2 \notin DOMAIN b => d = 0
  BY <1>1, <1>2, <1>3 DEF At, Byte
<1>5. PICK n : n = Triple(b, h)
  OBVIOUS
<1>6. PICK p, q, r, s : Sextets(n, p, q, r, s)
  BY SMT DEF Sextets
<1>7. /\ p \in 0 .. 63 /\ q \in 0 .. 63 /\ r \in 0 .. 63 /\ s \in 0 .. 63
      /\ Number(p, q, r, s) = n /\ ThreeBytes(n) = <<a, c, d>>
      /\ h + 1 \notin DOMAIN b => r = 0
      /\ h + 2 \notin DOMAIN b => s = 0
  <2>1. n = 65536 * a + 256 * c + d
    BY <1>3, <1>5, SMT DEF Triple
  <2> QED BY <1>4, <1>6, <2>1, SextetsJoin, SMT
<1>8. PICK third, fourth : /\ third = IF h + 1 \in DOMAIN b THEN r ELSE Padding
                           /\ fourth = IF h + 2 \in DOMAIN b THEN s ELSE Padding
  OBVIOUS
<1>9. PICK four : four = [k \in 1 .. 4 |-> Base64(b)[4 * (g - 1) + k]]
  OBVIOUS
<1>10. four[1] = p /\ four[2] = q /\ four[3] = third /\ four[4] = fourth
  <2>1. \A j \in 1 .. 4 : Base64(b)[4 * (g - 1) + j] = Sextet(b, h, j)
    BY LettersAre
  <2>2. \A j \in 1 .. 4 : four[j] = Sextet(b, h, j)
    BY <1>9, <2>1
  <2>3. /\ Sextet(b, h, 1) = p /\ Sextet(b, h, 2) = q
        /\ Sextet(b, h, 3) = third /\ Sextet(b, h, 4) = fourth
    BY <1>5, <1>6, <1>8, SextetIs
  <2> QED BY <2>2, <2>3
<1>11. third % 64 = r /\ fourth % 64 = s
  BY <1>7, <1>8 DEF Padding
<1>12. PICK pad : pad = {k \in 1 .. 4 : four[k] = Padding}
  OBVIOUS
<1>13. DecodedGroup(Base64(b), g) = SubSeq(<<a, c, d>>, 1, 3 - Cardinality(pad))
  <2>1. DecodedGroup(Base64(b), g) =
           SubSeq(ThreeBytes(Number(four[1], four[2], four[3] % 64, four[4] % 64)), 1,
                  3 - Cardinality(pad))
    BY <1>9, <1>12, Zenon DEF DecodedGroup
  <2>2. Number(four[1], four[2], four[3] % 64, four[4] % 64) = n
    BY <1>7, <1>10, <1>11, Zenon
  <2> QED BY <1>7, <2>1, <2>2, Zenon
<1>14. PICK e \in Nat : e = EndOfGroup(b, g)
  <2>1. EndOfGroup(b, g) \in Nat
    BY <1>1 DEF EndOfGroup
  <2> QED BY <2>1
<1>15. /\ h <= e /\ e <= l /\ e <= h + 2 /\ 3 - Cardinality(pad) = e + 1 - h
  <2>1. 3 * g = h + 2
    OBVIOUS
  <2>2. \A k \in 1 .. 4 : k = 1 \/ k = 2 \/ k = 3 \/ k = 4
    OBVIOUS
  <2>3. four[1] # Padding /\ four[2] # Padding
    BY <1>7, <1>10 DEF Padding
  <2>4. CASE h + 2 <= l
    <3>1. h + 1 \in DOMAIN b /\ h + 2 \in DOMAIN b
      BY <1>2, <2>4
    <3>2. four[3] = r /\ four[4] = s
      BY <1>8, <1>10, <3>1
    <3>6. four[3] # Padding /\ four[4] # Padding
      <4>1. r \in 0 .. 63 /\ s \in 0 .. 63
        BY <1>7, Zenon
      <4>2. r # 64 /\ s # 64
        BY <4>1
      <4> QED BY <3>2, <4>2 DEF Padding
    <3>3. pad = {}
      BY <1>12, <2>2, <2>3, <3>6
    <3>4. Cardinality(pad) = 0
      BY <3>3, FS_EmptySet
    <3>5. e = h + 2
      BY <1>1, <1>14, <2>1, <2>4 DEF EndOfGroup
    <3> QED BY <2>4, <3>4, <3>5
  <2>5. CASE ~(h + 2 <= l) /\ h + 1 <= l
    <3>1. h + 1 \in DOMAIN b /\ h + 2 \notin DOMAIN b
      BY <1>2, <2>5
    <3>2. four[3] # Padding /\ four[4] = Padding
      BY <1>7, <1>8, <1>10, <3>1 DEF Padding
    <3>3. pad = {4}
      BY <1>12, <2>2, <2>3, <3>2
    <3>4. Cardinality(pad) = 1
      BY <3>3, FS_Singleton
    <3>5. e = h + 1
      BY <1>1, <1>14, <2>1, <2>5 DEF EndOfGroup
    <3> QED BY <2>5, <3>4, <3>5
  <2>6. CASE ~(h + 1 <= l)
    <3>1. h + 1 \notin DOMAIN b /\ h + 2 \notin DOMAIN b
      BY <1>2, <2>6
    <3>2. four[3] = Padding /\ four[4] = Padding
      BY <1>8, <1>10, <3>1
    <3>3. pad = {3} \cup {4}
      BY <1>12, <2>2, <2>3, <3>2
    <3>4. Cardinality(pad) = 2
      <4>1. IsFiniteSet({3}) /\ Cardinality({3}) = 1
        BY FS_Singleton
      <4>2. 4 \notin {3}
        OBVIOUS
      <4>3. Cardinality({3} \cup {4}) = Cardinality({3}) + 1
        BY <4>1, <4>2, FS_AddElement
      <4>4. Cardinality(pad) = Cardinality({3}) + 1
        BY ONLY <3>3, <4>3, Zenon
      <4> QED BY ONLY <4>1, <4>4, SMT
    <3>5. e = h
      BY <1>1, <1>14, <2>1, <2>6 DEF EndOfGroup
    <3> QED BY <1>1, <2>6, <3>4, <3>5
  <2> QED BY <1>1, <2>4, <2>5, <2>6
<1>16. DecodedGroup(Base64(b), g) = SubSeq(<<a, c, d>>, 1, e + 1 - h)
  BY <1>13, <1>15
<1>17. PICK abc : abc = <<a, c, d>>
  OBVIOUS
<1>18. abc \in Seq(Byte) /\ Len(abc) = 3 /\ abc[1] = a /\ abc[2] = c /\ abc[3] = d
  BY <1>4, <1>17
<1>19. PICK u, v : u = SubSeq(abc, 1, e + 1 - h) /\ v = SubSeq(b, h, e)
  OBVIOUS
<1>20. PICK w \in 1 .. 3 : w = e + 1 - h
  BY <1>1, <1>15
<1>21. u \in Seq(Byte) /\ Len(u) = w /\ \A i \in 1 .. w : u[i] = abc[i]
  <2>1. 1 \in 1 .. Len(abc) + 1 /\ w \in 1 - 1 .. Len(abc) /\ w + 1 - 1 = w
    BY <1>18, <1>20
  <2>2. /\ u \in Seq(Byte) /\ Len(u) = w + 1 - 1 /\ \A i \in 1 .. w + 1 - 1 : u[i] = abc[1 - 1 + i]
    <3>1. u = SubSeq(abc, 1, w)
      BY <1>19, <1>20
    <3> QED BY <1>18, <2>1, <3>1, SliceIs
  <2> QED BY <2>1, <2>2
<1>22. v \in Seq(Byte) /\ Len(v) = w /\ \A i \in 1 .. w : v[i] = b[h - 1 + i]
  <2>1. h \in 1 .. Len(b) + 1 /\ e \in h - 1 .. Len(b)
    BY <1>1, <1>15
  <2>2. /\ v \in Seq(Byte) /\ Len(v) = e + 1 - h /\ \A i \in 1 .. e + 1 - h : v[i] = b[h - 1 + i]
    BY <1>19, <2>1, SliceIs
  <2> QED BY <1>20, <2>2
<1>23. ASSUME NEW i \in 1 .. w PROVE u[i] = v[i]
  <2>1. h - 1 + i \in 1 .. l
    BY <1>1, <1>15, <1>20
  <2>2. u[i] = abc[i] /\ v[i] = b[h - 1 + i]
    BY <1>21, <1>22
  <2>3. CASE i = 1
    BY <1>4, <1>18, <2>2, <2>3
  <2>4. CASE i = 2
    <3>1. h - 1 + i = h + 1 /\ h + 1 \in DOMAIN b
      BY <1>2, <2>1, <2>4
    <3> QED BY <1>4, <1>18, <2>2, <2>4, <3>1
  <2>5. CASE i = 3
    <3>1. h - 1 + i = h + 2 /\ h + 2 \in DOMAIN b
      BY <1>2, <2>1, <2>5
    <3> QED BY <1>4, <1>18, <2>2, <2>5, <3>1
  <2> QED BY <1>20, <2>3, <2>4, <2>5
<1>24. u = v
  BY <1>21, <1>22, <1>23, SeqEqual
<1> QED BY <1>14, <1>16, <1>19, <1>24, <1>17

\* What is decoded is what was encoded.
LEMMA DecodeIs ==
    ASSUME NEW b \in Seq(Byte)
    PROVE  Decoded(Base64(b)) = b
<1>1. PICK l \in Nat : l = Len(b)
  OBVIOUS
<1>2. PICK m \in Nat : m = (l + 2) \div 3
  BY <1>1
<1>3. 3 * m >= l /\ 3 * m <= l + 2
  BY <1>1, <1>2
<1>4. PICK code : code = Base64(b)
  OBVIOUS
<1>5. Len(code) = 4 * m
  BY <1>1, <1>2, <1>4 DEF Base64
<1>6. PICK groups : groups = [g \in 1 .. m |-> DecodedGroup(code, g)]
  OBVIOUS
<1>7. Decoded(code) = FlattenSeq(groups)
  <2>1. Len(code) \div 4 = m
    BY <1>2, <1>5
  <2> QED BY <1>6, <2>1 DEF Decoded
<1>8. Len(groups) = m
  BY <1>2, <1>6
<1>9. ASSUME NEW g \in 1 .. m
      PROVE  /\ groups[g] = SubSeq(b, 3 * (g - 1) + 1, EndOfGroup(b, g))
             /\ 3 * (g - 1) + 1 <= l
             /\ g # 1 => EndOfGroup(b, g - 1) = 3 * (g - 1)
             /\ EndOfGroup(b, g) \in 3 * (g - 1) + 1 .. l
  <2>1. PICK h \in Nat : h = 3 * (g - 1) + 1
    BY <1>2
  <2>2. g \in Nat /\ g >= 1 /\ h <= l
    BY <1>1, <1>2, <1>3, <2>1
  <2>3. DecodedGroup(Base64(b), g) = SubSeq(b, h, EndOfGroup(b, g))
    BY <1>1, <2>1, <2>2, GroupDecodes
  <2>4. groups[g] = DecodedGroup(code, g)
    BY <1>6
  <2>5. g # 1 => EndOfGroup(b, g - 1) = 3 * (g - 1)
    BY <1>1, <2>1, <2>2 DEF EndOfGroup
  <2>6. EndOfGroup(b, g) \in h .. l
    BY <1>1, <2>1, <2>2 DEF EndOfGroup
  <2> QED BY <1>4, <2>1, <2>2, <2>3, <2>4, <2>5, <2>6
<1>10. CASE m = 0
  <2>1. l = 0
    BY <1>1, <1>3, <1>10
  <2>2. b = <<>>
    BY <1>1, <2>1, EmptySeq
  <2>3. groups = <<>>
    BY <1>6, <1>10
  <2>4. FlattenSeq(groups) = groups
    BY <1>8, <1>10 DEF FlattenSeq
  <2> QED BY <1>4, <1>7, <2>2, <2>3, <2>4
<1>11. CASE m # 0
  <2>1. PICK it : Flattens(it, groups, m) /\ FlattenSeq(groups) = it[m]
    BY <1>2, <1>8, <1>11, FlattenIs
  <2> DEFINE Bad == {g \in 1 .. m : it[g] # SubSeq(b, 1, EndOfGroup(b, g))}
  <2>2. Bad = {}
    <3>1. SUFFICES ASSUME Bad # {} PROVE FALSE
      OBVIOUS
    <3>2. PICK g \in Bad : \A k \in Bad : ~(k < g)
      <4>1. Bad \subseteq Nat
        OBVIOUS
      <4> HIDE DEF Bad
      <4> QED BY <3>1, <4>1, LeastNatural
    <3>3. g \in 1 .. m /\ it[g] # SubSeq(b, 1, EndOfGroup(b, g))
      BY <3>2
    <3>4. it[g] = IF g = 1 THEN groups[g] ELSE it[g - 1] \o groups[g]
      BY <2>1, <3>3 DEF Flattens
    <3>5. CASE g = 1
      <4>1. 3 * (g - 1) + 1 = 1
        BY <3>5
      <4> QED BY <1>9, <3>3, <3>4, <3>5, <4>1
    <3>6. CASE g # 1
      <4>1. g - 1 \in 1 .. m /\ g - 1 < g
        BY <1>2, <3>3, <3>6
      <4>2. it[g - 1] = SubSeq(b, 1, EndOfGroup(b, g - 1))
        BY <3>2, <4>1
      <4>3. PICK k \in Nat, e \in Nat : k = 3 * (g - 1) /\ e = EndOfGroup(b, g)
        <5>1. 3 * (g - 1) \in Nat /\ EndOfGroup(b, g) \in Nat
          BY <1>1, <1>2, <1>9, <3>3
        <5> QED BY <5>1
      <4>4. /\ EndOfGroup(b, g - 1) = k /\ k <= l /\ e \in k .. l
            /\ groups[g] = SubSeq(b, k + 1, e)
        <5>1. /\ groups[g] = SubSeq(b, 3 * (g - 1) + 1, EndOfGroup(b, g))
              /\ 3 * (g - 1) + 1 <= l /\ EndOfGroup(b, g - 1) = 3 * (g - 1)
              /\ EndOfGroup(b, g) \in 3 * (g - 1) + 1 .. l
          BY <1>9, <3>3, <3>6
        <5>2. k + 1 <= l /\ e \in k + 1 .. l /\ groups[g] = SubSeq(b, k + 1, e)
          BY <4>3, <5>1
        <5>3. EndOfGroup(b, g - 1) = k
          BY <4>3, <5>1
        <5> QED BY <1>1, <4>3, <5>2, <5>3
      <4>5. SubSeq(b, 1, k) \o SubSeq(b, k + 1, e) = SubSeq(b, 1, e)
        <5>1. 1 \in 1 .. Len(b) + 1 /\ k \in 1 - 1 .. Len(b) /\ e \in k .. Len(b)
          BY <1>1, <4>3, <4>4
        <5> QED BY <5>1, ConcatAdjacentSubSeq
      <4>6. it[g] = SubSeq(b, 1, e)
        BY <3>4, <3>6, <4>2, <4>4, <4>5
      <4> QED BY <3>3, <4>3, <4>6
    <3> QED BY <3>5, <3>6
  <2>3. m \in 1 .. m
    BY <1>2, <1>11
  <2>4. it[m] = SubSeq(b, 1, EndOfGroup(b, m))
    BY <2>2, <2>3
  <2>5. EndOfGroup(b, m) = l
    BY <1>1, <1>2, <1>3 DEF EndOfGroup
  <2>6. SubSeq(b, 1, l) = b
    BY <1>1, SubSeqFull
  <2> QED BY <1>4, <1>7, <2>1, <2>4, <2>5, <2>6
<1> QED BY <1>10, <1>11

\* Every chunk of the display decodes by itself, and the chunks, in order, are
\* the output, wherever it was cut (base64_encode of terminal.rs): the padding of
\* a chunk is not in the way of the next.
THEOREM ChunksMakeTheOutput == ValuesSpec => []ChunksDecode
<1>1. ASSUME ValuesInv PROVE ChunksDecode
  <2>1. PICK b \in Seq(Byte) : b = Bytes(text)
    BY <1>1 DEF ValuesInv, TextOK
  <2>2. ASSUME NEW cut \in 0 .. Len(b)
        PROVE  Decoded(Base64(SubSeq(b, 1, cut)))
                  \o Decoded(Base64(SubSeq(b, cut + 1, Len(b)))) = b
    <3>1. Len(b) \in Nat
      OBVIOUS
    <3>2. /\ 1 \in 1 .. Len(b) + 1 /\ cut \in 1 - 1 .. Len(b)
          /\ cut + 1 \in 1 .. Len(b) + 1 /\ Len(b) \in cut + 1 - 1 .. Len(b)
          /\ Len(b) \in cut .. Len(b)
      BY <3>1
    <3>3. SubSeq(b, 1, cut) \in Seq(Byte) /\ SubSeq(b, cut + 1, Len(b)) \in Seq(Byte)
      BY <3>2, SliceIs
    <3>4. /\ Decoded(Base64(SubSeq(b, 1, cut))) = SubSeq(b, 1, cut)
          /\ Decoded(Base64(SubSeq(b, cut + 1, Len(b)))) = SubSeq(b, cut + 1, Len(b))
      BY <3>3, DecodeIs
    <3>5. SubSeq(b, 1, cut) \o SubSeq(b, cut + 1, Len(b)) = SubSeq(b, 1, Len(b))
      BY <3>2, ConcatAdjacentSubSeq
    <3>6. SubSeq(b, 1, Len(b)) = b
      BY SubSeqFull
    <3> QED BY <3>4, <3>5, <3>6
  <2> QED BY <2>1, <2>2 DEF ChunksDecode
<1>2. ValuesInv => ChunksDecode
  BY <1>1
<1> QED BY <1>2, ValuesInvariant, PTL

-----------------------------------------------------------------------------
(* What FlattenSeq makes of two parts.                                     *)

\* FlattenSeq of one more sequence, empty or not.
LEMMA FlattenMore ==
    ASSUME NEW S, NEW seqs \in Seq(Seq(S)), NEW x \in Seq(S), FlattenSeq(seqs) \in Seq(S)
    PROVE  /\ FlattenSeq(Append(seqs, x)) = FlattenSeq(seqs) \o x
           /\ FlattenSeq(Append(seqs, x)) \in Seq(S)
<1>1. FlattenSeq(Append(seqs, x)) = IF seqs = <<>> THEN x ELSE FlattenSeq(seqs) \o x
  BY FlattenAppend
<1>2. FlattenSeq(<<>>) = <<>>
  BY EmptySeq DEF FlattenSeq
<1>3. <<>> \o x = x /\ FlattenSeq(seqs) \o x \in Seq(S)
  BY ConcatEmptySeq, ConcatProperties
<1>4. CASE seqs = <<>>
  BY <1>1, <1>2, <1>3, <1>4
<1>5. CASE seqs # <<>>
  BY <1>1, <1>3, <1>5
<1> QED BY <1>4, <1>5

\* The beginning of a sequence, one element longer.
LEMMA PrefixGrows ==
    ASSUME NEW S, NEW s \in Seq(S), NEW k \in 1 .. Len(s)
    PROVE  /\ SubSeq(s, 1, k - 1) \in Seq(S) /\ s[k] \in S
           /\ SubSeq(s, 1, k) = Append(SubSeq(s, 1, k - 1), s[k])
<1>1. 1 \in 1 .. Len(s) /\ 1 \in 1 .. Len(s) + 1 /\ k - 1 \in 1 - 1 .. Len(s)
  BY LenProperties
<1>2. s[k] \in S
  BY ElementOfSeq
<1>3. SubSeq(s, 1, k) = SubSeq(s, 1, k - 1) \o <<s[k]>>
  BY <1>1, SubSeqRecursiveSecond
<1>4. SubSeq(s, 1, k - 1) \in Seq(S)
  BY <1>1, SliceIs
<1> QED BY <1>2, <1>3, <1>4, AppendIsConcat

\* What is put together is a sequence.
LEMMA FlattenTyped ==
    ASSUME NEW S, NEW seqs \in Seq(Seq(S))
    PROVE  FlattenSeq(seqs) \in Seq(S)
<1> DEFINE Bad == {k \in 0 .. Len(seqs) : FlattenSeq(SubSeq(seqs, 1, k)) \notin Seq(S)}
<1>1. Bad = {}
  <2>1. SUFFICES ASSUME Bad # {} PROVE FALSE
    OBVIOUS
  <2>2. PICK k \in Bad : \A j \in Bad : ~(j < k)
    <3>1. Bad \subseteq Nat
      BY LenProperties
    <3> HIDE DEF Bad
    <3> QED BY <2>1, <3>1, LeastNatural
  <2>3. CASE k = 0
    <3>1. SubSeq(seqs, 1, k) = <<>>
      BY <2>3, SubSeqEmpty
    <3>2. FlattenSeq(<<>>) = <<>> /\ <<>> \in Seq(S)
      BY EmptySeq DEF FlattenSeq
    <3> QED BY <2>2, <3>1, <3>2
  <2>4. CASE k # 0
    <3>1. k \in 1 .. Len(seqs) /\ k - 1 \in 0 .. Len(seqs) /\ k - 1 < k
      BY <2>2, <2>4, LenProperties
    <3>2. FlattenSeq(SubSeq(seqs, 1, k - 1)) \in Seq(S)
      BY <2>2, <3>1
    <3>3. /\ SubSeq(seqs, 1, k - 1) \in Seq(Seq(S)) /\ seqs[k] \in Seq(S)
          /\ SubSeq(seqs, 1, k) = Append(SubSeq(seqs, 1, k - 1), seqs[k])
      BY <3>1, PrefixGrows
    <3>4. FlattenSeq(SubSeq(seqs, 1, k)) \in Seq(S)
      BY <3>2, <3>3, FlattenMore
    <3> QED BY <2>2, <3>4
  <2> QED BY <2>3, <2>4
<1>2. Len(seqs) \in 0 .. Len(seqs) /\ SubSeq(seqs, 1, Len(seqs)) = seqs
  BY SubSeqFull, LenProperties
<1> QED BY <1>1, <1>2

\* One more element in the second of two parts.
LEMMA ConcatGrows ==
    ASSUME NEW S, NEW a \in Seq(S), NEW c \in Seq(S), NEW x \in S
    PROVE  a \o Append(c, x) = Append(a \o c, x) /\ a \o c \in Seq(S)
<1>1. PICK y \in Seq(S) : y = <<x>>
  <2>1. <<x>> \in Seq(S)
    OBVIOUS
  <2> QED BY <2>1
<1>2. Append(c, x) = c \o y
  BY <1>1, AppendIsConcat
<1>3. PICK d \in Seq(S) : d = a \o c
  BY ConcatProperties
<1>4. d \o y = a \o (c \o y)
  BY <1>3, ConcatAssociative
<1>5. Append(d, x) = d \o y
  BY <1>1, <1>3, AppendIsConcat
<1> QED BY <1>2, <1>3, <1>4, <1>5

\* One more sequence in the second of two parts.
LEMMA FlattenGrows ==
    ASSUME NEW S, NEW a \in Seq(Seq(S)), NEW c \in Seq(Seq(S)), NEW x \in Seq(S),
           FlattenSeq(a \o c) = FlattenSeq(a) \o FlattenSeq(c)
    PROVE  FlattenSeq(a \o Append(c, x)) = FlattenSeq(a) \o FlattenSeq(Append(c, x))
<1>1. a \o Append(c, x) = Append(a \o c, x) /\ a \o c \in Seq(Seq(S))
  BY ConcatGrows
<1>2. PICK u \in Seq(S), v \in Seq(S) : u = FlattenSeq(a) /\ v = FlattenSeq(c)
  BY FlattenTyped
<1>3. FlattenSeq(a \o c) \in Seq(S)
  BY <1>1, FlattenTyped
<1>4. FlattenSeq(Append(a \o c, x)) = FlattenSeq(a \o c) \o x
  BY <1>1, <1>3, FlattenMore
<1>5. FlattenSeq(Append(c, x)) = v \o x
  BY <1>2, FlattenMore
<1>6. (u \o v) \o x = u \o (v \o x)
  BY <1>2, ConcatAssociative
<1> QED BY <1>1, <1>2, <1>4, <1>5, <1>6

\* Sequences put together in two parts.
LEMMA FlattenConcat ==
    ASSUME NEW S, NEW a \in Seq(Seq(S)), NEW b \in Seq(Seq(S))
    PROVE  FlattenSeq(a \o b) = FlattenSeq(a) \o FlattenSeq(b)
<1> DEFINE Bad == {k \in 0 .. Len(b) : FlattenSeq(a \o SubSeq(b, 1, k))
                                           # FlattenSeq(a) \o FlattenSeq(SubSeq(b, 1, k))}
<1>1. Bad = {}
  <2>1. SUFFICES ASSUME Bad # {} PROVE FALSE
    OBVIOUS
  <2>2. PICK k \in Bad : \A j \in Bad : ~(j < k)
    <3>1. Bad \subseteq Nat
      BY LenProperties
    <3> HIDE DEF Bad
    <3> QED BY <2>1, <3>1, LeastNatural
  <2>3. FlattenSeq(a) \in Seq(S)
    BY FlattenTyped
  <2>4. CASE k = 0
    <3>1. SubSeq(b, 1, k) = <<>>
      BY <2>4, SubSeqEmpty
    <3>2. FlattenSeq(<<>>) = <<>>
      BY EmptySeq DEF FlattenSeq
    <3>3. a \o <<>> = a /\ FlattenSeq(a) \o <<>> = FlattenSeq(a)
      BY <2>3, ConcatEmptySeq
    <3> QED BY <2>2, <3>1, <3>2, <3>3
  <2>5. CASE k # 0
    <3>1. k \in 1 .. Len(b) /\ k - 1 \in 0 .. Len(b) /\ k - 1 < k
      BY <2>2, <2>5, LenProperties
    <3>2. PICK c, x : c = SubSeq(b, 1, k - 1) /\ x = b[k]
      OBVIOUS
    <3>3. FlattenSeq(a \o c) = FlattenSeq(a) \o FlattenSeq(c)
      BY <2>2, <3>1, <3>2
    <3>4. /\ c \in Seq(Seq(S)) /\ x \in Seq(S)
          /\ SubSeq(b, 1, k) = Append(c, x)
      BY <3>1, <3>2, PrefixGrows
    <3>5. FlattenSeq(a \o Append(c, x)) = FlattenSeq(a) \o FlattenSeq(Append(c, x))
      <4> HIDE DEF Bad
      <4> QED BY <3>3, <3>4, FlattenGrows
    <3> QED BY <2>2, <3>4, <3>5
  <2> QED BY <2>4, <2>5
<1>2. Len(b) \in 0 .. Len(b) /\ SubSeq(b, 1, Len(b)) = b
  BY SubSeqFull, LenProperties
<1> QED BY <1>1, <1>2

-----------------------------------------------------------------------------
(* Lines put together.                                                     *)

Char == Characters \cup {Newline}
Line == Seq(Char)
Closed(lines) == [n \in DOMAIN lines |-> Append(lines[n], Newline)]
Terminated(lines) == FlattenSeq(Closed(lines))

\* One more line, ended or not.
LEMMA LineAdded ==
    ASSUME NEW lines \in Seq(Line), NEW x \in Line
    PROVE  /\ Closed(lines) \in Seq(Line) /\ Terminated(lines) \in Line
           /\ Append(x, Newline) \in Line
           /\ Closed(Append(lines, x)) = Append(Closed(lines), Append(x, Newline))
           /\ Terminated(Append(lines, x)) = Terminated(lines) \o Append(x, Newline)
           /\ Joined(Append(lines, x)) = Terminated(lines) \o x
<1>1. Newline \in Char
  BY DEF Char
<1>2. \A y \in Line : Append(y, Newline) \in Line
  BY <1>1, AppendProperties DEF Line
<1>3. Closed(lines) \in Seq(Line) /\ Len(Closed(lines)) = Len(lines)
  <2>1. /\ Len(lines) \in Nat /\ DOMAIN lines = 1 .. Len(lines)
        /\ \A n \in 1 .. Len(lines) : lines[n] \in Line
    BY LenProperties, ElementOfSeq
  <2>2. Closed(lines) \in [1 .. Len(lines) -> Line]
    BY <1>2, <2>1 DEF Closed
  <2> QED BY <2>1, <2>2
<1>4. PICK n \in Nat, more \in Seq(Line) :
        /\ n = Len(lines) /\ more = Append(lines, x) /\ Len(more) = n + 1
        /\ DOMAIN more = 1 .. n + 1 /\ DOMAIN lines = 1 .. n
        /\ more[n + 1] = x /\ \A i \in 1 .. n : more[i] = lines[i]
  <2>1. /\ Append(lines, x) \in Seq(Line) /\ Len(Append(lines, x)) = Len(lines) + 1
        /\ Append(lines, x)[Len(lines) + 1] = x
        /\ \A i \in 1 .. Len(lines) : Append(lines, x)[i] = lines[i]
    BY AppendProperties
  <2>2. Len(lines) \in Nat /\ DOMAIN lines = 1 .. Len(lines)
    BY LenProperties
  <2>3. DOMAIN Append(lines, x) = 1 .. Len(lines) + 1
    BY <2>1, LenProperties
  <2> QED BY <2>1, <2>2, <2>3
<1>5. Closed(lines) \in [1 .. n -> Line] /\ \A i \in 1 .. n : Closed(lines)[i] = Append(lines[i], Newline)
  BY <1>3, <1>4, LenProperties DEF Closed
<1>6. ASSUME NEW y \in Line
      PROVE  Append(Closed(lines), y) = [i \in 1 .. n + 1 |-> IF i = n + 1 THEN y ELSE Append(lines[i], Newline)]
  <2>1. PICK u : u = Append(Closed(lines), y)
    OBVIOUS
  <2>2. /\ u \in Seq(Line) /\ Len(u) = n + 1 /\ u[n + 1] = y
        /\ \A i \in 1 .. n : u[i] = Closed(lines)[i]
    BY <1>3, <1>4, <2>1, AppendProperties
  <2>3. DOMAIN u = 1 .. n + 1 /\ u = [i \in DOMAIN u |-> u[i]]
    BY <2>2, LenProperties
  <2>4. \A i \in 1 .. n + 1 : u[i] = IF i = n + 1 THEN y ELSE Append(lines[i], Newline)
    <3>1. \A i \in 1 .. n + 1 : i = n + 1 \/ i \in 1 .. n
      BY <1>4
    <3> QED BY <1>5, <2>2, <3>1
  <2> QED BY <2>1, <2>3, <2>4
<1>7. Closed(Append(lines, x)) = Append(Closed(lines), Append(x, Newline))
  <2>1. Closed(more) = [i \in 1 .. n + 1 |-> Append(more[i], Newline)]
    BY <1>4 DEF Closed
  <2>2. \A i \in 1 .. n + 1 :
          Append(more[i], Newline) = IF i = n + 1 THEN Append(x, Newline) ELSE Append(lines[i], Newline)
    <3>1. \A i \in 1 .. n + 1 : i = n + 1 \/ i \in 1 .. n
      BY <1>4
    <3> QED BY <1>4, <3>1
  <2>3. Append(x, Newline) \in Line
    BY <1>2
  <2>4. Append(Closed(lines), Append(x, Newline))
          = [i \in 1 .. n + 1 |-> IF i = n + 1 THEN Append(x, Newline) ELSE Append(lines[i], Newline)]
    BY <1>6, <2>3
  <2> QED BY <1>4, <2>1, <2>2, <2>4
<1>8. Joined(Append(lines, x)) = FlattenSeq(Append(Closed(lines), x))
  <2>1. Joined(more) = FlattenSeq([i \in 1 .. n + 1 |->
                          IF i = n + 1 THEN more[i] ELSE Append(more[i], Newline)])
    BY <1>4 DEF Joined
  <2>2. \A i \in 1 .. n + 1 :
          (IF i = n + 1 THEN more[i] ELSE Append(more[i], Newline))
            = IF i = n + 1 THEN x ELSE Append(lines[i], Newline)
    <3>1. \A i \in 1 .. n + 1 : i = n + 1 \/ i \in 1 .. n
      BY <1>4
    <3> QED BY <1>4, <3>1
  <2>3. Append(Closed(lines), x)
          = [i \in 1 .. n + 1 |-> IF i = n + 1 THEN x ELSE Append(lines[i], Newline)]
    BY <1>6
  <2> QED BY <1>4, <2>1, <2>2, <2>3
<1>9. Terminated(lines) \in Line
  BY <1>3, FlattenTyped DEF Terminated, Line
<1>10. \A y \in Line : FlattenSeq(Append(Closed(lines), y)) = Terminated(lines) \o y
  BY <1>3, <1>9, FlattenMore DEF Terminated, Line
<1> QED BY <1>2, <1>3, <1>7, <1>8, <1>9, <1>10 DEF Terminated

\* No line, nothing.
LEMMA NoLine ==
    /\ <<>> \in Seq(Line) /\ <<>> \in Line
    /\ Terminated(<<>>) = <<>> /\ Joined(<<>>) = <<>>
<1>1. <<>> \in Seq(Line) /\ <<>> \in Line /\ Len(<<>>) = 0 /\ DOMAIN <<>> = {}
  BY EmptySeq DEF Line
<1>2. Closed(<<>>) = <<>>
  BY <1>1 DEF Closed
<1>3. FlattenSeq(<<>>) = <<>>
  BY <1>1 DEF FlattenSeq
<1>4. Joined(<<>>) = FlattenSeq(<<>>)
  BY <1>1 DEF Joined
<1> QED BY <1>1, <1>2, <1>3, <1>4 DEF Terminated

\* Lines in two parts.
LEMMA TerminatedConcat ==
    ASSUME NEW a \in Seq(Line), NEW b \in Seq(Line)
    PROVE  Terminated(a \o b) = Terminated(a) \o Terminated(b)
<1>1. PICK m \in Nat, n \in Nat, c \in Seq(Line) :
        /\ m = Len(a) /\ n = Len(b) /\ c = a \o b /\ Len(c) = m + n
        /\ \A i \in 1 .. m + n : c[i] = IF i <= m THEN a[i] ELSE b[i - m]
  <2>1. /\ a \o b \in Seq(Line) /\ Len(a \o b) = Len(a) + Len(b)
        /\ \A i \in 1 .. Len(a) + Len(b) :
              (a \o b)[i] = IF i <= Len(a) THEN a[i] ELSE b[i - Len(a)]
    BY ConcatProperties
  <2>2. Len(a) \in Nat /\ Len(b) \in Nat
    BY LenProperties
  <2> QED BY <2>1, <2>2
<1>2. PICK u \in Seq(Line), v \in Seq(Line), w \in Seq(Line) :
        u = Closed(a) /\ v = Closed(b) /\ w = Closed(c)
  <2>1. Closed(a) \in Seq(Line) /\ Closed(b) \in Seq(Line) /\ Closed(c) \in Seq(Line)
    BY <1>1, NoLine, LineAdded
  <2> QED BY <2>1
<1>3. /\ Len(u) = m /\ Len(v) = n /\ Len(w) = m + n
      /\ \A i \in 1 .. m : u[i] = Append(a[i], Newline)
      /\ \A i \in 1 .. n : v[i] = Append(b[i], Newline)
      /\ \A i \in 1 .. m + n : w[i] = Append(c[i], Newline)
  <2>1. DOMAIN a = 1 .. m /\ DOMAIN b = 1 .. n /\ DOMAIN c = 1 .. m + n
    BY <1>1, LenProperties
  <2> QED BY <1>1, <1>2, <2>1 DEF Closed
<1>4. /\ u \o v \in Seq(Line) /\ Len(u \o v) = m + n
      /\ \A i \in 1 .. m + n : (u \o v)[i] = IF i <= m THEN u[i] ELSE v[i - m]
  BY <1>3, ConcatProperties
<1>5. ASSUME NEW i \in 1 .. m + n PROVE (u \o v)[i] = w[i]
  <2>1. CASE i <= m
    <3>1. i \in 1 .. m
      BY <1>1, <2>1
    <3> QED BY <1>1, <1>3, <1>4, <2>1, <3>1
  <2>2. CASE ~(i <= m)
    <3>1. i - m \in 1 .. n
      BY <1>1, <2>2
    <3> QED BY <1>1, <1>3, <1>4, <2>2, <3>1
  <2> QED BY <2>1, <2>2
<1>6. u \o v = w
  BY <1>3, <1>4, <1>5, SeqEqual
<1>7. FlattenSeq(u \o v) = FlattenSeq(u) \o FlattenSeq(v)
  BY FlattenConcat DEF Line
<1> QED BY <1>1, <1>2, <1>6, <1>7 DEF Terminated

\* A newline after the joined lines ends the last of them.
LEMMA JoinedEnds ==
    ASSUME NEW lines \in Seq(Line), lines # <<>>
    PROVE  Joined(lines) \in Line /\ Append(Joined(lines), Newline) = Terminated(lines)
<1>1. PICK most \in Seq(Line), x \in Line : lines = Append(most, x)
  BY SequenceEmptyOrAppend
<1>2. PICK u \in Line : u = Terminated(most)
  BY <1>1, LineAdded
<1>3. Joined(lines) = u \o x /\ Terminated(lines) = u \o Append(x, Newline)
  BY <1>1, <1>2, LineAdded
<1>4. u \o Append(x, Newline) = Append(u \o x, Newline) /\ u \o x \in Line
  BY ConcatGrows DEF Line, Char
<1> QED BY <1>3, <1>4

\* Lines that amount to the same when each is ended are the same when joined.
LEMMA JoinedSame ==
    ASSUME NEW a \in Seq(Line), NEW b \in Seq(Line), a # <<>>, b # <<>>,
           Terminated(a) = Terminated(b)
    PROVE  Joined(a) = Joined(b)
<1>1. PICK u \in Line, v \in Line : u = Joined(a) /\ v = Joined(b)
  BY JoinedEnds
<1>2. Append(u, Newline) = Append(v, Newline)
  BY <1>1, JoinedEnds
<1>3. Newline \in Char
  BY DEF Char
<1>4. u \in Seq(Char) /\ v \in Seq(Char)
  BY DEF Line
<1>5. u = v
  BY <1>2, <1>3, <1>4, AppendInjective
<1> QED BY <1>1, <1>5

\* Lines cut into pages, no page empty, are the same when the pages are joined.
LEMMA PagesJoin ==
    ASSUME NEW lines \in Seq(Line), NEW m \in Nat, NEW ends \in [0 .. m -> 0 .. Len(lines)],
           ends[0] = 0, ends[m] = Len(lines),
           \A k \in 1 .. m : ends[k - 1] < ends[k]
    PROVE  Joined([k \in 1 .. m |-> Joined(SubSeq(lines, ends[k - 1] + 1, ends[k]))])
              = Joined(lines)
<1>1. PICK l \in Nat : l = Len(lines)
  BY LenProperties
<1>2. PICK pages : pages = [k \in 1 .. m |-> Joined(SubSeq(lines, ends[k - 1] + 1, ends[k]))]
  OBVIOUS
<1>3. ASSUME NEW k \in 1 .. m
      PROVE  LET part == SubSeq(lines, ends[k - 1] + 1, ends[k]) IN
             /\ part \in Seq(Line)
             /\ pages[k] = Joined(part) /\ pages[k] \in Line
             /\ Append(pages[k], Newline) = Terminated(part)
             /\ SubSeq(lines, 1, ends[k - 1]) \in Seq(Line)
             /\ SubSeq(lines, 1, ends[k]) = SubSeq(lines, 1, ends[k - 1]) \o part
  <2>1. PICK from \in Nat, to \in Nat : from = ends[k - 1] /\ to = ends[k]
    <3>1. k - 1 \in 0 .. m /\ k \in 0 .. m
      OBVIOUS
    <3>2. ends[k - 1] \in 0 .. l /\ ends[k] \in 0 .. l
      BY <1>1, <3>1
    <3> QED BY <1>1, <3>2
  <2>2. from < to /\ to <= l
    <3>1. k \in 0 .. m
      OBVIOUS
    <3> QED BY <1>1, <2>1, <3>1
  <2>3. PICK part : part = SubSeq(lines, from + 1, to)
    OBVIOUS
  <2>4. part \in Seq(Line) /\ Len(part) = to - from
    <3>1. /\ from + 1 \in 1 .. Len(lines) + 1 /\ to \in from + 1 - 1 .. Len(lines)
          /\ to + 1 - (from + 1) = to - from
      BY <1>1, <2>2
    <3>2. /\ SubSeq(lines, from + 1, to) \in Seq(Line)
          /\ Len(SubSeq(lines, from + 1, to)) = to + 1 - (from + 1)
      BY <3>1, SliceIs
    <3> QED BY <2>3, <3>1, <3>2
  <2>5. part # <<>>
    BY <2>2, <2>4, EmptySeq
  <2>6. pages[k] = Joined(part)
    BY <1>2, <2>1, <2>3
  <2>7. Joined(part) \in Line /\ Append(Joined(part), Newline) = Terminated(part)
    BY <2>4, <2>5, JoinedEnds
  <2>8. SubSeq(lines, 1, from) \in Seq(Line)
    <3>1. 1 \in 1 .. Len(lines) + 1 /\ from \in 1 - 1 .. Len(lines)
      BY <1>1, <2>2
    <3> QED BY <3>1, SliceIs
  <2>9. SubSeq(lines, 1, from) \o SubSeq(lines, from + 1, to) = SubSeq(lines, 1, to)
    <3>1. 1 \in 1 .. Len(lines) + 1 /\ from \in 1 - 1 .. Len(lines) /\ to \in from .. Len(lines)
      BY <1>1, <2>2
    <3> QED BY <3>1, ConcatAdjacentSubSeq
  <2> QED BY <2>1, <2>3, <2>4, <2>6, <2>7, <2>8, <2>9
<1>4. pages \in Seq(Line) /\ Len(pages) = m
  <2>1. pages \in [1 .. m -> Line]
    BY <1>2, <1>3
  <2> QED BY <2>1
<1> DEFINE Bad == {k \in 0 .. m : Terminated(SubSeq(pages, 1, k))
                                     # Terminated(SubSeq(lines, 1, ends[k]))}
<1>5. Bad = {}
  <2>1. SUFFICES ASSUME Bad # {} PROVE FALSE
    OBVIOUS
  <2>2. PICK k \in Bad : \A j \in Bad : ~(j < k)
    <3>1. Bad \subseteq Nat
      OBVIOUS
    <3> HIDE DEF Bad
    <3> QED BY <2>1, <3>1, LeastNatural
  <2>3. CASE k = 0
    <3>1. SubSeq(pages, 1, k) = <<>> /\ SubSeq(lines, 1, ends[k]) = <<>>
      BY <2>3, SubSeqEmpty
    <3> QED BY <2>2, <3>1
  <2>4. CASE k # 0
    <3>1. k \in 1 .. m /\ k - 1 \in 0 .. m /\ k - 1 < k
      BY <2>2, <2>4
    <3>2. PICK part, first, done :
             /\ part = SubSeq(lines, ends[k - 1] + 1, ends[k])
             /\ first = SubSeq(lines, 1, ends[k - 1])
             /\ done = SubSeq(pages, 1, k - 1)
      OBVIOUS
    <3>3. Terminated(done) = Terminated(first)
      BY <2>2, <3>1, <3>2
    <3>4. /\ part \in Seq(Line) /\ first \in Seq(Line) /\ pages[k] \in Line
          /\ Append(pages[k], Newline) = Terminated(part)
          /\ SubSeq(lines, 1, ends[k]) = first \o part
      BY <1>3, <3>1, <3>2
    <3>5. done \in Seq(Line) /\ SubSeq(pages, 1, k) = Append(done, pages[k])
      <4>1. k \in 1 .. Len(pages)
        BY <1>4, <3>1
      <4> QED BY <1>4, <3>2, <4>1, PrefixGrows
    <3>6. Terminated(Append(done, pages[k])) = Terminated(done) \o Append(pages[k], Newline)
      BY <3>4, <3>5, LineAdded
    <3>7. Terminated(first \o part) = Terminated(first) \o Terminated(part)
      BY <3>4, TerminatedConcat
    <3>8. Terminated(SubSeq(pages, 1, k)) = Terminated(SubSeq(lines, 1, ends[k]))
      BY <3>3, <3>4, <3>5, <3>6, <3>7
    <3> QED BY <2>2, <3>8
  <2> QED BY <2>3, <2>4
<1>6. Terminated(pages) = Terminated(lines)
  <2>1. m \in 0 .. m
    OBVIOUS
  <2>2. SubSeq(pages, 1, m) = pages /\ SubSeq(lines, 1, ends[m]) = lines
    BY <1>4, SubSeqFull
  <2> QED BY <1>5, <2>1, <2>2
<1>7. CASE m = 0
  <2>1. lines = <<>> /\ pages = <<>>
    BY <1>1, <1>4, <1>7, EmptySeq
  <2> QED BY <1>2, <2>1
<1>8. CASE m # 0
  <2>1. 0 \in 0 .. m /\ m \in 0 .. m /\ m \in 1 .. m /\ m - 1 \in 0 .. m
    BY <1>8
  <2>2. ends[m - 1] < l /\ ends[m - 1] >= 0
    BY <1>1, <2>1
  <2>3. lines # <<>> /\ pages # <<>>
    BY <1>1, <1>4, <1>8, <2>2, EmptySeq
  <2> QED BY <1>2, <1>4, <1>6, <2>3, JoinedSame
<1> QED BY <1>7, <1>8

-----------------------------------------------------------------------------
(* Where lines begin and end.                                              *)

\* FlattenSeq of sequences that are those of another and one more.
LEMMA FlattenLast ==
    ASSUME NEW S, NEW n \in Nat, NEW f \in Seq(Seq(S)), NEW g \in Seq(Seq(S)),
           Len(f) = n + 1, Len(g) = n, \A i \in 1 .. n : f[i] = g[i]
    PROVE  FlattenSeq(f) = FlattenSeq(g) \o f[n + 1]
<1>1. n + 1 \in 1 .. Len(f) /\ f[n + 1] \in Seq(S)
  BY ElementOfSeq
<1>2. PICK x \in Seq(S) : x = f[n + 1]
  BY <1>1
<1>3. /\ Append(g, x) \in Seq(Seq(S)) /\ Len(Append(g, x)) = n + 1
      /\ Append(g, x)[n + 1] = x /\ \A i \in 1 .. n : Append(g, x)[i] = g[i]
  BY <1>2, AppendProperties
<1>4. \A i \in 1 .. n + 1 : i = n + 1 \/ i \in 1 .. n
  OBVIOUS
<1>5. \A i \in 1 .. n + 1 : f[i] = Append(g, x)[i]
  BY <1>2, <1>3, <1>4
<1>6. f = Append(g, x)
  BY <1>3, <1>5, SeqEqual
<1>7. FlattenSeq(g) \in Seq(S)
  BY FlattenTyped
<1> QED BY <1>2, <1>6, <1>7, FlattenMore

\* What Max chooses.
LEMMA MaxIs ==
    ASSUME NEW S \in SUBSET Int, NEW k \in S, \A i \in S : i <= k
    PROVE  Max(S) = k
<1>1. \A x, y \in S : (\A i \in S : x >= i) /\ (\A i \in S : y >= i) => x = y
  OBVIOUS
<1>2. \A i \in S : k >= i
  OBVIOUS
<1> QED BY <1>1, <1>2 DEF Max

\* One more element changes no slice before it.
LEMMA SlicesAgree ==
    ASSUME NEW S, NEW t \in Seq(S), NEW c \in S,
           NEW s \in 1 .. Len(t) + 1, NEW to \in s - 1 .. Len(t)
    PROVE  SubSeq(Append(t, c), s, to) = SubSeq(t, s, to)
<1>1. PICK n \in Nat, g \in Seq(S) :
        /\ n = Len(t) /\ g = Append(t, c) /\ Len(g) = n + 1
        /\ \A i \in 1 .. n : g[i] = t[i]
  <2>1. /\ Append(t, c) \in Seq(S) /\ Len(Append(t, c)) = Len(t) + 1
        /\ \A i \in 1 .. Len(t) : Append(t, c)[i] = t[i]
    BY AppendProperties
  <2>2. Len(t) \in Nat
    BY LenProperties
  <2> QED BY <2>1, <2>2
<1>2. PICK u, v : u = SubSeq(g, s, to) /\ v = SubSeq(t, s, to)
  OBVIOUS
<1>3. s \in 1 .. Len(g) + 1 /\ to \in s - 1 .. Len(g)
  BY <1>1
<1>4. /\ u \in Seq(S) /\ Len(u) = to + 1 - s
      /\ \A j \in 1 .. to + 1 - s : u[j] = g[s - 1 + j]
  BY <1>2, <1>3, SliceIs
<1>5. /\ v \in Seq(S) /\ Len(v) = to + 1 - s
      /\ \A j \in 1 .. to + 1 - s : v[j] = t[s - 1 + j]
  BY <1>2, SliceIs
<1>6. \A j \in 1 .. to + 1 - s : s - 1 + j \in 1 .. n
  BY <1>1
<1>7. \A j \in 1 .. to + 1 - s : u[j] = v[j]
  BY <1>1, <1>4, <1>5, <1>6
<1>8. u = v
  BY <1>4, <1>5, <1>7, SeqEqual
<1> QED BY <1>1, <1>2, <1>8

\* A line begins after the last newline before it.
LEMMA StartIs ==
    ASSUME NEW t \in Line, NEW e \in 1 .. Len(t) + 1
    PROVE  /\ StartOf(t, e) \in 1 .. e
           /\ \A i \in StartOf(t, e) .. e - 1 : i \notin Ends(t)
           /\ StartOf(t, e) = 1 \/ StartOf(t, e) - 1 \in Ends(t)
<1>1. Len(t) \in Nat /\ DOMAIN t = 1 .. Len(t)
  BY LenProperties DEF Line
<1>2. PICK T : T = {0} \cup {i \in Ends(t) : i < e}
  OBVIOUS
<1>3. T \subseteq 0 .. e - 1 /\ 0 \in T
  BY <1>1, <1>2 DEF Ends
<1>4. PICK k \in T : \A i \in T : i <= k
  <2> DEFINE Gaps == {e - i : i \in T}
  <2>1. Gaps \subseteq Nat /\ Gaps # {}
    BY <1>1, <1>3
  <2>2. PICK x \in Gaps : \A y \in Gaps : ~(y < x)
    <3> HIDE DEF Gaps
    <3> QED BY <2>1, LeastNatural
  <2>3. PICK k \in T : x = e - k
    BY <2>2
  <2>4. ASSUME NEW i \in T PROVE i <= k
    <3>1. ~(e - i < e - k)
      BY <2>2, <2>3
    <3>2. i \in Int /\ k \in Int /\ e \in Int
      BY <1>1, <1>3
    <3> QED BY <3>1, <3>2
  <2> QED BY <2>4
<1>5. Max(T) = k
  <2>1. T \in SUBSET Int
    BY <1>1, <1>3
  <2> QED BY <1>4, <2>1, MaxIs
<1>6. StartOf(t, e) = 1 + k
  BY <1>2, <1>5 DEF StartOf
<1>7. k \in 0 .. e - 1
  BY <1>3
<1>8. ASSUME NEW i \in k + 1 .. e - 1 PROVE i \notin Ends(t)
  <2>1. i < e /\ ~(i <= k)
    BY <1>1, <1>7
  <2> QED BY <1>2, <1>4, <2>1
<1>9. k = 0 \/ k \in Ends(t)
  BY <1>2
<1> QED BY <1>1, <1>6, <1>7, <1>8, <1>9

\* The pieces of a file, and where its current line begins, are sequences and a place.
LEMMA PiecesTyped ==
    ASSUME NEW t \in Line
    PROVE  /\ \A i \in 1 .. Len(t) : EndedAt(t, i) \in Seq(Line)
           /\ [i \in DOMAIN t |-> EndedAt(t, i)] \in Seq(Seq(Line))
           /\ Len([i \in DOMAIN t |-> EndedAt(t, i)]) = Len(t)
           /\ Ended(t) \in Seq(Line)
<1>1. Len(t) \in Nat /\ DOMAIN t = 1 .. Len(t)
  BY LenProperties DEF Line
<1>2. ASSUME NEW i \in 1 .. Len(t) PROVE EndedAt(t, i) \in Seq(Line)
  <2>1. PICK s \in 1 .. i : s = StartOf(t, i)
    <3>1. i \in 1 .. Len(t) + 1
      BY <1>1
    <3> QED BY <3>1, StartIs
  <2>2. SubSeq(t, s, i - 1) \in Line
    <3>1. s \in 1 .. Len(t) + 1 /\ i - 1 \in s - 1 .. Len(t)
      BY <1>1
    <3> QED BY <3>1, SliceIs DEF Line
  <2>3. i > s => SubSeq(t, s, i - 2) \in Line
    <3>1. i > s => s \in 1 .. Len(t) + 1 /\ i - 2 \in s - 1 .. Len(t)
      BY <1>1
    <3> QED BY <3>1, SliceIs DEF Line
  <2>4. Piece(t, s, i) \in Line
    BY <2>2, <2>3 DEF Piece
  <2> QED BY <2>1, <2>4 DEF EndedAt
<1>3. [i \in DOMAIN t |-> EndedAt(t, i)] \in [1 .. Len(t) -> Seq(Line)]
  BY <1>1, <1>2
<1>4. /\ [i \in DOMAIN t |-> EndedAt(t, i)] \in Seq(Seq(Line))
      /\ Len([i \in DOMAIN t |-> EndedAt(t, i)]) = Len(t)
  BY <1>1, <1>3
<1>5. Ended(t) \in Seq(Line)
  BY <1>4, FlattenTyped DEF Ended
<1> QED BY <1>2, <1>4, <1>5

\* One more character changes nothing before it.
LEMMA PiecesAgree ==
    ASSUME NEW t \in Line, NEW c \in Char
    PROVE  LET g == Append(t, c)
               n == Len(t) IN
           /\ \A e \in 1 .. n + 1 : StartOf(g, e) = StartOf(t, e)
           /\ StartOf(g, n + 2) = IF c = Newline THEN n + 2 ELSE StartOf(t, n + 1)
           /\ Ended(g) = Ended(t) \o EndedAt(g, n + 1)
<1>1. PICK n \in Nat, g \in Line :
        /\ n = Len(t) /\ g = Append(t, c) /\ Len(g) = n + 1
        /\ DOMAIN t = 1 .. n /\ DOMAIN g = 1 .. n + 1
        /\ g[n + 1] = c /\ \A i \in 1 .. n : g[i] = t[i]
  <2>1. /\ Append(t, c) \in Line /\ Len(Append(t, c)) = Len(t) + 1
        /\ Append(t, c)[Len(t) + 1] = c
        /\ \A i \in 1 .. Len(t) : Append(t, c)[i] = t[i]
    BY AppendProperties DEF Line
  <2>2. Len(t) \in Nat /\ DOMAIN t = 1 .. Len(t)
    BY LenProperties DEF Line
  <2>3. DOMAIN Append(t, c) = 1 .. Len(t) + 1
    BY <2>1, LenProperties DEF Line
  <2> QED BY <2>1, <2>2, <2>3
<1>2. /\ \A i \in 1 .. n : i \in Ends(g) <=> i \in Ends(t)
      /\ n + 1 \in Ends(g) <=> c = Newline
      /\ Ends(g) \subseteq 1 .. n + 1 /\ Ends(t) \subseteq 1 .. n
  BY <1>1 DEF Ends
<1>3. ASSUME NEW e \in 1 .. n + 1 PROVE StartOf(g, e) = StartOf(t, e)
  <2>1. {i \in Ends(g) : i < e} = {i \in Ends(t) : i < e}
    <3>1. \A i \in 1 .. n + 1 : i < e => i \in 1 .. n
      BY <1>1
    <3>2. \A i \in 1 .. n : i \in 1 .. n + 1
      BY <1>1
    <3> QED BY <1>2, <3>1, <3>2
  <2> QED BY <2>1 DEF StartOf
<1>4. StartOf(g, n + 2) = IF c = Newline THEN n + 2 ELSE StartOf(t, n + 1)
  <2>1. CASE c = Newline
    <3>1. n + 2 \in 1 .. Len(g) + 1
      BY <1>1
    <3>2. PICK s \in 1 .. n + 2 : s = StartOf(g, n + 2) /\ \A i \in s .. n + 2 - 1 : i \notin Ends(g)
      BY <3>1, StartIs
    <3>3. n + 1 \in Ends(g)
      BY <1>2, <2>1
    <3>4. ~(n + 1 \in s .. n + 2 - 1)
      BY <3>2, <3>3
    <3>5. s = n + 2
      BY <1>1, <3>4
    <3> QED BY <2>1, <3>2, <3>5
  <2>2. CASE c # Newline
    <3>1. {i \in Ends(g) : i < n + 2} = {i \in Ends(t) : i < n + 1}
      <4>1. \A i \in 1 .. n + 1 : i # n + 1 => i \in 1 .. n
        BY <1>1
      <4>2. \A i \in 1 .. n : i \in 1 .. n + 1 /\ i < n + 1 /\ i < n + 2
        BY <1>1
      <4> QED BY <1>2, <2>2, <4>1, <4>2
    <3> QED BY <2>2, <3>1 DEF StartOf
  <2> QED BY <2>1, <2>2
<1>5. ASSUME NEW i \in 1 .. n PROVE EndedAt(g, i) = EndedAt(t, i)
  <2>1. i \in 1 .. n + 1 /\ i \in 1 .. Len(t) + 1
    BY <1>1
  <2>2. StartOf(g, i) = StartOf(t, i)
    BY <1>3, <2>1
  <2>3. PICK s \in 1 .. i : s = StartOf(t, i)
    BY <2>1, StartIs
  <2>4. ASSUME NEW to \in s - 1 .. i - 1 PROVE SubSeq(g, s, to) = SubSeq(t, s, to)
    <3>1. s \in 1 .. Len(t) + 1 /\ to \in s - 1 .. Len(t)
      BY <1>1
    <3>2. SubSeq(Append(t, c), s, to) = SubSeq(t, s, to)
      BY <3>1, SlicesAgree DEF Line
    <3> QED BY <1>1, <3>2
  <2>5. Piece(g, s, i) = Piece(t, s, i)
    <3>1. i - 1 \in s - 1 .. i - 1 /\ (i > s => i - 2 \in s - 1 .. i - 1 /\ i - 1 \in 1 .. n)
      BY <1>1
    <3> QED BY <1>1, <2>4, <3>1 DEF Piece
  <2> QED BY <1>2, <2>2, <2>3, <2>5 DEF EndedAt
<1>6. Ended(g) = Ended(t) \o EndedAt(g, n + 1)
  <2>1. PICK f, h : /\ f = [i \in DOMAIN g |-> EndedAt(g, i)]
                    /\ h = [i \in DOMAIN t |-> EndedAt(t, i)]
    OBVIOUS
  <2>2. f \in Seq(Seq(Line)) /\ h \in Seq(Seq(Line)) /\ Len(f) = n + 1 /\ Len(h) = n
    BY <1>1, <2>1, PiecesTyped
  <2>3. \A i \in 1 .. n : f[i] = h[i]
    <3>1. \A i \in 1 .. n : i \in 1 .. n + 1
      BY <1>1
    <3> QED BY <1>1, <1>5, <2>1, <3>1
  <2>4. FlattenSeq(f) = FlattenSeq(h) \o f[n + 1]
    BY <2>2, <2>3, FlattenLast
  <2>5. f[n + 1] = EndedAt(g, n + 1)
    <3>1. n + 1 \in 1 .. n + 1
      BY <1>1
    <3> QED BY <1>1, <2>1, <3>1
  <2> QED BY <2>1, <2>4, <2>5 DEF Ended
<1> QED BY <1>1, <1>3, <1>4, <1>6

-----------------------------------------------------------------------------
(* A file and its lines.                                                   *)

\* The characters of a file but the returns of its lines' ends.
KeptAt(t, i) == IF Returns(t, i) THEN <<>> ELSE <<t[i]>>
Unreturned(t) == FlattenSeq([i \in DOMAIN t |-> KeptAt(t, i)])

\* The lines that were ended, ended again, and the current line, are the file
\* without the returns of its lines' ends.
LinesOK(t) ==
    Terminated(Ended(t)) \o SubSeq(t, StartOf(t, Len(t) + 1), Len(t)) = Unreturned(t)

\* FlattenLast for texts.
LEMMA LastLine ==
    ASSUME NEW n \in Nat, NEW f \in Seq(Line), NEW g \in Seq(Line),
           Len(f) = n + 1, Len(g) = n, \A i \in 1 .. n : f[i] = g[i]
    PROVE  FlattenSeq(f) = FlattenSeq(g) \o f[n + 1]
BY FlattenLast DEF Line

\* What is kept is a sequence of characters for each place.
LEMMA KeptTyped ==
    ASSUME NEW t \in Line
    PROVE  /\ \A i \in 1 .. Len(t) : KeptAt(t, i) \in Line /\ t[i] \in Char
           /\ [i \in DOMAIN t |-> KeptAt(t, i)] \in Seq(Line)
           /\ Len([i \in DOMAIN t |-> KeptAt(t, i)]) = Len(t)
           /\ Unreturned(t) \in Line
<1>1. Len(t) \in Nat /\ DOMAIN t = 1 .. Len(t)
  BY LenProperties DEF Line
<1>2. ASSUME NEW i \in 1 .. Len(t) PROVE KeptAt(t, i) \in Line /\ t[i] \in Char
  <2>1. t[i] \in Char
    BY ElementOfSeq DEF Line
  <2>2. <<t[i]>> \in Line /\ <<>> \in Line
    BY <2>1, EmptySeq DEF Line
  <2> QED BY <2>1, <2>2 DEF KeptAt
<1>3. [i \in DOMAIN t |-> KeptAt(t, i)] \in [1 .. Len(t) -> Line]
  BY <1>1, <1>2
<1>4. /\ [i \in DOMAIN t |-> KeptAt(t, i)] \in Seq(Line)
      /\ Len([i \in DOMAIN t |-> KeptAt(t, i)]) = Len(t)
  BY <1>1, <1>3
<1>5. Unreturned(t) \in Line
  BY <1>4, FlattenTyped DEF Unreturned, Line
<1> QED BY <1>2, <1>4, <1>5

\* What a character adds to what is kept: a newline takes back the return before it.
LEMMA KeptGrows ==
    ASSUME NEW t \in Line, NEW c \in Char
    PROVE  LET g == Append(t, c)
               n == Len(t) IN
           /\ ~(c = Newline /\ n # 0 /\ t[n] = Return) =>
                  Unreturned(g) = Unreturned(t) \o <<c>>
           /\ c = Newline /\ n # 0 /\ t[n] = Return =>
                  \E x \in Line : /\ Unreturned(t) = x \o <<Return>>
                                  /\ Unreturned(g) = x \o <<Newline>>
<1>1. PICK n \in Nat, g \in Line :
        /\ n = Len(t) /\ g = Append(t, c) /\ Len(g) = n + 1
        /\ DOMAIN t = 1 .. n /\ DOMAIN g = 1 .. n + 1
        /\ g[n + 1] = c /\ \A i \in 1 .. n : g[i] = t[i]
  <2>1. /\ Append(t, c) \in Line /\ Len(Append(t, c)) = Len(t) + 1
        /\ Append(t, c)[Len(t) + 1] = c
        /\ \A i \in 1 .. Len(t) : Append(t, c)[i] = t[i]
    BY AppendProperties DEF Line
  <2>2. Len(t) \in Nat /\ DOMAIN t = 1 .. Len(t)
    BY LenProperties DEF Line
  <2>3. DOMAIN Append(t, c) = 1 .. Len(t) + 1
    BY <2>1, LenProperties DEF Line
  <2> QED BY <2>1, <2>2, <2>3
<1>2. PICK f \in Seq(Line), h \in Seq(Line) :
        /\ f = [i \in DOMAIN g |-> KeptAt(g, i)] /\ h = [i \in DOMAIN t |-> KeptAt(t, i)]
        /\ Len(f) = n + 1 /\ Len(h) = n
        /\ \A i \in 1 .. n + 1 : f[i] = KeptAt(g, i)
        /\ \A i \in 1 .. n : h[i] = KeptAt(t, i)
        /\ Unreturned(g) = FlattenSeq(f) /\ Unreturned(t) = FlattenSeq(h)
  <2>1. /\ [i \in DOMAIN g |-> KeptAt(g, i)] \in Seq(Line)
        /\ [i \in DOMAIN t |-> KeptAt(t, i)] \in Seq(Line)
        /\ Len([i \in DOMAIN g |-> KeptAt(g, i)]) = n + 1
        /\ Len([i \in DOMAIN t |-> KeptAt(t, i)]) = n
    BY <1>1, KeptTyped
  <2>2. /\ \A i \in 1 .. n + 1 : [j \in DOMAIN g |-> KeptAt(g, j)][i] = KeptAt(g, i)
        /\ \A i \in 1 .. n : [j \in DOMAIN t |-> KeptAt(t, j)][i] = KeptAt(t, i)
    BY <1>1
  <2> QED BY <2>1, <2>2 DEF Unreturned
<1>3. f[n + 1] = <<c>>
  <2>1. ~Returns(g, n + 1)
    BY <1>1 DEF Returns
  <2> QED BY <1>1, <1>2, <2>1 DEF KeptAt
<1>4. ASSUME NEW i \in 1 .. n, i # n \/ ~(c = Newline /\ t[n] = Return) PROVE f[i] = h[i]
  <2>1. Returns(g, i) <=> Returns(t, i)
    <3>1. CASE i = n
      BY <1>1, <1>4, <3>1 DEF Returns
    <3>2. CASE i # n
      <4>1. i + 1 \in 1 .. n /\ i < n /\ i < n + 1
        BY <1>1, <3>2
      <4> QED BY <1>1, <4>1 DEF Returns
    <3> QED BY <3>1, <3>2
  <2>2. i \in 1 .. n + 1
    BY <1>1
  <2> QED BY <1>1, <1>2, <2>1, <2>2 DEF KeptAt
<1>5. CASE ~(c = Newline /\ n # 0 /\ t[n] = Return)
  <2>1. \A i \in 1 .. n : f[i] = h[i]
    BY <1>1, <1>4, <1>5
  <2>2. FlattenSeq(f) = FlattenSeq(h) \o f[n + 1]
    BY <1>2, <2>1, LastLine
  <2> QED BY <1>1, <1>2, <1>3, <1>5, <2>2
<1>6. CASE c = Newline /\ n # 0 /\ t[n] = Return
  <2>1. PICK m \in Nat : n = m + 1
    <3>1. n - 1 \in Nat /\ n = n - 1 + 1
      BY <1>1, <1>6
    <3> QED BY <3>1
  <2>2. PICK k \in Seq(Line) : Len(k) = m /\ \A i \in 1 .. m : k[i] = h[i]
    <3>1. 1 \in 1 .. Len(h) + 1 /\ m \in 1 - 1 .. Len(h) /\ m + 1 - 1 = m
          /\ \A i \in 1 .. m : 1 - 1 + i = i
      BY <1>2, <2>1
    <3>2. PICK k : k = SubSeq(h, 1, m)
      OBVIOUS
    <3>3. k \in Seq(Line) /\ Len(k) = m + 1 - 1 /\ \A i \in 1 .. m + 1 - 1 : k[i] = h[1 - 1 + i]
      BY <3>1, <3>2, SliceIs
    <3> QED BY <3>1, <3>3
  <2>3. PICK p \in Seq(Line) :
           /\ Len(p) = n /\ p[n] = <<>>
           /\ \A i \in 1 .. m : p[i] = k[i]
           /\ \A i \in 1 .. n : p[i] = f[i]
    <3>1. 1 \in 1 .. Len(f) + 1 /\ n \in 1 - 1 .. Len(f) /\ n + 1 - 1 = n
          /\ \A i \in 1 .. n : 1 - 1 + i = i
      BY <1>2
    <3>2. PICK p : p = SubSeq(f, 1, n)
      OBVIOUS
    <3>3. p \in Seq(Line) /\ Len(p) = n + 1 - 1 /\ \A i \in 1 .. n + 1 - 1 : p[i] = f[1 - 1 + i]
      BY <3>1, <3>2, SliceIs
    <3>4. \A i \in 1 .. n : p[i] = f[i]
      BY <3>1, <3>3
    <3>5. f[n] = <<>>
      <4>1. n \in 1 .. n /\ n \in 1 .. n + 1 /\ n < n + 1
        BY <1>6
      <4>2. Returns(g, n)
        BY <1>1, <1>6, <4>1 DEF Returns
      <4> QED BY <1>2, <4>1, <4>2 DEF KeptAt
    <3>6. \A i \in 1 .. m : p[i] = k[i]
      <4>1. \A i \in 1 .. m : i \in 1 .. n /\ i # n
        BY <2>1
      <4> QED BY <1>4, <2>2, <3>4, <4>1
    <3>7. n \in 1 .. n
      BY <1>6
    <3> QED BY <3>1, <3>3, <3>4, <3>5, <3>6, <3>7
  <2>4. PICK x \in Line : x = FlattenSeq(k)
    BY <2>2, FlattenTyped DEF Line
  <2>5. FlattenSeq(p) = x \o <<>>
    <3>1. Len(p) = m + 1 /\ Len(k) = m /\ \A i \in 1 .. m : p[i] = k[i]
      BY <2>1, <2>2, <2>3
    <3>2. FlattenSeq(p) = FlattenSeq(k) \o p[m + 1]
      BY <3>1, LastLine
    <3> QED BY <2>1, <2>3, <2>4, <3>2
  <2>6. FlattenSeq(p) = x
    BY <2>4, <2>5, ConcatEmptySeq DEF Line
  <2>7. FlattenSeq(f) = x \o <<Newline>>
    <3>1. FlattenSeq(f) = FlattenSeq(p) \o f[n + 1]
      BY <1>2, <2>3, LastLine
    <3> QED BY <1>3, <1>6, <2>6, <3>1
  <2>8. h[n] = <<Return>>
    <3>1. n \in 1 .. n /\ ~(n < n)
      BY <1>6
    <3>2. ~Returns(t, n)
      BY <1>1, <3>1 DEF Returns
    <3> QED BY <1>2, <1>6, <3>1, <3>2 DEF KeptAt
  <2>9. FlattenSeq(h) = x \o <<Return>>
    <3>1. Len(h) = m + 1 /\ Len(k) = m /\ \A i \in 1 .. m : h[i] = k[i]
      BY <1>2, <2>1, <2>2
    <3>2. FlattenSeq(h) = FlattenSeq(k) \o h[m + 1]
      BY <3>1, LastLine
    <3> QED BY <2>1, <2>4, <2>8, <3>2
  <2> QED BY <1>1, <1>2, <1>6, <2>7, <2>9
<1> QED BY <1>1, <1>5, <1>6

\* Where the current line is, and what it and the ended lines are.
LEMMA OpenLine ==
    ASSUME NEW t \in Line
    PROVE  /\ StartOf(t, Len(t) + 1) \in 1 .. Len(t) + 1
           /\ SubSeq(t, StartOf(t, Len(t) + 1), Len(t)) \in Line
           /\ Ended(t) \in Seq(Line) /\ Terminated(Ended(t)) \in Line
<1>1. PICK n \in Nat : n = Len(t)
  BY LenProperties DEF Line
<1>2. Len(t) + 1 \in 1 .. Len(t) + 1
  BY <1>1
<1>3. PICK s \in 1 .. n + 1 : s = StartOf(t, n + 1)
  BY <1>1, <1>2, StartIs
<1>4. s \in 1 .. Len(t) + 1 /\ n \in s - 1 .. Len(t)
  BY <1>1
<1>5. SubSeq(t, s, n) \in Line
  BY <1>4, SliceIs DEF Line
<1>6. Ended(t) \in Seq(Line)
  BY PiecesTyped
<1>7. Terminated(Ended(t)) \in Line
  BY <1>6, NoLine, LineAdded
<1> QED BY <1>1, <1>3, <1>5, <1>6, <1>7

\* Two texts, the second one character longer.
LEMMA LineGrows ==
    ASSUME NEW x \in Line, NEW y \in Line, NEW c \in Char
    PROVE  x \o Append(y, c) = Append(x \o y, c) /\ x \o y \in Line
BY ConcatGrows DEF Line

\* One more character keeps the lines in step with the file.
LEMMA LinesGrow ==
    ASSUME NEW t \in Line, NEW c \in Char, LinesOK(t)
    PROVE  LinesOK(Append(t, c))
<1>1. PICK n \in Nat, g \in Line :
        /\ n = Len(t) /\ g = Append(t, c) /\ Len(g) = n + 1
        /\ DOMAIN t = 1 .. n /\ DOMAIN g = 1 .. n + 1
        /\ g[n + 1] = c /\ \A i \in 1 .. n : g[i] = t[i]
  <2>1. /\ Append(t, c) \in Line /\ Len(Append(t, c)) = Len(t) + 1
        /\ Append(t, c)[Len(t) + 1] = c
        /\ \A i \in 1 .. Len(t) : Append(t, c)[i] = t[i]
    BY AppendProperties DEF Line
  <2>2. Len(t) \in Nat /\ DOMAIN t = 1 .. Len(t)
    BY LenProperties DEF Line
  <2>3. DOMAIN Append(t, c) = 1 .. Len(t) + 1
    BY <2>1, LenProperties DEF Line
  <2> QED BY <2>1, <2>2, <2>3
<1>2. PICK s \in 1 .. n + 1, open \in Line, lines \in Seq(Line), done \in Line :
        /\ s = StartOf(t, n + 1) /\ open = SubSeq(t, s, n)
        /\ lines = Ended(t) /\ done = Terminated(lines)
  BY <1>1, OpenLine
<1>3. done \o open = Unreturned(t) /\ done \o open \in Line
  <2>1. done \o open = Unreturned(t)
    BY <1>1, <1>2 DEF LinesOK
  <2> QED BY <2>1, KeptTyped
<1>4. /\ StartOf(g, n + 1) = s
      /\ StartOf(g, n + 2) = IF c = Newline THEN n + 2 ELSE s
      /\ Ended(g) = lines \o EndedAt(g, n + 1)
      /\ n + 1 \in 1 .. n + 1
  <2>1. /\ \A e \in 1 .. Len(t) + 1 : StartOf(Append(t, c), e) = StartOf(t, e)
        /\ StartOf(Append(t, c), Len(t) + 2)
              = IF c = Newline THEN Len(t) + 2 ELSE StartOf(t, Len(t) + 1)
        /\ Ended(Append(t, c)) = Ended(t) \o EndedAt(Append(t, c), Len(t) + 1)
    BY PiecesAgree
  <2>2. n + 1 \in 1 .. n + 1
    BY <1>1
  <2> QED BY <1>1, <1>2, <2>1, <2>2
<1>5. ASSUME NEW x \in Line
      PROVE  done \o Append(x, c) = Append(done \o x, c) /\ done \o x \in Line
  BY LineGrows
<1>6. SUFFICES Terminated(Ended(g)) \o SubSeq(g, StartOf(g, n + 2), n + 1) = Unreturned(g)
  <2>1. n + 1 + 1 = n + 2
    OBVIOUS
  <2> QED BY <1>1, <2>1 DEF LinesOK
<1>7. CASE c # Newline
  <2>1. EndedAt(g, n + 1) = <<>>
    BY <1>1, <1>7 DEF EndedAt, Ends
  <2>2. Ended(g) = lines
    BY <1>4, <2>1, ConcatEmptySeq
  <2>3. SubSeq(g, s, n + 1) = Append(open, c)
    <3>1. PICK k \in 0 .. Len(t) : s = k + 1
      <4>1. s - 1 \in 0 .. Len(t) /\ s = s - 1 + 1
        BY <1>1
      <4> QED BY <4>1
    <3>2. SubSeq(Append(t, c), k + 1, Len(t) + 1) = Append(SubSeq(t, k + 1, Len(t)), c)
      <4>1. t \in Seq(Char)
        BY DEF Line
      <4> QED BY <4>1, SlicesGrow
    <3> QED BY <1>1, <1>2, <3>1, <3>2
  <2>4. Unreturned(g) = Unreturned(t) \o <<c>>
    BY <1>1, <1>7, KeptGrows
  <2>5. Append(done \o open, c) = (done \o open) \o <<c>>
    BY <1>3, AppendIsConcat DEF Line
  <2>6. Terminated(Ended(g)) \o SubSeq(g, StartOf(g, n + 2), n + 1) = done \o Append(open, c)
    BY <1>2, <1>4, <1>7, <2>2, <2>3
  <2>7. done \o Append(open, c) = Append(done \o open, c)
    BY <1>5
  <2> QED BY <1>3, <2>4, <2>5, <2>6, <2>7
<1>8. ASSUME c = Newline, NEW x \in Line, Piece(g, s, n + 1) = x
      PROVE  Terminated(Ended(g)) \o SubSeq(g, StartOf(g, n + 2), n + 1)
                = Append(done \o x, Newline)
  <2>1. n + 1 \in Ends(g)
    BY <1>1, <1>4, <1>8 DEF Ends
  <2>2. EndedAt(g, n + 1) = <<x>>
    BY <1>4, <1>8, <2>1 DEF EndedAt
  <2>3. Ended(g) = Append(lines, x)
    BY <1>4, <2>2, AppendIsConcat
  <2>4. Terminated(Append(lines, x)) = done \o Append(x, Newline)
    BY <1>2, LineAdded
  <2>5. done \o Append(x, Newline) = Append(done \o x, Newline) /\ done \o x \in Line
    BY <1>5, <1>8
  <2>6. SubSeq(g, n + 2, n + 1) = <<>>
    <3>1. n + 2 \in Int /\ n + 1 \in Int /\ n + 1 < n + 2
      OBVIOUS
    <3> QED BY <3>1, SubSeqEmpty
  <2>7. Append(done \o x, Newline) \in Line
    BY <1>8, <2>5, AppendProperties DEF Line
  <2>8. Append(done \o x, Newline) \o <<>> = Append(done \o x, Newline)
    BY <2>7, ConcatEmptySeq DEF Line
  <2> QED BY <1>4, <1>8, <2>3, <2>4, <2>5, <2>6, <2>8
<1>9. ASSUME NEW to \in s - 1 .. n PROVE SubSeq(g, s, to) = SubSeq(t, s, to)
  <2>1. s \in 1 .. Len(t) + 1 /\ to \in s - 1 .. Len(t)
    BY <1>1
  <2> QED BY <1>1, <2>1, SlicesAgree DEF Line
<1>10. CASE c = Newline /\ ~(n # 0 /\ t[n] = Return)
  <2>1. Piece(g, s, n + 1) = open
    <3>1. n \in s - 1 .. n /\ n + 1 - 1 = n
      BY <1>1
    <3>2. n + 1 > s => n \in 1 .. n /\ n # 0
      BY <1>1
    <3>3. ~(n + 1 > s /\ g[n] = Return)
      BY <1>1, <1>10, <3>2
    <3> QED BY <1>2, <1>9, <3>1, <3>3 DEF Piece
  <2>2. Unreturned(g) = Unreturned(t) \o <<Newline>>
    BY <1>1, <1>10, KeptGrows
  <2>3. Append(done \o open, Newline) = (done \o open) \o <<Newline>>
    BY <1>3, <1>10, AppendIsConcat DEF Line
  <2> QED BY <1>3, <1>8, <1>10, <2>1, <2>2, <2>3
<1>11. CASE c = Newline /\ n # 0 /\ t[n] = Return
  <2>1. s <= n
    <3>1. n + 1 \in 1 .. Len(t) + 1
      BY <1>1
    <3>2. s = 1 \/ s - 1 \in Ends(t)
      BY <1>2, <3>1, StartIs
    <3>3. n \notin Ends(t)
      <4>1. Newline # Return
        BY DEF Newline, Return
      <4> QED BY <1>11, <4>1 DEF Ends
    <3>4. s = n + 1 => s - 1 = n /\ s # 1
      BY <1>1, <1>11
    <3>5. s # n + 1
      BY <3>2, <3>3, <3>4
    <3> QED BY <1>1, <3>5
  <2>2. PICK q \in Line : q = SubSeq(t, s, n - 1)
    <3>1. s \in 1 .. Len(t) + 1 /\ n - 1 \in s - 1 .. Len(t)
      BY <1>1, <2>1
    <3>2. SubSeq(t, s, n - 1) \in Line
      BY <3>1, SliceIs DEF Line
    <3> QED BY <3>2
  <2>3. Return \in Char
    <3>1. n \in 1 .. Len(t)
      BY <1>1, <1>11
    <3>2. t[n] \in Char
      BY <3>1, KeptTyped
    <3> QED BY <1>11, <3>2
  <2>4. open = Append(q, Return)
    <3>1. s \in 1 .. Len(t) /\ n \in s .. Len(t)
      BY <1>1, <2>1
    <3>2. SubSeq(t, s, n) = SubSeq(t, s, n - 1) \o <<t[n]>>
      BY <3>1, SubSeqRecursiveSecond DEF Line
    <3>3. Append(q, Return) = q \o <<Return>>
      BY <2>3, AppendIsConcat DEF Line
    <3> QED BY <1>2, <1>11, <2>2, <3>2, <3>3
  <2>5. PICK x \in Line : Unreturned(t) = x \o <<Return>> /\ Unreturned(g) = x \o <<Newline>>
    BY <1>1, <1>11, KeptGrows
  <2>6. /\ done \o Append(q, Return) = Append(done \o q, Return) /\ done \o q \in Line
    BY <2>3, LineGrows
  <2>7. Append(x, Return) = x \o <<Return>> /\ Append(x, Newline) = x \o <<Newline>>
    BY <1>11, <2>3, AppendIsConcat DEF Line
  <2>8. Append(done \o q, Return) = Append(x, Return)
    BY <1>3, <2>4, <2>5, <2>6, <2>7
  <2>9. done \o q = x
    <3>1. PICK y : y = done \o q
      OBVIOUS
    <3>2. y \in Seq(Char) /\ x \in Seq(Char) /\ Append(y, Return) = Append(x, Return)
      BY <2>6, <2>8, <3>1 DEF Line
    <3>3. y = x
      BY <2>3, <3>2, AppendInjective
    <3> QED BY <3>1, <3>3
  <2>10. Piece(g, s, n + 1) = q
    <3>1. n - 1 \in s - 1 .. n /\ n + 1 - 2 = n - 1 /\ n + 1 > s /\ n + 1 - 1 = n /\ n \in 1 .. n
      BY <1>1, <1>11, <2>1
    <3>2. g[n] = Return
      BY <1>1, <1>11, <3>1
    <3> QED BY <1>9, <2>2, <3>1, <3>2 DEF Piece
  <2> QED BY <1>8, <1>11, <2>5, <2>7, <2>9, <2>10
<1> QED BY <1>7, <1>10, <1>11

\* What is put together of nothing.
LEMMA LinesBegin == LinesOK(<<>>)
<1>1. <<>> \in Line /\ Len(<<>>) = 0 /\ DOMAIN <<>> = {}
  BY EmptySeq DEF Line
<1>2. FlattenSeq(<<>>) = <<>>
  BY <1>1 DEF FlattenSeq
<1>3. Ended(<<>>) = <<>> /\ Unreturned(<<>>) = <<>>
  <2>1. Ended(<<>>) = FlattenSeq(<<>>)
    BY <1>1 DEF Ended
  <2>2. Unreturned(<<>>) = FlattenSeq(<<>>)
    BY <1>1 DEF Unreturned
  <2> QED BY <1>2, <2>1, <2>2
<1>4. StartOf(<<>>, 1) = 1
  <2>1. 1 \in 1 .. Len(<<>>) + 1
    BY <1>1
  <2>2. StartOf(<<>>, 1) \in 1 .. 1
    BY <1>1, <2>1, StartIs
  <2> QED BY <2>2
<1>5. SubSeq(<<>>, 1, 0) = <<>>
  BY SubSeqEmpty
<1>6. <<>> \o <<>> = <<>>
  BY <1>1, ConcatEmptySeq DEF Line
<1>7. Len(<<>>) + 1 = 1
  BY <1>1
<1> QED BY <1>1, <1>3, <1>4, <1>5, <1>6, <1>7, NoLine DEF LinesOK

\* The file without what lines() drops, where its last line was not ended.
LEMMA PlainOpen ==
    ASSUME NEW t \in Line, Len(t) # 0 => t[Len(t)] # Newline
    PROVE  Plain(t) = Unreturned(t)
<1>1. Len(t) \in Nat /\ DOMAIN t = 1 .. Len(t)
  BY LenProperties DEF Line
<1>2. ASSUME NEW i \in DOMAIN t PROVE Dropped(t, i) <=> Returns(t, i)
  BY <1>1 DEF Dropped
<1>3. [i \in DOMAIN t |-> IF Dropped(t, i) THEN <<>> ELSE <<t[i]>>] = [i \in DOMAIN t |-> KeptAt(t, i)]
  BY <1>2 DEF KeptAt
<1> QED BY <1>3 DEF Plain, Unreturned

\* Where the last line was ended, lines() drops that newline.
LEMMA PlainEnded ==
    ASSUME NEW t \in Line, Len(t) # 0, t[Len(t)] = Newline
    PROVE  Plain(t) \in Line /\ Unreturned(t) = Plain(t) \o <<Newline>>
<1>1. PICK n \in Nat, m \in Nat : n = Len(t) /\ n = m + 1 /\ DOMAIN t = 1 .. n /\ n \in 1 .. n
  <2>1. Len(t) \in Nat /\ DOMAIN t = 1 .. Len(t) /\ Len(t) - 1 \in Nat
    BY LenProperties DEF Line
  <2>2. Len(t) = Len(t) - 1 + 1 /\ Len(t) \in 1 .. Len(t)
    BY <2>1
  <2> QED BY <2>1, <2>2
<1>2. PICK f \in Seq(Line) :
        /\ f = [i \in DOMAIN t |-> KeptAt(t, i)] /\ Len(f) = n
        /\ \A i \in 1 .. n : f[i] = KeptAt(t, i)
  <2>1. [i \in DOMAIN t |-> KeptAt(t, i)] \in Seq(Line) /\ Len([i \in DOMAIN t |-> KeptAt(t, i)]) = n
    BY <1>1, KeptTyped
  <2>2. \A i \in 1 .. n : [j \in DOMAIN t |-> KeptAt(t, j)][i] = KeptAt(t, i)
    BY <1>1
  <2> QED BY <2>1, <2>2
<1>3. <<>> \in Line /\ <<Newline>> \in Line
  BY DEF Line, Char
<1>4. PICK p \in Seq(Line) :
        /\ p = [i \in DOMAIN t |-> IF Dropped(t, i) THEN <<>> ELSE <<t[i]>>] /\ Len(p) = n
        /\ \A i \in 1 .. n : p[i] = IF Dropped(t, i) THEN <<>> ELSE <<t[i]>>
  <2>1. \A i \in 1 .. n : <<t[i]>> \in Line
    <3>1. \A i \in 1 .. n : t[i] \in Char
      BY <1>1, KeptTyped
    <3> QED BY <3>1 DEF Line
  <2>2. [i \in DOMAIN t |-> IF Dropped(t, i) THEN <<>> ELSE <<t[i]>>] \in [1 .. n -> Line]
    BY <1>1, <1>3, <2>1
  <2>3. /\ [i \in DOMAIN t |-> IF Dropped(t, i) THEN <<>> ELSE <<t[i]>>] \in Seq(Line)
        /\ Len([i \in DOMAIN t |-> IF Dropped(t, i) THEN <<>> ELSE <<t[i]>>]) = n
    BY <1>1, <2>2
  <2>4. \A i \in 1 .. n : [j \in DOMAIN t |-> IF Dropped(t, j) THEN <<>> ELSE <<t[j]>>][i]
                             = IF Dropped(t, i) THEN <<>> ELSE <<t[i]>>
    BY <1>1
  <2> QED BY <2>3, <2>4
<1>5. p[n] = <<>> /\ f[n] = <<Newline>>
  <2>1. Dropped(t, n) /\ ~Returns(t, n)
    BY <1>1 DEF Dropped, Returns
  <2> QED BY <1>1, <1>2, <1>4, <2>1 DEF KeptAt
<1>6. ASSUME NEW i \in 1 .. m PROVE p[i] = f[i]
  <2>1. i \in 1 .. n /\ i # Len(t)
    BY <1>1
  <2>2. Dropped(t, i) <=> Returns(t, i)
    BY <2>1 DEF Dropped
  <2> QED BY <1>2, <1>4, <2>1, <2>2 DEF KeptAt
<1>7. PICK k \in Seq(Line) : Len(k) = m /\ \A i \in 1 .. m : k[i] = f[i]
  <2>1. 1 \in 1 .. Len(f) + 1 /\ m \in 1 - 1 .. Len(f) /\ m + 1 - 1 = m
        /\ \A i \in 1 .. m : 1 - 1 + i = i
    BY <1>1, <1>2
  <2>2. PICK k : k = SubSeq(f, 1, m)
    OBVIOUS
  <2>3. k \in Seq(Line) /\ Len(k) = m + 1 - 1 /\ \A i \in 1 .. m + 1 - 1 : k[i] = f[1 - 1 + i]
    BY <2>1, <2>2, SliceIs
  <2> QED BY <2>1, <2>3
<1>8. PICK x \in Line : x = FlattenSeq(k)
  BY <1>7, FlattenTyped DEF Line
<1>9. FlattenSeq(f) = x \o <<Newline>>
  <2>1. Len(f) = m + 1 /\ Len(k) = m /\ \A i \in 1 .. m : f[i] = k[i]
    BY <1>1, <1>2, <1>7
  <2>2. FlattenSeq(f) = FlattenSeq(k) \o f[m + 1]
    BY <2>1, LastLine
  <2> QED BY <1>1, <1>5, <1>8, <2>2
<1>10. FlattenSeq(p) = x \o <<>>
  <2>1. Len(p) = m + 1 /\ Len(k) = m /\ \A i \in 1 .. m : p[i] = k[i]
    BY <1>1, <1>4, <1>6, <1>7
  <2>2. FlattenSeq(p) = FlattenSeq(k) \o p[m + 1]
    BY <2>1, LastLine
  <2> QED BY <1>1, <1>5, <1>8, <2>2
<1>11. x \o <<>> = x
  BY <1>8, ConcatEmptySeq DEF Line
<1> QED BY <1>2, <1>4, <1>8, <1>9, <1>10, <1>11 DEF Plain, Unreturned

\* The lines of a file, joined, are the file without what lines() drops.
LEMMA LinesJoin ==
    ASSUME NEW t \in Line, LinesOK(t)
    PROVE  Lines(t) \in Seq(Line) /\ Joined(Lines(t)) = Plain(t)
<1>1. PICK n \in Nat : n = Len(t) /\ DOMAIN t = 1 .. n
  BY LenProperties DEF Line
<1>2. PICK s \in 1 .. n + 1, open \in Line, lines \in Seq(Line), done \in Line :
        /\ s = StartOf(t, n + 1) /\ open = SubSeq(t, s, n)
        /\ lines = Ended(t) /\ done = Terminated(lines)
  BY <1>1, OpenLine
<1>3. done \o open = Unreturned(t)
  BY <1>1, <1>2 DEF LinesOK
<1>4. /\ \A i \in s .. n : i \notin Ends(t)
      /\ s = 1 \/ s - 1 \in Ends(t)
  <2>1. n + 1 \in 1 .. Len(t) + 1 /\ n + 1 - 1 = n
    BY <1>1
  <2> QED BY <1>2, <2>1, StartIs
<1>5. Lines(t) = lines \o IF s > n THEN <<>> ELSE <<open>>
  BY <1>1, <1>2 DEF Lines
<1>6. CASE s <= n
  <2>1. Lines(t) = Append(lines, open)
    <3>1. ~(s > n)
      BY <1>1, <1>6
    <3>2. Append(lines, open) = lines \o <<open>>
      BY AppendIsConcat
    <3> QED BY <1>5, <3>1, <3>2
  <2>2. Append(lines, open) \in Seq(Line)
    BY AppendProperties
  <2>3. Joined(Append(lines, open)) = done \o open
    BY <1>2, LineAdded
  <2>4. t[n] # Newline
    <3>1. n \in s .. n /\ n \in 1 .. n
      BY <1>1, <1>6
    <3> QED BY <1>1, <1>4, <3>1 DEF Ends
  <2>5. Plain(t) = Unreturned(t)
    BY <1>1, <2>4, PlainOpen
  <2> QED BY <1>3, <2>1, <2>2, <2>3, <2>5
<1>7. CASE s > n
  <2>1. Lines(t) = lines
    <3>1. lines \o <<>> = lines
      BY ConcatEmptySeq
    <3> QED BY <1>5, <1>7, <3>1
  <2>2. done = Unreturned(t)
    <3>1. s \in Int /\ n \in Int /\ n < s
      BY <1>1, <1>7
    <3>2. open = <<>>
      BY <1>2, <3>1, SubSeqEmpty
    <3>3. done \o <<>> = done
      BY ConcatEmptySeq DEF Line
    <3> QED BY <1>3, <3>2, <3>3
  <2>3. CASE n = 0
    <3>1. t = <<>>
      BY <1>1, <2>3, EmptySeq DEF Line
    <3>2. Unreturned(t) = <<>> /\ lines = <<>>
      <4>1. Unreturned(<<>>) = <<>> /\ Ended(<<>>) = <<>>
        BY EmptySeq DEF Unreturned, Ended, FlattenSeq
      <4> QED BY <1>2, <3>1, <4>1
    <3>3. Plain(t) = Unreturned(t)
      BY <1>1, <2>3, PlainOpen
    <3> QED BY <2>1, <3>2, <3>3, NoLine
  <2>4. CASE n # 0
    <3>1. t[n] = Newline
      <4>1. s = n + 1 /\ s - 1 = n /\ s # 1
        BY <1>1, <1>7, <2>4
      <4>2. n \in Ends(t)
        BY <1>4, <4>1
      <4> QED BY <4>2 DEF Ends
    <3>2. PICK x \in Line : x = Plain(t) /\ done = x \o <<Newline>>
      BY <1>1, <2>2, <2>4, <3>1, PlainEnded
    <3>3. Newline \in Char
      BY DEF Char
    <3>4. done = Append(x, Newline) /\ done # <<>>
      <4>1. x \in Seq(Char)
        BY DEF Line
      <4>2. Append(x, Newline) = x \o <<Newline>> /\ Append(x, Newline) # <<>>
        BY <3>3, <4>1, AppendIsConcat, AppendProperties
      <4> QED BY <3>2, <4>2
    <3>5. lines # <<>>
      BY <1>2, <3>4, NoLine
    <3>6. PICK y \in Line : y = Joined(lines) /\ Append(y, Newline) = done
      BY <1>2, <3>5, JoinedEnds
    <3>7. x = y
      <4>1. x \in Seq(Char) /\ y \in Seq(Char)
        BY DEF Line
      <4>2. Append(x, Newline) = Append(y, Newline)
        BY <3>4, <3>6
      <4> QED BY <3>3, <4>1, <4>2, AppendInjective
    <3> QED BY <2>1, <3>2, <3>6, <3>7
  <2> QED BY <2>3, <2>4
<1>8. s <= n \/ s > n
  BY <1>1
<1> QED BY <1>6, <1>7, <1>8

\* Multiplication and division by the size of a page.
LEMMA PagesCount ==
    ASSUME NEW l \in Nat, NEW size \in Nat \ {0}
    PROVE  \E m \in Nat :
             /\ m = (l + size - 1) \div size
             /\ size * m >= l
             /\ \A k \in 1 .. m : size * (k - 1) \in Nat /\ size * (k - 1) < l
                                  /\ size * k = size * (k - 1) + size
<1>1. PICK x \in Nat : x = l + size - 1
  <2>1. l + size - 1 \in Nat
    OBVIOUS
  <2> QED BY <2>1
<1>2. PICK m \in Nat : m = x \div size /\ size * m <= x /\ x < size * m + size
  <2>1. x \div size \in Nat /\ size * (x \div size) <= x
    BY SMT
  <2>2. x < size * (x \div size) + size
    BY SMT
  <2> QED BY <2>1, <2>2
<1>3. size * m >= l
  <2>1. size * m \in Int
    OBVIOUS
  <2> QED BY <1>1, <1>2, <2>1
<1>4. ASSUME NEW k \in 1 .. m
      PROVE  size * (k - 1) \in Nat /\ size * (k - 1) < l /\ size * k = size * (k - 1) + size
  <2>1. PICK j \in Nat : k = j + 1
    <3>1. k - 1 \in Nat /\ k = k - 1 + 1
      OBVIOUS
    <3> QED BY <3>1
  <2>2. size * (j + 1) = size * j + size /\ size * j \in Nat
    OBVIOUS
  <2>3. size * k <= size * m
    <3>1. k \in Nat /\ k <= m
      OBVIOUS
    <3> QED BY <3>1
  <2>4. size * j < l
    BY <1>1, <1>2, <2>1, <2>2, <2>3
  <2>5. k - 1 = j
    BY <2>1
  <2> QED BY <2>1, <2>2, <2>4, <2>5
<1> QED BY <1>1, <1>2, <1>3, <1>4

\* A window is a slice of the lines.
LEMMA WindowIs ==
    ASSUME NEW t, Lines(t) \in Seq(Line), NEW size \in Nat \ {0},
           NEW from \in Nat, from < Len(Lines(t))
    PROVE  Window(t, from + 1, size) = Joined(SubSeq(Lines(t), from + 1,
              IF from + size <= Len(Lines(t)) THEN from + size ELSE Len(Lines(t))))
<1>1. PICK lines \in Seq(Line), l \in Nat : lines = Lines(t) /\ l = Len(lines)
  <2>1. Len(Lines(t)) \in Nat
    BY LenProperties
  <2> QED BY <2>1
<1>2. Skip(from + 1) = from
  BY DEF Skip, Absent
<1>3. from + 1 # Absent /\ size # Absent
  BY DEF Absent
<1>4. PICK rest : rest = SubSeq(lines, from + 1, l)
  OBVIOUS
<1>5. Window(t, from + 1, size) = Joined(SubSeq(rest, 1, Min({size, Len(rest)})))
  BY <1>1, <1>2, <1>3, <1>4 DEF Window
<1>6. /\ rest \in Seq(Line) /\ Len(rest) = l - from
      /\ \A i \in 1 .. l - from : rest[i] = lines[from + i]
  <2>1. from + 1 \in 1 .. Len(lines) + 1 /\ l \in from + 1 - 1 .. Len(lines)
        /\ l + 1 - (from + 1) = l - from /\ from + 1 - 1 = from
    BY <1>1
  <2>2. /\ rest \in Seq(Line) /\ Len(rest) = l + 1 - (from + 1)
        /\ \A i \in 1 .. l + 1 - (from + 1) : rest[i] = lines[from + 1 - 1 + i]
    BY <1>1, <1>4, <2>1, SliceIs
  <2> QED BY <2>1, <2>2
<1>7. PICK few \in Nat : few = (IF from + size <= l THEN size ELSE l - from) /\ few <= l - from
  <2>1. l - from \in Nat
    BY <1>1
  <2>2. (IF from + size <= l THEN size ELSE l - from) \in Nat
        /\ (IF from + size <= l THEN size ELSE l - from) <= l - from
    BY <1>1, <2>1
  <2> QED BY <2>2
<1>8. Min({size, Len(rest)}) = few
  <2>1. {size, Len(rest)} \in SUBSET Int /\ few \in {size, Len(rest)}
    BY <1>1, <1>6, <1>7
  <2>2. \A i \in {size, Len(rest)} : few <= i
    BY <1>1, <1>6, <1>7
  <2> QED BY <2>1, <2>2, MinIs
<1>9. SubSeq(rest, 1, few) = SubSeq(lines, from + 1, from + few)
  <2>1. PICK u, v : u = SubSeq(rest, 1, few) /\ v = SubSeq(lines, from + 1, from + few)
    OBVIOUS
  <2>2. u \in Seq(Line) /\ Len(u) = few /\ \A i \in 1 .. few : u[i] = rest[i]
    <3>1. 1 \in 1 .. Len(rest) + 1 /\ few \in 1 - 1 .. Len(rest) /\ few + 1 - 1 = few
          /\ \A i \in 1 .. few : 1 - 1 + i = i
      BY <1>1, <1>6, <1>7
    <3>2. u \in Seq(Line) /\ Len(u) = few + 1 - 1 /\ \A i \in 1 .. few + 1 - 1 : u[i] = rest[1 - 1 + i]
      BY <1>6, <2>1, <3>1, SliceIs
    <3> QED BY <3>1, <3>2
  <2>3. v \in Seq(Line) /\ Len(v) = few /\ \A i \in 1 .. few : v[i] = lines[from + i]
    <3>1. PICK a \in 1 .. Len(lines) + 1, to \in Nat :
             a = from + 1 /\ to = from + few /\ to \in a - 1 .. Len(lines)
      <4>1. from + 1 \in 1 .. Len(lines) + 1 /\ from + few \in from + 1 - 1 .. Len(lines)
            /\ from + few \in Nat
        BY <1>1, <1>7
      <4> QED BY <4>1
    <3>2. /\ SubSeq(lines, a, to) \in Seq(Line) /\ Len(SubSeq(lines, a, to)) = to + 1 - a
          /\ \A i \in 1 .. to + 1 - a : SubSeq(lines, a, to)[i] = lines[a - 1 + i]
      BY <3>1, SliceIs
    <3>3. to + 1 - a = few /\ a - 1 = from
      <4>1. from + few + 1 - (from + 1) = few /\ from + 1 - 1 = from
        OBVIOUS
      <4> QED BY <3>1, <4>1
    <3>4. v = SubSeq(lines, a, to)
      BY <2>1, <3>1
    <3>5. v \in Seq(Line) /\ Len(v) = few
      BY <3>2, <3>3, <3>4
    <3>6. \A i \in 1 .. few : v[i] = lines[from + i]
      BY <3>2, <3>3, <3>4
    <3> QED BY <3>5, <3>6
  <2>4. \A i \in 1 .. few : i \in 1 .. l - from
    BY <1>1, <1>7
  <2>5. \A i \in 1 .. few : u[i] = v[i]
    BY <1>6, <2>2, <2>3, <2>4
  <2>6. u = v
    BY <2>2, <2>3, <2>5, SeqEqual
  <2> QED BY <2>1, <2>6
<1>10. from + few = IF from + size <= l THEN from + size ELSE l
  BY <1>1, <1>7
<1> QED BY <1>1, <1>5, <1>8, <1>9, <1>10

\* The pages of a file, joined, are its lines, joined.
LEMMA PagesAre ==
    ASSUME NEW t, Lines(t) \in Seq(Line), NEW size \in Nat \ {0}
    PROVE  Joined(Pages(t, size)) = Joined(Lines(t))
<1>1. PICK lines \in Seq(Line), l \in Nat : lines = Lines(t) /\ l = Len(lines)
  <2>1. Len(Lines(t)) \in Nat
    BY LenProperties
  <2> QED BY <2>1
<1>2. PICK m \in Nat :
        /\ m = (l + size - 1) \div size
        /\ size * m >= l
        /\ \A k \in 1 .. m : size * (k - 1) \in Nat /\ size * (k - 1) < l
                             /\ size * k = size * (k - 1) + size
  BY PagesCount
<1>3. PICK ends : ends = [k \in 0 .. m |-> IF size * k <= l THEN size * k ELSE l]
  OBVIOUS
<1>4. ends \in [0 .. m -> 0 .. Len(lines)]
  <2>1. ASSUME NEW k \in 0 .. m PROVE (IF size * k <= l THEN size * k ELSE l) \in 0 .. l
    <3>1. k \in Nat /\ size * k \in Nat
      OBVIOUS
    <3> QED BY <3>1
  <2> QED BY <1>1, <1>3, <2>1
<1>5. ends[0] = 0
  <2>1. 0 \in 0 .. m /\ size * 0 = 0
    OBVIOUS
  <2> QED BY <1>3, <2>1
<1>6. ends[m] = Len(lines)
  <2>1. m \in 0 .. m /\ size * m \in Int
    OBVIOUS
  <2> QED BY <1>1, <1>2, <1>3, <2>1
<1>7. ASSUME NEW k \in 1 .. m
      PROVE  LET from == size * (k - 1) IN
             /\ from \in Nat /\ from < l
             /\ ends[k - 1] = from
             /\ ends[k] = IF from + size <= l THEN from + size ELSE l
             /\ ends[k - 1] < ends[k]
  <2>1. PICK from \in Nat : from = size * (k - 1) /\ from < l /\ size * k = from + size
    BY <1>2
  <2>2. k \in 0 .. m /\ k - 1 \in 0 .. m /\ from <= l
    BY <1>1, <2>1
  <2>3. ends[k - 1] = from
    BY <1>3, <2>1, <2>2
  <2>4. ends[k] = IF from + size <= l THEN from + size ELSE l
    BY <1>3, <2>1, <2>2
  <2>5. ends[k - 1] < ends[k]
    BY <1>1, <2>1, <2>3, <2>4
  <2> QED BY <2>1, <2>3, <2>4, <2>5
<1>8. Joined([k \in 1 .. m |-> Joined(SubSeq(lines, ends[k - 1] + 1, ends[k]))]) = Joined(lines)
  BY <1>4, <1>5, <1>6, <1>7, PagesJoin
<1>9. ASSUME NEW k \in 1 .. m
      PROVE  Page(t, size, k) = Joined(SubSeq(lines, ends[k - 1] + 1, ends[k]))
  <2>1. PICK from \in Nat :
           /\ from = size * (k - 1) /\ from < l /\ ends[k - 1] = from
           /\ ends[k] = IF from + size <= l THEN from + size ELSE l
    BY <1>7
  <2>2. Window(t, from + 1, size)
           = Joined(SubSeq(lines, from + 1, IF from + size <= l THEN from + size ELSE l))
    BY <1>1, <2>1, WindowIs
  <2> QED BY <2>1, <2>2 DEF Page
<1>10. Pages(t, size) = [k \in 1 .. m |-> Page(t, size, k)]
  BY <1>1, <1>2 DEF Pages
<1>11. Pages(t, size) = [k \in 1 .. m |-> Joined(SubSeq(lines, ends[k - 1] + 1, ends[k]))]
  BY <1>9, <1>10
<1> QED BY <1>1, <1>8, <1>11

LinesInv == text \in Line /\ LinesOK(text)

\* The invariant: the lines of the file that were ended, and its current line.
LEMMA LinesInvariant == ValuesSpec => []LinesInv
<1>1. ValuesInit => LinesInv
  BY LinesBegin, NoLine DEF ValuesInit, LinesInv
<1>2. LinesInv /\ [ValuesNext]_text => LinesInv'
  <2>1. ASSUME LinesInv, NEW c \in Characters, Write(c) PROVE LinesInv'
    <3>1. c \in Char
      BY DEF Char
    <3>2. LinesOK(Append(text, c))
      BY <2>1, <3>1, LinesGrow DEF LinesInv
    <3>3. Append(text, c) \in Line
      BY <2>1, <3>1, AppendProperties DEF LinesInv, Line
    <3> QED BY <2>1, <3>2, <3>3 DEF LinesInv, Write
  <2>2. ASSUME LinesInv, text' = text PROVE LinesInv'
    BY <2>2 DEF LinesInv
  <2> QED BY <2>1, <2>2 DEF ValuesNext
<1> QED BY <1>1, <1>2, PTL DEF ValuesSpec

\* An agent that reads a file a page at a time, each page from the line after the
\* last one's, reads all of it but what lines() drops, and nothing twice; line 0
\* is line 1 (window_lines of fs.rs).
THEOREM PagesAreTheFile == ValuesSpec => []PagesMakeTheFile
<1>1. ASSUME LinesInv PROVE PagesMakeTheFile
  <2>1. Lines(text) \in Seq(Line) /\ Joined(Lines(text)) = Plain(text)
    BY <1>1, LinesJoin DEF LinesInv
  <2>2. ASSUME NEW size \in 1 .. MaxCharacters PROVE Joined(Pages(text, size)) = Plain(text)
    <3>1. size \in Nat \ {0}
      OBVIOUS
    <3> QED BY <2>1, <3>1, PagesAre
  <2>3. \A limit : Window(text, 0, limit) = Window(text, 1, limit)
    <3>1. Skip(0) = 0 /\ Skip(1) = 0
      BY DEF Skip, Absent
    <3>2. 0 # Absent /\ 1 # Absent
      BY DEF Absent
    <3> QED BY <3>1, <3>2 DEF Window
  <2>4. Window(text, Absent, Absent) = text
    BY DEF Window
  <2> QED BY <2>2, <2>3, <2>4 DEF PagesMakeTheFile
<1> QED BY <1>1, LinesInvariant, PTL

=============================================================================
