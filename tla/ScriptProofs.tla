----------------------------- MODULE ScriptProofs -----------------------------
(*****************************************************************************)
(* The scripts of the cases, and how the harness goes through the script of a*)
(* turn: the facts ConformanceProofs rests on.                               *)
(*****************************************************************************)
EXTENDS ConformanceInvariant, SequenceTheorems, WellFoundedInduction, TLAPS

-----------------------------------------------------------------------------
(* Sequences.                                                              *)

\* A sequence over any set is one in this sense.
LEMMA SeqIs ==
    ASSUME NEW S, NEW q \in Seq(S)
    PROVE  IsSeq(q)
<1>1. Len(q) \in Nat /\ q \in [1 .. Len(q) -> S] /\ DOMAIN q = 1 .. Len(q)
  BY LenProperties
<1> DEFINE T == {q[i] : i \in DOMAIN q}
<1>2. q \in [1 .. Len(q) -> T]
  BY <1>1
<1> HIDE DEF T
<1>3. q \in Seq(T)
  BY <1>1, <1>2
<1> QED BY <1>3 DEF IsSeq, T

\* The length, the domain and the head of a sequence.
LEMMA SeqLen ==
    ASSUME NEW q, IsSeq(q)
    PROVE  /\ Len(q) \in Nat /\ DOMAIN q = 1 .. Len(q)
           /\ q = <<>> <=> Len(q) = 0
           /\ q # <<>> => Head(q) = q[1]
BY DEF IsSeq

\* A sequence with one more entry.
LEMMA SeqAppend ==
    ASSUME NEW q, NEW e, IsSeq(q)
    PROVE  /\ IsSeq(Append(q, e)) /\ Append(q, e) # <<>>
           /\ Len(Append(q, e)) = Len(q) + 1
           /\ DOMAIN Append(q, e) = 1 .. Len(q) + 1
           /\ \A i \in 1 .. Len(q) : Append(q, e)[i] = q[i]
           /\ Append(q, e)[Len(q) + 1] = e
<1> DEFINE T == {q[i] : i \in DOMAIN q} \cup {e}
<1>1. q \in Seq(T) /\ e \in T
  BY SeqMonotonic DEF IsSeq
<1> HIDE DEF T
<1>2. /\ Append(q, e) \in Seq(T) /\ Append(q, e) # << >>
      /\ Len(Append(q, e)) = Len(q)+1
      /\ \A i \in 1.. Len(q) : Append(q, e)[i] = q[i]
      /\ Append(q, e)[Len(q)+1] = e
  BY <1>1, AppendProperties
<1>3. IsSeq(Append(q, e))
  BY <1>2, SeqIs
<1>4. DOMAIN Append(q, e) = 1 .. Len(q) + 1
  BY <1>2
<1> QED BY <1>2, <1>3, <1>4

\* A sequence without its first entry.
LEMMA SeqTail ==
    ASSUME NEW q, IsSeq(q), q # <<>>
    PROVE  /\ IsSeq(Tail(q)) /\ Len(Tail(q)) = Len(q) - 1
           /\ DOMAIN Tail(q) = 1 .. Len(q) - 1
           /\ \A i \in 1 .. Len(q) - 1 : Tail(q)[i] = q[i + 1]
<1> DEFINE T == {q[i] : i \in DOMAIN q}
<1>1. q \in Seq(T)
  BY DEF IsSeq
<1> HIDE DEF T
<1>2. /\ Tail(q) \in Seq(T) /\ Len(Tail(q)) = Len(q)-1
      /\ \A i \in 1 .. Len(Tail(q)) : Tail(q)[i] = q[i+1]
  BY <1>1, HeadTailProperties
<1>3. IsSeq(Tail(q))
  BY <1>2, SeqIs
<1>4. DOMAIN Tail(q) = 1 .. Len(q) - 1
  BY <1>2
<1> QED BY <1>2, <1>3, <1>4

\* Two sequences put together.
LEMMA SeqConcat ==
    ASSUME NEW q, NEW r, IsSeq(q), IsSeq(r)
    PROVE  /\ IsSeq(q \o r) /\ Len(q \o r) = Len(q) + Len(r)
           /\ DOMAIN (q \o r) = 1 .. Len(q) + Len(r)
           /\ \A i \in 1 .. Len(q) : (q \o r)[i] = q[i]
           /\ \A i \in 1 .. Len(r) : (q \o r)[Len(q) + i] = r[i]
<1> DEFINE T == {q[i] : i \in DOMAIN q} \cup {r[i] : i \in DOMAIN r}
<1>1. q \in Seq(T) /\ r \in Seq(T)
  BY SeqMonotonic DEF IsSeq
<1> HIDE DEF T
<1>2. /\ q \o r \in Seq(T)
      /\ Len(q \o r) = Len(q) + Len(r)
      /\ \A i \in 1 .. Len(q) + Len(r) : (q \o r)[i] =
                     IF i <= Len(q) THEN q[i] ELSE r[i - Len(q)]
  BY <1>1, ConcatProperties
<1>3. Len(q) \in Nat /\ Len(r) \in Nat
  BY <1>1
<1>4. \A i \in 1 .. Len(r) : (q \o r)[Len(q) + i] = r[i]
  <2> TAKE i \in 1 .. Len(r)
  <2>1. Len(q) + i \in 1 .. Len(q) + Len(r) /\ ~(Len(q) + i <= Len(q)) /\ (Len(q) + i) - Len(q) = i
    BY <1>3
  <2> QED BY <2>1, <1>2
<1>5. IsSeq(q \o r)
  BY <1>2, SeqIs
<1>6. DOMAIN (q \o r) = 1 .. Len(q) + Len(r)
  BY <1>2
<1>7. \A i \in 1 .. Len(q) : (q \o r)[i] = q[i]
  BY <1>2, <1>3
<1> QED BY <1>2, <1>4, <1>5, <1>6, <1>7

\* The rest of a sequence from a position on.
LEMMA SeqFrom ==
    ASSUME NEW q, IsSeq(q), NEW p \in 1 .. Len(q) + 1
    PROVE  /\ IsSeq(From(q, p)) /\ Len(From(q, p)) = Len(q) - p + 1
           /\ DOMAIN From(q, p) = 1 .. Len(q) - p + 1
           /\ \A i \in 1 .. Len(q) - p + 1 : From(q, p)[i] = q[p + i - 1]
           /\ p <= Len(q) => /\ From(q, p) # <<>>
                             /\ Head(From(q, p)) = q[p]
                             /\ Tail(From(q, p)) = From(q, p + 1)
<1> DEFINE T == {q[i] : i \in DOMAIN q}
<1>1. q \in Seq(T) /\ Len(q) \in Nat
  BY DEF IsSeq
<1> HIDE DEF T
<1>2. \A i \in p .. Len(q) : q[i] \in T
  BY <1>1
<1>3. /\ From(q, p) \in Seq(T)
      /\ Len(From(q, p)) = IF p <= Len(q) THEN Len(q) - p + 1 ELSE 0
      /\ \A i \in 1 .. Len(q) - p + 1 : From(q, p)[i] = q[p + i - 1]
  <2>1. PICK n : n = Len(q)
    OBVIOUS
  <2>2. p \in Int /\ n \in Int /\ \A i \in p .. n : q[i] \in T
    BY <1>1, <1>2, <2>1
  <2>3. /\ SubSeq(q, p, n) \in Seq(T)
        /\ Len(SubSeq(q, p, n)) = IF p <= n THEN n - p + 1 ELSE 0
        /\ \A i \in 1 .. n - p + 1 : SubSeq(q, p, n)[i] = q[p + i - 1]
    BY ONLY <2>2, SubSeqProperties
  <2> QED BY <2>1, <2>3 DEF From
<1>4. Len(From(q, p)) = Len(q) - p + 1
  BY <1>1, <1>3
<1>5. ASSUME p <= Len(q)
      PROVE  Head(From(q, p)) = q[p] /\ Tail(From(q, p)) = From(q, p + 1)
  <2>1. p \in 1 .. Len(q) /\ Len(q) \in p .. Len(q)
    BY <1>1, <1>5
  <2> QED BY <1>1, <2>1, HeadTailOfSubSeq DEF From
<1>6. IsSeq(From(q, p))
  BY <1>3, SeqIs
<1>7. DOMAIN From(q, p) = 1 .. Len(q) - p + 1
  BY <1>3, <1>4
<1>8. p <= Len(q) => From(q, p) # <<>>
  BY <1>1, <1>4
<1> QED BY <1>3, <1>4, <1>5, <1>6, <1>7, <1>8

-----------------------------------------------------------------------------
(* Lists of steps, put together by FlattenSeq.                             *)

\* A nonempty set of natural numbers has a least one.
LEMMA LeastNatural ==
    ASSUME NEW T, T \subseteq Nat, T # {}
    PROVE  \E x \in T : \A y \in T : ~(y < x)
<1>1. \E x \in T : \A y \in T : ~(<<y, x>> \in OpToRel(<, Nat))
  BY NatLessThanWellFounded, WFMin
<1> QED BY <1>1 DEF OpToRel

\* FlattenSeq puts the sequences together one by one, up to the n-th.
Flattens(it, seqs, n) ==
    it = [i \in 1 .. n |-> IF i = 1 THEN seqs[i] ELSE it[i - 1] \o seqs[i]]

\* There is such a function: what holds up to n - 1 sequences holds up to n.
LEMMA FlattensExists ==
    ASSUME NEW seqs, NEW n \in Nat
    PROVE  \E it : Flattens(it, seqs, n)
<1> DEFINE Bad == {k \in 0 .. n : ~ \E it : Flattens(it, seqs, k)}
<1>1. SUFFICES ASSUME Bad # {} PROVE FALSE
  OBVIOUS
<1>2. PICK k \in Bad : \A j \in Bad : ~(j < k)
  <2>1. Bad \subseteq Nat
    OBVIOUS
  <2> HIDE DEF Bad
  <2> QED BY <1>1, <2>1, LeastNatural
<1>3. CASE k = 0
  <2> DEFINE it == [i \in 1 .. 0 |-> 0]
  <2>1. Flattens(it, seqs, 0)
    BY DEF Flattens
  <2> QED BY <1>2, <1>3, <2>1
<1>4. CASE k # 0
  <2>1. k - 1 \in 0 .. n /\ k - 1 < k /\ k \in 1 .. n
    BY <1>2, <1>4
  <2>2. PICK g : Flattens(g, seqs, k - 1)
    BY <1>2, <2>1
  <2> DEFINE it == [i \in 1 .. k |-> IF i # k THEN g[i]
                       ELSE IF k = 1 THEN seqs[1] ELSE g[k - 1] \o seqs[k]]
  <2>3. ASSUME NEW i \in 1 .. k
        PROVE  it[i] = IF i = 1 THEN seqs[i] ELSE it[i - 1] \o seqs[i]
    <3>1. CASE i = k
      BY <3>1, <2>1
    <3>2. CASE i # k
      <4>1. /\ i \in 1 .. k - 1 /\ it[i] = g[i]
            /\ i # 1 => i - 1 \in 1 .. k /\ i - 1 # k
        BY <3>2, <2>1
      <4>2. g[i] = IF i = 1 THEN seqs[i] ELSE g[i - 1] \o seqs[i]
        BY <4>1, <2>2 DEF Flattens
      <4>3. i # 1 => it[i - 1] = g[i - 1]
        BY <4>1
      <4> QED BY <4>1, <4>2, <4>3
    <3> QED BY <3>1, <3>2
  <2>4. Flattens(it, seqs, k)
    <3> HIDE DEF it
    <3>1. it = [i \in 1 .. k |-> it[i]]
      BY DEF it
    <3>2. [i \in 1 .. k |-> it[i]] =
            [i \in 1 .. k |-> IF i = 1 THEN seqs[i] ELSE it[i - 1] \o seqs[i]]
      BY <2>3
    <3> QED BY <3>1, <3>2 DEF Flattens
  <2> QED BY <1>2, <2>4
<1> QED BY <1>3, <1>4

\* FlattenSeq is the last value of that function.
LEMMA FlattenIs ==
    ASSUME NEW seqs, Len(seqs) \in Nat, Len(seqs) # 0
    PROVE  \E it : Flattens(it, seqs, Len(seqs)) /\ FlattenSeq(seqs) = it[Len(seqs)]
<1> DEFINE it == CHOOSE f : Flattens(f, seqs, Len(seqs))
<1>1. Flattens(it, seqs, Len(seqs))
  BY FlattensExists
<1>2. FlattenSeq(seqs) = it[Len(seqs)]
  BY DEF FlattenSeq, Flattens
<1> QED BY <1>1, <1>2

\* The place of the k-th element of the j-th of blocks of two or of three.
PlaceIn(b, j, k) == IF b = 2 THEN 2 * (j - 1) + k ELSE 3 * (j - 1) + k

\* Blocks of the same length follow one another.
LEMMA Blocks ==
    ASSUME NEW b \in {2, 3}, NEW seqs, Len(seqs) \in Nat, Len(seqs) # 0,
           \A i \in 1 .. Len(seqs) : IsSeq(seqs[i]) /\ Len(seqs[i]) = b
    PROVE  LET s == FlattenSeq(seqs) IN
           /\ IsSeq(s) /\ Len(s) = PlaceIn(b, Len(seqs), b)
           /\ \A j \in 1 .. Len(seqs) : \A k \in 1 .. b : s[PlaceIn(b, j, k)] = seqs[j][k]
<1> DEFINE n == Len(seqs)
<1>1. PICK it : Flattens(it, seqs, n) /\ FlattenSeq(seqs) = it[n]
  BY FlattenIs
<1> DEFINE Good(i) == /\ IsSeq(it[i]) /\ Len(it[i]) = PlaceIn(b, i, b)
                      /\ \A j \in 1 .. i : \A k \in 1 .. b :
                            it[i][PlaceIn(b, j, k)] = seqs[j][k]
           Bad == {i \in 1 .. n : ~Good(i)}
<1>2. Bad = {}
  <2>1. SUFFICES ASSUME Bad # {} PROVE FALSE
    OBVIOUS
  <2>2. PICK i \in Bad : \A j \in Bad : ~(j < i)
    <3>1. Bad \subseteq Nat
      OBVIOUS
    <3> HIDE DEF Bad
    <3> QED BY <2>1, <3>1, LeastNatural
  <2> HIDE DEF Good
  <2>3. i \in 1 .. n /\ ~Good(i)
    OBVIOUS
  <2>4. CASE i = 1
    <3>1. it[1] = seqs[1] /\ 1 \in 1 .. n
      BY <1>1, <2>3, <2>4 DEF Flattens
    <3>2. Good(1)
      BY <3>1 DEF Good, PlaceIn
    <3> QED BY <2>3, <2>4, <3>2
  <2>5. CASE i # 1
    <3>1. i - 1 \in 1 .. n /\ i - 1 < i /\ i - 1 \in Nat
      BY <2>3, <2>5
    <3>2. Good(i - 1)
      BY <2>2, <3>1
    <3>3. it[i] = it[i - 1] \o seqs[i]
      BY <1>1, <2>3, <2>5 DEF Flattens
    <3>4. /\ IsSeq(it[i - 1]) /\ Len(it[i - 1]) = PlaceIn(b, i - 1, b)
          /\ IsSeq(seqs[i]) /\ Len(seqs[i]) = b
      BY <3>2, <2>3 DEF Good
    <3>5. /\ IsSeq(it[i]) /\ Len(it[i]) = Len(it[i - 1]) + b
          /\ \A h \in 1 .. Len(it[i - 1]) : it[i][h] = it[i - 1][h]
          /\ \A h \in 1 .. b : it[i][Len(it[i - 1]) + h] = seqs[i][h]
      <4>1. PICK u, v : u = it[i - 1] /\ v = seqs[i]
        OBVIOUS
      <4>2. IsSeq(u) /\ IsSeq(v) /\ it[i] = u \o v /\ Len(v) = b
        BY <3>3, <3>4, <4>1
      <4>3. /\ IsSeq(u \o v) /\ Len(u \o v) = Len(u) + Len(v)
            /\ \A h \in 1 .. Len(u) : (u \o v)[h] = u[h]
            /\ \A h \in 1 .. Len(v) : (u \o v)[Len(u) + h] = v[h]
        BY <4>2, SeqConcat
      <4> QED BY <4>1, <4>2, <4>3
    <3>6. ASSUME NEW j \in 1 .. i, NEW k \in 1 .. b
          PROVE  it[i][PlaceIn(b, j, k)] = seqs[j][k]
      <4>1. CASE j = i
        <5>1. PlaceIn(b, j, k) = Len(it[i - 1]) + k
          BY <4>1, <3>4, <2>3 DEF PlaceIn
        <5> QED BY <4>1, <5>1, <3>5
      <4>2. CASE j # i
        <5>1. j \in 1 .. i - 1 /\ PlaceIn(b, j, k) \in 1 .. Len(it[i - 1])
          BY <4>2, <3>4, <2>3 DEF PlaceIn
        <5>2. it[i - 1][PlaceIn(b, j, k)] = seqs[j][k]
          BY <5>1, <3>2 DEF Good
        <5> QED BY <5>1, <5>2, <3>5
      <4> QED BY <4>1, <4>2
    <3>7. Len(it[i]) = PlaceIn(b, i, b)
      BY <3>4, <3>5, <2>3 DEF PlaceIn
    <3>8. Good(i)
      BY <3>5, <3>6, <3>7 DEF Good
    <3> QED BY <2>3, <3>8
  <2> QED BY <2>4, <2>5
<1> HIDE DEF Good
<1>3. n \in 1 .. n
  OBVIOUS
<1>4. Good(n)
  BY <1>2, <1>3
<1> QED BY <1>1, <1>4 DEF Good

\* The fields of a step.
LEMMA StepFields ==
    \A op, what, arg : /\ Step(op, what, arg).op = op /\ Step(op, what, arg).what = what
                       /\ Step(op, what, arg).arg = arg
BY DEF Step

\* What the step of each kind is.
LEMMA StepKinds ==
    \A what, arg : /\ IsCallOf(Step("call", what, arg), what)
                   /\ IsAwait(Step("await", what, arg), what)
                   /\ IsExpect(Step("expect", what, "events"), what)
                   /\ IsGot(Step("got", what, arg), what)
BY DEF Step, IsCallOf, IsAwait, IsExpect, IsGot

\* Expectations of updates, one after the other.
LEMMA ShownIs ==
    ASSUME NEW kinds, IsSeq(kinds), Len(kinds) # 0
    PROVE  LET s == ShownAll(kinds) IN
           /\ IsSeq(s) /\ Len(s) = 2 * Len(kinds)
           /\ \A j \in 1 .. Len(kinds) :
                 /\ IsExpect(s[2 * (j - 1) + 1], Updates)
                 /\ IsGot(s[2 * (j - 1) + 2], {kinds[j]})
<1> DEFINE seqs == [i \in DOMAIN kinds |-> Shown(kinds[i])]
           n == Len(kinds)
<1>1. DOMAIN kinds = 1 .. n /\ n \in Nat
  BY SeqLen
<1>2. Len(seqs) = n
  BY <1>1
<1>3. ASSUME NEW i \in 1 .. n
      PROVE  seqs[i] = <<Step("expect", Updates, "events"), Step("got", {kinds[i]}, "")>>
  BY <1>1 DEF Shown, Expected
<1>4. ASSUME NEW i \in 1 .. n
      PROVE  IsSeq(seqs[i]) /\ Len(seqs[i]) = 2
             /\ IsExpect(seqs[i][1], Updates) /\ IsGot(seqs[i][2], {kinds[i]})
  <2> DEFINE a == Step("expect", Updates, "events")
             c == Step("got", {kinds[i]}, "")
  <2>1. seqs[i] = <<a, c>>
    BY <1>3
  <2> HIDE DEF a, c, seqs
  <2>2. <<a, c>> \in Seq({a, c})
    OBVIOUS
  <2>3. IsSeq(seqs[i])
    BY <2>1, <2>2, SeqIs
  <2>4. Len(seqs[i]) = 2 /\ seqs[i][1] = a /\ seqs[i][2] = c
    BY <2>1
  <2>5. IsExpect(a, Updates) /\ IsGot(c, {kinds[i]})
    BY StepFields, Zenon DEF a, c, IsExpect, IsGot
  <2> QED BY <2>3, <2>4, <2>5
<1> HIDE DEF seqs
<1>5. LET s == FlattenSeq(seqs) IN
      /\ IsSeq(s) /\ Len(s) = PlaceIn(2, n, 2)
      /\ \A j \in 1 .. n : \A k \in 1 .. 2 : s[PlaceIn(2, j, k)] = seqs[j][k]
  <2>1. /\ Len(seqs) \in Nat /\ Len(seqs) # 0
        /\ \A i \in 1 .. Len(seqs) : IsSeq(seqs[i]) /\ Len(seqs[i]) = 2
    BY <1>1, <1>2, <1>4
  <2>2. LET s == FlattenSeq(seqs) IN
        /\ IsSeq(s) /\ Len(s) = PlaceIn(2, Len(seqs), 2)
        /\ \A j \in 1 .. Len(seqs) : \A k \in 1 .. 2 : s[PlaceIn(2, j, k)] = seqs[j][k]
    BY <2>1, Blocks
  <2> QED BY <1>2, <2>2
<1>6. ShownAll(kinds) = FlattenSeq(seqs)
  BY DEF ShownAll, seqs
<1>7. \A j \in 1 .. n : /\ PlaceIn(2, j, 1) = 2 * (j - 1) + 1
                        /\ PlaceIn(2, j, 2) = 2 * (j - 1) + 2
  BY DEF PlaceIn
<1>8. PlaceIn(2, n, 2) = 2 * n
  BY <1>1 DEF PlaceIn
<1> HIDE DEF n
<1>9. \A j \in 1 .. n : /\ FlattenSeq(seqs)[2 * (j - 1) + 1] = seqs[j][1]
                        /\ FlattenSeq(seqs)[2 * (j - 1) + 2] = seqs[j][2]
  BY <1>5, <1>7
<1> QED BY <1>4, <1>5, <1>6, <1>8, <1>9 DEF n

\* Questions of the agent, each expected and answered.
LEMMA ServedIs ==
    ASSUME NEW methods, IsSeq(methods), Len(methods) # 0
    PROVE  LET s == ServedAll(methods) IN
           /\ IsSeq(s) /\ Len(s) = 3 * Len(methods)
           /\ \A j \in 1 .. Len(methods) :
                 /\ IsExpect(s[3 * (j - 1) + 1], {methods[j]})
                 /\ IsGot(s[3 * (j - 1) + 2], {methods[j]})
                 /\ s[3 * (j - 1) + 3].op = "answer"
<1> DEFINE seqs == [i \in DOMAIN methods |-> Served(methods[i])]
           n == Len(methods)
<1>1. DOMAIN methods = 1 .. n /\ n \in Nat
  BY SeqLen
<1>2. Len(seqs) = n
  BY <1>1
<1>4. ASSUME NEW i \in 1 .. n
      PROVE  IsSeq(seqs[i]) /\ Len(seqs[i]) = 3
             /\ IsExpect(seqs[i][1], {methods[i]}) /\ IsGot(seqs[i][2], {methods[i]})
             /\ seqs[i][3].op = "answer"
  <2> DEFINE a == Step("expect", {methods[i]}, "events")
             c == Step("got", {methods[i]}, "")
             d == Step("answer", "", "ok")
  <2>1. seqs[i] = <<a, c>> \o <<d>>
    BY <1>1 DEF Served, Asked, Expected, Answered
  <2> HIDE DEF a, c, d, seqs
  <2>2. <<a, c>> \in Seq({a, c}) /\ <<d>> \in Seq({d})
    OBVIOUS
  <2>3. IsSeq(<<a, c>>) /\ IsSeq(<<d>>)
    BY <2>2, SeqIs
  <2>4. /\ IsSeq(seqs[i]) /\ Len(seqs[i]) = Len(<<a, c>>) + Len(<<d>>)
        /\ \A h \in 1 .. Len(<<a, c>>) : seqs[i][h] = <<a, c>>[h]
        /\ \A h \in 1 .. Len(<<d>>) : seqs[i][Len(<<a, c>>) + h] = <<d>>[h]
    BY <2>1, <2>3, SeqConcat
  <2>5. Len(<<a, c>>) = 2 /\ Len(<<d>>) = 1 /\ <<a, c>>[1] = a /\ <<a, c>>[2] = c /\ <<d>>[1] = d
    OBVIOUS
  <2>6. seqs[i][1] = a /\ seqs[i][2] = c /\ seqs[i][2 + 1] = d
    BY <2>4, <2>5
  <2>7. Len(seqs[i]) = 3 /\ 2 + 1 = 3
    BY <2>4, <2>5
  <2>8. IsExpect(a, {methods[i]})
    <3>1. PICK k : k = {methods[i]}
      OBVIOUS
    <3>2. a = Step("expect", k, "events")
      BY <3>1 DEF a
    <3>3. a.op = "expect" /\ a.what = k /\ a.arg = "events"
      BY ONLY <3>2, StepFields, SMT
    <3>4. IsExpect(a, k)
      BY ONLY <3>3 DEF IsExpect
    <3> QED BY <3>1, <3>4
  <2>9. IsGot(c, {methods[i]})
    BY StepFields, Zenon DEF c, IsGot
  <2>10. d.op = "answer"
    BY StepFields, Zenon DEF d
  <2> QED BY <2>4, <2>6, <2>7, <2>8, <2>9, <2>10
<1> HIDE DEF seqs
<1>5. LET s == FlattenSeq(seqs) IN
      /\ IsSeq(s) /\ Len(s) = PlaceIn(3, n, 3)
      /\ \A j \in 1 .. n : \A k \in 1 .. 3 : s[PlaceIn(3, j, k)] = seqs[j][k]
  <2>1. /\ Len(seqs) \in Nat /\ Len(seqs) # 0
        /\ \A i \in 1 .. Len(seqs) : IsSeq(seqs[i]) /\ Len(seqs[i]) = 3
    BY <1>1, <1>2, <1>4
  <2>2. LET s == FlattenSeq(seqs) IN
        /\ IsSeq(s) /\ Len(s) = PlaceIn(3, Len(seqs), 3)
        /\ \A j \in 1 .. Len(seqs) : \A k \in 1 .. 3 : s[PlaceIn(3, j, k)] = seqs[j][k]
    BY <2>1, Blocks
  <2> QED BY <1>2, <2>2
<1>6. ServedAll(methods) = FlattenSeq(seqs)
  BY DEF ServedAll, seqs
<1>7. \A j \in 1 .. n : /\ PlaceIn(3, j, 1) = 3 * (j - 1) + 1
                        /\ PlaceIn(3, j, 2) = 3 * (j - 1) + 2
                        /\ PlaceIn(3, j, 3) = 3 * (j - 1) + 3
  BY DEF PlaceIn
<1>8. PlaceIn(3, n, 3) = 3 * n
  BY <1>1 DEF PlaceIn
<1> HIDE DEF n
<1>9. \A j \in 1 .. n : /\ FlattenSeq(seqs)[3 * (j - 1) + 1] = seqs[j][1]
                        /\ FlattenSeq(seqs)[3 * (j - 1) + 2] = seqs[j][2]
                        /\ FlattenSeq(seqs)[3 * (j - 1) + 3] = seqs[j][3]
  BY <1>5, <1>7
<1>10. ASSUME NEW j \in 1 .. n
       PROVE  /\ IsExpect(FlattenSeq(seqs)[3 * (j - 1) + 1], {methods[j]})
              /\ IsGot(FlattenSeq(seqs)[3 * (j - 1) + 2], {methods[j]})
              /\ FlattenSeq(seqs)[3 * (j - 1) + 3].op = "answer"
  BY <1>4, <1>9
<1> QED BY <1>5, <1>6, <1>8, <1>10 DEF n

-----------------------------------------------------------------------------
(* Parts of a script.                                                      *)

\* Two sequences with the same elements are the same.
LEMMA SameSeq ==
    ASSUME NEW q, NEW r, IsSeq(q), IsSeq(r), Len(q) = Len(r),
           \A i \in 1 .. Len(q) : q[i] = r[i]
    PROVE  q = r
BY SMTT(30) DEF IsSeq

\* Part w of a sequence t begins after o elements.
PartAt(t, w, o) == \A i \in 1 .. Len(w) : t[o + i] = w[i]

\* What is part of the first part is part of the whole.
LEMMA PartStays ==
    ASSUME NEW x, NEW y, NEW w, NEW o \in Nat, IsSeq(x), IsSeq(y), IsSeq(w),
           PartAt(x, w, o), o + Len(w) <= Len(x)
    PROVE  PartAt(x \o y, w, o)
<1>1. \A i \in 1 .. Len(x) : (x \o y)[i] = x[i]
  BY SeqConcat
<1>2. Len(x) \in Nat /\ Len(w) \in Nat
  BY SeqLen
<1>3. ASSUME NEW i \in 1 .. Len(w) PROVE (x \o y)[o + i] = w[i]
  <2>1. o + i \in 1 .. Len(x)
    BY <1>2
  <2> QED BY <1>1, <2>1 DEF PartAt
<1> QED BY <1>3 DEF PartAt

\* Two parts of a script, one after the other.
LEMMA TwoParts ==
    ASSUME NEW x, NEW y, IsSeq(x), IsSeq(y)
    PROVE  /\ IsSeq(x \o y) /\ Len(x \o y) = Len(x) + Len(y) /\ Len(x \o y) \in Nat
           /\ PartAt(x \o y, x, 0) /\ PartAt(x \o y, y, Len(x))
BY SeqConcat, SeqLen DEF PartAt

\* Eight parts of a script, one after the other.
LEMMA EightParts ==
    ASSUME NEW a, NEW b, NEW c, NEW d, NEW e, NEW f, NEW g, NEW h,
           IsSeq(a), IsSeq(b), IsSeq(c), IsSeq(d), IsSeq(e), IsSeq(f), IsSeq(g), IsSeq(h)
    PROVE  LET t == a \o b \o c \o d \o e \o f \o g \o h IN
           /\ IsSeq(t)
           /\ Len(t) = Len(a) + Len(b) + Len(c) + Len(d) + Len(e) + Len(f) + Len(g) + Len(h)
           /\ PartAt(t, a, 0) /\ PartAt(t, b, Len(a)) /\ PartAt(t, c, Len(a) + Len(b))
           /\ PartAt(t, d, Len(a) + Len(b) + Len(c))
           /\ PartAt(t, e, Len(a) + Len(b) + Len(c) + Len(d))
           /\ PartAt(t, f, Len(a) + Len(b) + Len(c) + Len(d) + Len(e))
           /\ PartAt(t, g, Len(a) + Len(b) + Len(c) + Len(d) + Len(e) + Len(f))
           /\ PartAt(t, h, Len(a) + Len(b) + Len(c) + Len(d) + Len(e) + Len(f) + Len(g))
<1>2. /\ Len(a) \in Nat /\ Len(b) \in Nat /\ Len(c) \in Nat /\ Len(d) \in Nat
      /\ Len(e) \in Nat /\ Len(f) \in Nat /\ Len(g) \in Nat /\ Len(h) \in Nat
  BY SeqLen
<1>3. PICK t2 : t2 = a \o b
  OBVIOUS
<1>4. PICK t3 : t3 = t2 \o c
  OBVIOUS
<1>5. PICK t4 : t4 = t3 \o d
  OBVIOUS
<1>6. PICK t5 : t5 = t4 \o e
  OBVIOUS
<1>7. PICK t6 : t6 = t5 \o f
  OBVIOUS
<1>8. PICK t7 : t7 = t6 \o g
  OBVIOUS
<1>9. PICK t8 : t8 = t7 \o h
  OBVIOUS
<1>10. /\ IsSeq(t2) /\ Len(t2) = Len(a) + Len(b) /\ Len(t2) \in Nat
       /\ PartAt(t2, a, 0) /\ PartAt(t2, b, Len(a))
  BY TwoParts, <1>3
<1>11. /\ IsSeq(t3) /\ Len(t3) = Len(t2) + Len(c) /\ Len(t3) \in Nat
       /\ PartAt(t3, c, Len(t2))
  BY TwoParts, <1>4, <1>10
<1>12. PartAt(t3, a, 0) /\ PartAt(t3, b, Len(a))
  BY <1>2, <1>4, <1>10, PartStays
<1>13. /\ IsSeq(t4) /\ Len(t4) = Len(t3) + Len(d) /\ Len(t4) \in Nat
       /\ PartAt(t4, d, Len(t3))
  BY TwoParts, <1>5, <1>11
<1>14. PartAt(t4, a, 0) /\ PartAt(t4, b, Len(a)) /\ PartAt(t4, c, Len(t2))
  BY <1>2, <1>5, <1>10, <1>11, <1>12, PartStays
<1>15. /\ IsSeq(t5) /\ Len(t5) = Len(t4) + Len(e) /\ Len(t5) \in Nat
       /\ PartAt(t5, e, Len(t4))
  BY TwoParts, <1>6, <1>13
<1>16. PartAt(t5, a, 0) /\ PartAt(t5, b, Len(a)) /\ PartAt(t5, c, Len(t2)) /\ PartAt(t5, d, Len(t3))
  BY <1>2, <1>6, <1>10, <1>11, <1>13, <1>14, PartStays
<1>17. /\ IsSeq(t6) /\ Len(t6) = Len(t5) + Len(f) /\ Len(t6) \in Nat
       /\ PartAt(t6, f, Len(t5))
  BY TwoParts, <1>7, <1>15
<1>18. /\ PartAt(t6, a, 0) /\ PartAt(t6, b, Len(a)) /\ PartAt(t6, c, Len(t2)) /\ PartAt(t6, d, Len(t3))
       /\ PartAt(t6, e, Len(t4))
  BY <1>2, <1>7, <1>10, <1>11, <1>13, <1>15, <1>16, PartStays
<1>19. /\ IsSeq(t7) /\ Len(t7) = Len(t6) + Len(g) /\ Len(t7) \in Nat
       /\ PartAt(t7, g, Len(t6))
  BY TwoParts, <1>8, <1>17
<1>20. /\ PartAt(t7, a, 0) /\ PartAt(t7, b, Len(a)) /\ PartAt(t7, c, Len(t2)) /\ PartAt(t7, d, Len(t3))
       /\ PartAt(t7, e, Len(t4)) /\ PartAt(t7, f, Len(t5))
  BY <1>2, <1>8, <1>10, <1>11, <1>13, <1>15, <1>17, <1>18, PartStays
<1>21. /\ IsSeq(t8) /\ Len(t8) = Len(t7) + Len(h) /\ Len(t8) \in Nat
       /\ PartAt(t8, h, Len(t7))
  BY TwoParts, <1>9, <1>19
<1>22. /\ PartAt(t8, a, 0) /\ PartAt(t8, b, Len(a)) /\ PartAt(t8, c, Len(t2)) /\ PartAt(t8, d, Len(t3))
       /\ PartAt(t8, e, Len(t4)) /\ PartAt(t8, f, Len(t5)) /\ PartAt(t8, g, Len(t6))
  BY <1>2, <1>9, <1>10, <1>11, <1>13, <1>15, <1>17, <1>19, <1>20, PartStays, SMTT(30)
<1>23. t8 = a \o b \o c \o d \o e \o f \o g \o h
  BY <1>3, <1>4, <1>5, <1>6, <1>7, <1>8, <1>9
<1> QED BY <1>10, <1>11, <1>13, <1>15, <1>17, <1>19, <1>21, <1>22, <1>23

\* Short parts of scripts.
LEMMA ShortParts ==
    ASSUME NEW a, NEW c
    PROVE  /\ IsSeq(<<>>) /\ Len(<<>>) = 0
           /\ IsSeq(<<a>>) /\ Len(<<a>>) = 1 /\ <<a>>[1] = a
           /\ IsSeq(<<a, c>>) /\ Len(<<a, c>>) = 2 /\ <<a, c>>[1] = a /\ <<a, c>>[2] = c
<1>1. <<a>> \in Seq({a}) /\ <<a, c>> \in Seq({a, c})
  OBVIOUS
<1>2. IsSeq(<<a>>) /\ IsSeq(<<a, c>>)
  BY <1>1, SeqIs
<1>3. IsSeq(<<>>)
  <2>1. <<>> \in Seq({})
    OBVIOUS
  <2> QED BY <2>1, SeqIs
<1>4. Len(<<>>) = 0
  OBVIOUS
<1>5. Len(<<a>>) = 1 /\ <<a>>[1] = a /\ Len(<<a, c>>) = 2 /\ <<a, c>>[1] = a /\ <<a, c>>[2] = c
  OBVIOUS
<1> QED BY ONLY <1>2, <1>3, <1>4, <1>5

\* A call and the await of its result.
LEMMA CalledIs ==
    ASSUME NEW m, NEW a, NEW z
    PROVE  LET t == Called(m, a, z) IN
           /\ IsSeq(t) /\ Len(t) = 2
           /\ IsCallOf(t[1], m) /\ t[1].arg = a /\ IsAwait(t[2], z)
<1>1. PICK x : x = <<Step("call", m, a)>>
  OBVIOUS
<1>2. PICK y : y = <<Step("await", z, m)>>
  OBVIOUS
<1>3. Called(m, a, z) = x \o y
  BY <1>1, <1>2 DEF Called, Sent, Await
<1>4. /\ IsSeq(x) /\ Len(x) = 1 /\ x[1] = Step("call", m, a)
      /\ IsSeq(y) /\ Len(y) = 1 /\ y[1] = Step("await", z, m)
  BY ShortParts, <1>1, <1>2
<1>5. /\ IsSeq(x \o y) /\ Len(x \o y) = Len(x) + Len(y)
      /\ PartAt(x \o y, x, 0) /\ PartAt(x \o y, y, Len(x))
  BY <1>4, TwoParts
<1>6. (x \o y)[0 + 1] = x[1] /\ (x \o y)[1 + 1] = y[1]
  BY <1>4, <1>5 DEF PartAt
<1>7. IsCallOf(x[1], m) /\ x[1].arg = a /\ IsAwait(y[1], z)
  BY <1>4, StepKinds, StepFields
<1> QED BY <1>3, <1>4, <1>5, <1>6, <1>7

\* What every script of a scenario begins with.
Begins(t, v, s) ==
    /\ IsCallOf(t[1], "initialize") /\ t[1].arg = v /\ IsAwait(t[2], "ok")
    /\ IsCallOf(t[3], "session/new") /\ IsAwait(t[4], "ok")
    /\ IsCallOf(t[5], "_conformance/set_scenario") /\ t[5].arg = s /\ IsAwait(t[6], "ok")

\* How a case that chooses a scenario begins.
LEMMA InScenarioIs ==
    ASSUME NEW v, NEW s
    PROVE  LET t == InScenario(v, s) IN IsSeq(t) /\ Len(t) = 6 /\ Begins(t, v, s)
<1>1. PICK a : a = Called("initialize", v, "ok")
  OBVIOUS
<1>2. PICK empty : empty = ""
  OBVIOUS
<1>3. PICK b : b = Called("session/new", empty, "ok")
  OBVIOUS
<1>4. PICK c : c = Called("_conformance/set_scenario", s, "ok")
  OBVIOUS
<1>5. PICK d : d = a \o b
  OBVIOUS
<1>6. PICK t : t = d \o c
  OBVIOUS
<1>7. InScenario(v, s) = t
  BY <1>1, <1>2, <1>3, <1>4, <1>5, <1>6, Zenon DEF InScenario, WithSession, Initialized
<1>8. /\ IsSeq(a) /\ Len(a) = 2 /\ IsCallOf(a[1], "initialize") /\ a[1].arg = v /\ IsAwait(a[2], "ok")
      /\ IsSeq(b) /\ Len(b) = 2 /\ IsCallOf(b[1], "session/new") /\ IsAwait(b[2], "ok")
      /\ IsSeq(c) /\ Len(c) = 2 /\ IsCallOf(c[1], "_conformance/set_scenario") /\ c[1].arg = s
      /\ IsAwait(c[2], "ok")
  BY CalledIs, <1>1, <1>3, <1>4
<1>9. /\ IsSeq(d) /\ Len(d) = Len(a) + Len(b)
      /\ PartAt(d, a, 0) /\ PartAt(d, b, Len(a))
  BY <1>5, <1>8, TwoParts
<1>10. /\ IsSeq(t) /\ Len(t) = Len(d) + Len(c)
       /\ PartAt(t, d, 0) /\ PartAt(t, c, Len(d))
  BY <1>6, <1>8, <1>9, TwoParts
<1>11. Len(d) = 4 /\ d[1] = a[1] /\ d[2] = a[2] /\ d[3] = b[1] /\ d[4] = b[2]
  BY <1>8, <1>9 DEF PartAt
<1>12. /\ Len(t) = 6 /\ t[1] = a[1] /\ t[2] = a[2] /\ t[3] = b[1] /\ t[4] = b[2]
       /\ t[5] = c[1] /\ t[6] = c[2]
  BY <1>8, <1>10, <1>11 DEF PartAt
<1>13. Begins(t, v, s)
  BY <1>8, <1>12 DEF Begins
<1> QED BY <1>7, <1>10, <1>12, <1>13

-----------------------------------------------------------------------------
(* What the script of a turn is.                                           *)

\* After the prompt, a script only expects, awaits, checks, answers and notifies.
LaterOps == {"expect", "got", "answer", "notify", "written", "await", "check"}
Later(w) == \A i \in 1 .. Len(w) : w[i].op \in LaterOps

ScriptShape(s, t) ==
    /\ IsSeq(t) /\ Len(t) \in Nat
    /\ Len(t) >= Place(s, N(s) + 1) + IF s = "v1-permission-cancel" THEN 0 ELSE 1
    /\ Begins(t, VersionIn(s), s)
    /\ IsCallOf(t[Place(s, 0)], "session/prompt")
    /\ \A i \in Place(s, 0) + 1 .. Len(t) : t[i].op \in LaterOps
    /\ s = "v2-full-turn" =>
          /\ t[7].op = "mark" /\ t[9].op = "written" /\ IsAwait(t[10], "ok")
          /\ t[11].op = "check" /\ t[11].what = "response_first"
    /\ \A j \in 1 .. N(s) :
          /\ \E kinds : IsExpect(t[Place(s, j)], kinds) /\ Events(s)[j] \in kinds
          /\ \E kinds : IsGot(t[Place(s, j) + 1], kinds) /\ Events(s)[j] \in kinds
    /\ \A j \in Questions(s) : t[Place(s, j + 1) - 1].op = "answer"
    /\ s = "v1-full-turn" => t[14].arg = "allow"
    /\ s = "v2-full-turn" => t[20].arg = "allow"
    /\ IF s = "v1-permission-cancel"
       THEN t[14].op = "notify" /\ t[14].what = "session/cancel" /\ IsAwait(t[16], "cancelled")
       ELSE /\ \E kinds : IsExpect(t[Place(s, N(s) + 1)], kinds)
            /\ \E kinds : IsGot(t[Place(s, N(s) + 1) + 1], kinds)

\* The steps of a part are those of the whole.
LEMMA LaterPart ==
    ASSUME NEW t, NEW w, NEW o \in Nat, NEW n \in Nat, PartAt(t, w, o), Later(w), Len(w) = n
    PROVE  \A i \in o + 1 .. o + n : t[i].op \in LaterOps
<1>1. ASSUME NEW i \in o + 1 .. o + n PROVE t[i].op \in LaterOps
  <2>1. i - o \in 1 .. Len(w) /\ o + (i - o) = i
    OBVIOUS
  <2> QED BY <2>1 DEF PartAt, Later
<1> QED BY <1>1

\* A part of one step.
LEMMA OneStep ==
    ASSUME NEW op, NEW what, NEW arg
    PROVE  LET t == <<Step(op, what, arg)>> IN
           /\ IsSeq(t) /\ Len(t) = 1
           /\ t[1].op = op /\ t[1].what = what /\ t[1].arg = arg
           /\ op \in LaterOps => Later(t)
<1>1. PICK x : x = Step(op, what, arg)
  OBVIOUS
<1>2. x.op = op /\ x.what = what /\ x.arg = arg
  BY <1>1, StepFields
<1>3. IsSeq(<<x>>) /\ Len(<<x>>) = 1 /\ <<x>>[1] = x
  BY ShortParts
<1>4. op \in LaterOps => Later(<<x>>)
  BY <1>2, <1>3 DEF Later
<1> QED BY <1>1, <1>2, <1>3, <1>4

\* An expectation and what it got.
LEMMA ExpectedIs ==
    ASSUME NEW kinds, NEW wanted
    PROVE  LET t == Expected(kinds, wanted) IN
           IsSeq(t) /\ Len(t) = 2 /\ Later(t) /\ IsExpect(t[1], kinds) /\ IsGot(t[2], wanted)
<1>1. PICK empty : empty = ""
  OBVIOUS
<1>2. PICK x, y : x = Step("expect", kinds, "events") /\ y = Step("got", wanted, empty)
  OBVIOUS
<1>3. IsExpect(x, kinds) /\ IsGot(y, wanted)
  BY <1>2, StepKinds
<1>4. /\ IsSeq(<<x, y>>) /\ Len(<<x, y>>) = 2 /\ <<x, y>>[1] = x /\ <<x, y>>[2] = y
  BY ShortParts
<1>5. Later(<<x, y>>)
  BY <1>3, <1>4 DEF Later, LaterOps, IsExpect, IsGot
<1>6. Expected(kinds, wanted) = <<x, y>>
  BY <1>1, <1>2, Zenon DEF Expected
<1> QED BY <1>3, <1>4, <1>5, <1>6

\* A place in blocks of two is the first or the second of one of them.
LEMMA InPairs ==
    ASSUME NEW n \in Nat, NEW i \in 1 .. 2 * n
    PROVE  \E j \in 1 .. n : i = 2 * (j - 1) + 1 \/ i = 2 * (j - 1) + 2
<1>1. PICK m \in Nat : m = i - 1
  OBVIOUS
<1>2. m \div 2 \in Int
  OBVIOUS
<1>3. 2 * (m \div 2) <= m /\ m <= 2 * (m \div 2) + 1
  OBVIOUS
<1>4. PICK h \in Int : h = m \div 2
  BY <1>2
<1>5. h + 1 \in 1 .. n /\ (i = 2 * h + 1 \/ i = 2 * h + 2)
  BY <1>1, <1>3, <1>4
<1>6. (h + 1) - 1 = h
  OBVIOUS
<1> QED BY <1>5, <1>6

\* The same of blocks of three.
LEMMA InTriples ==
    ASSUME NEW n \in Nat, NEW i \in 1 .. 3 * n
    PROVE  \E j \in 1 .. n : i = 3 * (j - 1) + 1 \/ i = 3 * (j - 1) + 2 \/ i = 3 * (j - 1) + 3
<1>1. PICK m \in Nat : m = i - 1
  OBVIOUS
<1>2. m \div 3 \in Int
  OBVIOUS
<1>3. 3 * (m \div 3) <= m /\ m <= 3 * (m \div 3) + 2
  OBVIOUS
<1>4. PICK h \in Int : h = m \div 3
  BY <1>2
<1>5. h + 1 \in 1 .. n /\ (i = 3 * h + 1 \/ i = 3 * h + 2 \/ i = 3 * h + 3)
  BY <1>1, <1>3, <1>4
<1>6. (h + 1) - 1 = h
  OBVIOUS
<1> QED BY <1>5, <1>6

\* Updates shown, and questions served, are later steps.
LEMMA ShownLater ==
    ASSUME NEW kinds, IsSeq(kinds), Len(kinds) # 0
    PROVE  Later(ShownAll(kinds))
<1>1. PICK t : t = ShownAll(kinds)
  OBVIOUS
<1>2. /\ IsSeq(t) /\ Len(t) = 2 * Len(kinds) /\ Len(kinds) \in Nat
      /\ \A j \in 1 .. Len(kinds) : /\ IsExpect(t[2 * (j - 1) + 1], Updates)
                                    /\ IsGot(t[2 * (j - 1) + 2], {kinds[j]})
  BY <1>1, ShownIs, SeqLen
<1>3. \A j \in 1 .. Len(kinds) : t[2 * (j - 1) + 1].op = "expect" /\ t[2 * (j - 1) + 2].op = "got"
  BY <1>2 DEF IsExpect, IsGot
<1>4. ASSUME NEW i \in 1 .. Len(t) PROVE t[i].op \in {"expect", "got"}
  <2>1. PICK j \in 1 .. Len(kinds) : i = 2 * (j - 1) + 1 \/ i = 2 * (j - 1) + 2
    <3>1. Len(kinds) \in Nat /\ i \in 1 .. 2 * Len(kinds)
      BY <1>2
    <3> QED BY <3>1, InPairs
  <2> QED BY <2>1, <1>3
<1> QED BY <1>1, <1>4 DEF Later, LaterOps

\* Serving a list of methods calls nothing.
LEMMA ServedLater ==
    ASSUME NEW methods, IsSeq(methods), Len(methods) # 0
    PROVE  Later(ServedAll(methods))
<1>1. PICK t : t = ServedAll(methods)
  OBVIOUS
<1>2. /\ IsSeq(t) /\ Len(t) = 3 * Len(methods) /\ Len(methods) \in Nat
      /\ \A j \in 1 .. Len(methods) : /\ IsExpect(t[3 * (j - 1) + 1], {methods[j]})
                                      /\ IsGot(t[3 * (j - 1) + 2], {methods[j]})
                                      /\ t[3 * (j - 1) + 3].op = "answer"
  BY <1>1, ServedIs, SeqLen
<1>3. \A j \in 1 .. Len(methods) : /\ t[3 * (j - 1) + 1].op = "expect"
                                   /\ t[3 * (j - 1) + 2].op = "got"
                                   /\ t[3 * (j - 1) + 3].op = "answer"
  BY <1>2 DEF IsExpect, IsGot
<1>4. ASSUME NEW i \in 1 .. Len(t) PROVE t[i].op \in {"expect", "got", "answer"}
  <2>1. PICK j \in 1 .. Len(methods) : \/ i = 3 * (j - 1) + 1
                                       \/ i = 3 * (j - 1) + 2
                                       \/ i = 3 * (j - 1) + 3
    <3>1. Len(methods) \in Nat /\ i \in 1 .. 3 * Len(methods)
      BY <1>2
    <3> QED BY <3>1, InTriples
  <2> QED BY <2>1, <1>3
<1> QED BY <1>1, <1>4 DEF Later, LaterOps

-----------------------------------------------------------------------------
(* The four scripts of a turn.                                             *)

\* Two, three or four updates shown.
LEMMA ShownFew ==
    ASSUME NEW kinds, IsSeq(kinds), Len(kinds) \in 2 .. 4
    PROVE  LET t == ShownAll(kinds) IN
           /\ IsSeq(t) /\ Len(t) = 2 * Len(kinds) /\ Later(t)
           /\ IsExpect(t[1], Updates) /\ IsGot(t[2], {kinds[1]})
           /\ IsExpect(t[3], Updates) /\ IsGot(t[4], {kinds[2]})
           /\ Len(kinds) >= 3 => IsExpect(t[5], Updates) /\ IsGot(t[6], {kinds[3]})
           /\ Len(kinds) >= 4 => IsExpect(t[7], Updates) /\ IsGot(t[8], {kinds[4]})
<1>1. PICK t : t = ShownAll(kinds)
  OBVIOUS
<1>2. /\ IsSeq(t) /\ Len(t) = 2 * Len(kinds)
      /\ \A j \in 1 .. Len(kinds) : /\ IsExpect(t[2 * (j - 1) + 1], Updates)
                                    /\ IsGot(t[2 * (j - 1) + 2], {kinds[j]})
  <2>1. Len(kinds) # 0
    OBVIOUS
  <2> QED BY <1>1, <2>1, ShownIs
<1>3. Later(t)
  <2>1. Len(kinds) # 0
    OBVIOUS
  <2> QED BY <1>1, <2>1, ShownLater
<1>4. /\ 1 \in 1 .. Len(kinds) /\ 2 \in 1 .. Len(kinds)
      /\ Len(kinds) >= 3 => 3 \in 1 .. Len(kinds)
      /\ Len(kinds) >= 4 => 4 \in 1 .. Len(kinds)
  OBVIOUS
<1>5. IsExpect(t[2 * (1 - 1) + 1], Updates) /\ IsGot(t[2 * (1 - 1) + 2], {kinds[1]})
  BY <1>2, <1>4
<1>6. IsExpect(t[2 * (2 - 1) + 1], Updates) /\ IsGot(t[2 * (2 - 1) + 2], {kinds[2]})
  BY <1>2, <1>4
<1>7. Len(kinds) >= 3 =>
        IsExpect(t[2 * (3 - 1) + 1], Updates) /\ IsGot(t[2 * (3 - 1) + 2], {kinds[3]})
  BY <1>2, <1>4
<1>8. Len(kinds) >= 4 =>
        IsExpect(t[2 * (4 - 1) + 1], Updates) /\ IsGot(t[2 * (4 - 1) + 2], {kinds[4]})
  BY <1>2, <1>4
<1> QED BY <1>1, <1>2, <1>3, <1>5, <1>6, <1>7, <1>8

\* Tuples of kinds are sequences.
LEMMA KindsAre ==
    /\ \A a, b : IsSeq(<<a, b>>)
    /\ \A a, b, c : IsSeq(<<a, b, c>>)
    /\ \A a, b, c, d : IsSeq(<<a, b, c, d>>)
    /\ \A a, b, c, d, e, f, g, h : IsSeq(<<a, b, c, d, e, f, g, h>>)
<1>1. ASSUME NEW a, NEW b PROVE IsSeq(<<a, b>>)
  <2>1. <<a, b>> \in Seq({a, b})
    OBVIOUS
  <2> QED BY <2>1, SeqIs
<1>2. ASSUME NEW a, NEW b, NEW c PROVE IsSeq(<<a, b, c>>)
  <2>1. <<a, b, c>> \in Seq({a, b, c})
    OBVIOUS
  <2> QED BY <2>1, SeqIs
<1>3. ASSUME NEW a, NEW b, NEW c, NEW d PROVE IsSeq(<<a, b, c, d>>)
  <2>1. <<a, b, c, d>> \in Seq({a, b, c, d})
    OBVIOUS
  <2> QED BY <2>1, SeqIs
<1>4. ASSUME NEW a, NEW b, NEW c, NEW d, NEW e, NEW f, NEW g, NEW h
      PROVE  IsSeq(<<a, b, c, d, e, f, g, h>>)
  <2>1. <<a, b, c, d, e, f, g, h>> \in Seq({a, b, c, d, e, f, g, h})
    OBVIOUS
  <2> QED BY <2>1, SeqIs
<1> QED BY <1>1, <1>2, <1>3, <1>4

\* The full turn of v1: eleven events, the last nine of them questions.
LEMMA FullTurnShape == ScriptShape("v1-full-turn", V1FullTurn)
<1>1. PICK s : s = "v1-full-turn"
  OBVIOUS
<1>2. PICK empty : empty = ""
  OBVIOUS
<1>3. PICK p : p = <<"user_message_chunk", "tool_call">>
  OBVIOUS
<1>4. PICK q : q = <<"fs/read_text_file", "fs/write_text_file", "terminal/create",
                     "terminal/output", "terminal/kill", "terminal/wait_for_exit",
                     "terminal/release", "elicitation/create">>
  OBVIOUS
<1>5. PICK r : r = <<"tool_call_update", "agent_message_chunk">>
  OBVIOUS
<1>6. PICK a : a = InScenario(1, s)
  OBVIOUS
<1>7. PICK b : b = Sent("session/prompt", empty)
  OBVIOUS
<1>8. PICK c : c = ShownAll(p)
  OBVIOUS
<1>9. PICK d : d = Asked("session/request_permission")
  OBVIOUS
<1>10. PICK e : e = Answered("allow")
  OBVIOUS
<1>11. PICK f : f = ServedAll(q)
  OBVIOUS
<1>12. PICK g : g = ShownAll(r)
  OBVIOUS
<1>13. PICK h : h = Await("session/prompt", "end_turn")
  OBVIOUS
<1>14. PICK t : t = a \o b \o c \o d \o e \o f \o g \o h
  OBVIOUS
<1>15. V1FullTurn = t
  BY <1>1, <1>2, <1>3, <1>4, <1>5, <1>6, <1>7, <1>8, <1>9, <1>10, <1>11, <1>12, <1>13, <1>14, Zenon
     DEF V1FullTurn
<1>16. /\ IsSeq(p) /\ Len(p) = 2 /\ p[1] = "user_message_chunk" /\ p[2] = "tool_call"
       /\ IsSeq(q) /\ Len(q) = 8 /\ IsSeq(r) /\ Len(r) = 2
  BY KindsAre, <1>3, <1>4, <1>5
<1>17. \A j \in 4 .. 11 : Events(s)[j] = q[j - 3]
  BY <1>1, <1>4 DEF Events
<1>18. /\ Events(s)[1] = "user_message_chunk" /\ Events(s)[2] = "tool_call"
       /\ Events(s)[3] = "session/request_permission"
  BY <1>1 DEF Events
<1>19. "user_message_chunk" \in Updates /\ "tool_call" \in Updates
  BY DEF Updates
<1>20. IsSeq(a) /\ Len(a) = 6 /\ Begins(a, 1, s)
  BY <1>6, InScenarioIs
<1>21. IsSeq(b) /\ Len(b) = 1 /\ IsCallOf(b[1], "session/prompt")
  BY <1>7, OneStep DEF Sent, IsCallOf
<1>22. /\ IsSeq(c) /\ Len(c) = 4 /\ Later(c)
       /\ IsExpect(c[1], Updates) /\ IsGot(c[2], {"user_message_chunk"})
       /\ IsExpect(c[3], Updates) /\ IsGot(c[4], {"tool_call"})
  <2>1. IsSeq(p) /\ Len(p) \in 2 .. 4
    BY <1>16
  <2>2. /\ IsSeq(c) /\ Len(c) = 2 * Len(p) /\ Later(c)
        /\ IsExpect(c[1], Updates) /\ IsGot(c[2], {p[1]})
        /\ IsExpect(c[3], Updates) /\ IsGot(c[4], {p[2]})
    BY <1>8, <2>1, ShownFew
  <2> QED BY <1>16, <2>2
<1>23. /\ IsSeq(d) /\ Len(d) = 2 /\ Later(d)
       /\ IsExpect(d[1], {"session/request_permission"}) /\ IsGot(d[2], {"session/request_permission"})
  BY <1>9, ExpectedIs DEF Asked
<1>24. IsSeq(e) /\ Len(e) = 1 /\ Later(e) /\ e[1].op = "answer" /\ e[1].arg = "allow"
  <2>1. e = <<Step("answer", empty, "allow")>>
    BY <1>2, <1>10, Zenon DEF Answered
  <2> QED BY <2>1, OneStep DEF LaterOps
<1>25. /\ IsSeq(f) /\ Len(f) = 24 /\ Later(f)
       /\ \A j \in 1 .. 8 : /\ IsExpect(f[3 * (j - 1) + 1], {q[j]})
                            /\ IsGot(f[3 * (j - 1) + 2], {q[j]})
                            /\ f[3 * (j - 1) + 3].op = "answer"
  <2>1. IsSeq(q) /\ Len(q) # 0
    BY <1>16
  <2>2. /\ IsSeq(f) /\ Len(f) = 3 * Len(q)
        /\ \A j \in 1 .. Len(q) : /\ IsExpect(f[3 * (j - 1) + 1], {q[j]})
                                  /\ IsGot(f[3 * (j - 1) + 2], {q[j]})
                                  /\ f[3 * (j - 1) + 3].op = "answer"
    BY <1>11, <2>1, ServedIs
  <2>3. Later(f)
    BY <1>11, <2>1, ServedLater
  <2>4. Len(q) = 8 /\ Len(f) = 24
    BY <1>16, <2>2
  <2> QED BY <2>2, <2>3, <2>4
<1>26. /\ IsSeq(g) /\ Len(g) = 4 /\ Later(g) /\ IsExpect(g[1], Updates) /\ IsGot(g[2], {r[1]})
  <2>1. IsSeq(r) /\ Len(r) \in 2 .. 4
    BY <1>16
  <2>2. /\ IsSeq(g) /\ Len(g) = 2 * Len(r) /\ Later(g) /\ IsExpect(g[1], Updates) /\ IsGot(g[2], {r[1]})
    BY <1>12, <2>1, ShownFew
  <2> QED BY <1>16, <2>2
<1>27. IsSeq(h) /\ Len(h) = 1 /\ Later(h)
  BY <1>13, OneStep DEF Await, LaterOps
<1>28. /\ IsSeq(t) /\ Len(t) = 43
       /\ PartAt(t, a, 0) /\ PartAt(t, b, 6) /\ PartAt(t, c, 7) /\ PartAt(t, d, 11)
       /\ PartAt(t, e, 13) /\ PartAt(t, f, 14) /\ PartAt(t, g, 38) /\ PartAt(t, h, 42)
  <2>1. /\ IsSeq(t)
        /\ Len(t) = Len(a) + Len(b) + Len(c) + Len(d) + Len(e) + Len(f) + Len(g) + Len(h)
        /\ PartAt(t, a, 0) /\ PartAt(t, b, Len(a)) /\ PartAt(t, c, Len(a) + Len(b))
        /\ PartAt(t, d, Len(a) + Len(b) + Len(c))
        /\ PartAt(t, e, Len(a) + Len(b) + Len(c) + Len(d))
        /\ PartAt(t, f, Len(a) + Len(b) + Len(c) + Len(d) + Len(e))
        /\ PartAt(t, g, Len(a) + Len(b) + Len(c) + Len(d) + Len(e) + Len(f))
        /\ PartAt(t, h, Len(a) + Len(b) + Len(c) + Len(d) + Len(e) + Len(f) + Len(g))
    <3>1. IsSeq(a) /\ IsSeq(b) /\ IsSeq(c) /\ IsSeq(d) /\ IsSeq(e) /\ IsSeq(f) /\ IsSeq(g) /\ IsSeq(h)
      BY <1>20, <1>21, <1>22, <1>23, <1>24, <1>25, <1>26, <1>27
    <3> QED BY ONLY <1>14, <3>1, EightParts
  <2>2. /\ Len(a) = 6 /\ Len(b) = 1 /\ Len(c) = 4 /\ Len(d) = 2
        /\ Len(e) = 1 /\ Len(f) = 24 /\ Len(g) = 4 /\ Len(h) = 1
    BY <1>20, <1>21, <1>22, <1>23, <1>24, <1>25, <1>26, <1>27
  <2> QED BY ONLY <2>1, <2>2
<1>29. \A i \in 8 .. 43 : t[i].op \in LaterOps
  <2>1. /\ \A i \in 7 + 1 .. 7 + 4 : t[i].op \in LaterOps
        /\ \A i \in 11 + 1 .. 11 + 2 : t[i].op \in LaterOps
    BY <1>22, <1>23, <1>28, LaterPart
  <2>2. /\ \A i \in 13 + 1 .. 13 + 1 : t[i].op \in LaterOps
        /\ \A i \in 14 + 1 .. 14 + 24 : t[i].op \in LaterOps
    BY <1>24, <1>25, <1>28, LaterPart
  <2>3. /\ \A i \in 38 + 1 .. 38 + 4 : t[i].op \in LaterOps
        /\ \A i \in 42 + 1 .. 42 + 1 : t[i].op \in LaterOps
    BY <1>26, <1>27, <1>28, LaterPart
  <2> QED BY <2>1, <2>2, <2>3
<1>30. /\ t[1] = a[1] /\ t[2] = a[2] /\ t[3] = a[3] /\ t[4] = a[4] /\ t[5] = a[5] /\ t[6] = a[6]
       /\ t[7] = b[1]
  BY <1>20, <1>21, <1>28 DEF PartAt
<1>31. /\ t[8] = c[1] /\ t[9] = c[2] /\ t[10] = c[3] /\ t[11] = c[4]
       /\ t[12] = d[1] /\ t[13] = d[2] /\ t[14] = e[1] /\ t[39] = g[1] /\ t[40] = g[2]
  BY <1>22, <1>23, <1>24, <1>26, <1>28 DEF PartAt
<1>32. \A j \in 1 .. 8 : \A k \in 1 .. 3 : t[14 + (3 * (j - 1) + k)] = f[3 * (j - 1) + k]
  <2>1. \A i \in 1 .. 24 : t[14 + i] = f[i]
    BY <1>25, <1>28 DEF PartAt
  <2>2. \A j \in 1 .. 8 : \A k \in 1 .. 3 : 3 * (j - 1) + k \in 1 .. 24
    OBVIOUS
  <2> QED BY ONLY <2>1, <2>2
<1>33. ASSUME NEW j \in 1 .. 11
       PROVE  /\ \E kinds : IsExpect(t[Place(s, j)], kinds) /\ Events(s)[j] \in kinds
              /\ \E kinds : IsGot(t[Place(s, j) + 1], kinds) /\ Events(s)[j] \in kinds
              /\ j >= 3 => t[Place(s, j + 1) - 1].op = "answer"
  <2>1. CASE j = 1
    <3>1. Place(s, j) = 8 /\ Place(s, j) + 1 = 9
      BY <1>1, <2>1 DEF Place
    <3> QED BY <3>1, <2>1, <1>18, <1>19, <1>22, <1>31
  <2>2. CASE j = 2
    <3>1. Place(s, j) = 10 /\ Place(s, j) + 1 = 11
      BY <1>1, <2>2 DEF Place
    <3> QED BY <3>1, <2>2, <1>18, <1>19, <1>22, <1>31
  <2>3. CASE j = 3
    <3>1. Place(s, j) = 12 /\ Place(s, j) + 1 = 13 /\ Place(s, j + 1) - 1 = 14
      BY <1>1, <2>3 DEF Place
    <3> QED BY <3>1, <2>3, <1>18, <1>23, <1>24, <1>31
  <2>4. CASE j \in 4 .. 11
    <3>1. PICK i \in 1 .. 8 : i = j - 3
      BY <2>4
    <3>2. /\ Place(s, j) = 14 + (3 * (i - 1) + 1)
          /\ Place(s, j) + 1 = 14 + (3 * (i - 1) + 2)
          /\ Place(s, j + 1) - 1 = 14 + (3 * (i - 1) + 3)
      BY <1>1, <2>4, <3>1 DEF Place
    <3>3. /\ t[14 + (3 * (i - 1) + 1)] = f[3 * (i - 1) + 1]
          /\ t[14 + (3 * (i - 1) + 2)] = f[3 * (i - 1) + 2]
          /\ t[14 + (3 * (i - 1) + 3)] = f[3 * (i - 1) + 3]
      BY <1>32
    <3>4. /\ IsExpect(t[Place(s, j)], {q[i]})
          /\ IsGot(t[Place(s, j) + 1], {q[i]})
          /\ t[Place(s, j + 1) - 1].op = "answer"
      BY <1>25, <3>2, <3>3
    <3>5. Events(s)[j] = q[i]
      BY <1>17, <2>4, <3>1
    <3> QED BY <3>4, <3>5
  <2> QED BY <2>1, <2>2, <2>3, <2>4
<1>34. /\ Place(s, 0) = 7 /\ Place(s, N(s) + 1) = 39 /\ N(s) = 11 /\ VersionIn(s) = 1
       /\ Questions(s) = 3 .. 11 /\ 7 + 1 = 8 /\ 39 + 1 = 40
  BY <1>1 DEF Place, N, VersionIn, Questions
<1>35. ScriptShape(s, t)
  <2>1. Begins(t, 1, s) /\ IsCallOf(t[7], "session/prompt")
    BY <1>20, <1>21, <1>30 DEF Begins
  <2>2. /\ s # "v1-permission-cancel" /\ s # "v2-full-turn"
        /\ t[14].arg = "allow"
        /\ \E kinds : IsExpect(t[39], kinds)
        /\ \E kinds : IsGot(t[40], kinds)
    BY <1>1, <1>24, <1>26, <1>31
  <2> QED BY <2>1, <2>2, <1>28, <1>29, <1>33, <1>34 DEF ScriptShape
<1> QED BY <1>1, <1>15, <1>35

\* Five steps, one after the other.
LEMMA FiveSteps ==
    ASSUME NEW a, NEW b, NEW c, NEW d, NEW e
    PROVE  LET t == <<a>> \o <<b>> \o <<c>> \o <<d>> \o <<e>> IN
           IsSeq(t) /\ Len(t) = 5 /\ t[1] = a /\ t[2] = b /\ t[3] = c /\ t[4] = d /\ t[5] = e
<1>1. \A x : IsSeq(<<x>>) /\ Len(<<x>>) = 1 /\ <<x>>[1] = x
  BY ShortParts
<1>2. PICK t2 : t2 = <<a>> \o <<b>>
  OBVIOUS
<1>3. PICK t3 : t3 = t2 \o <<c>>
  OBVIOUS
<1>4. PICK t4 : t4 = t3 \o <<d>>
  OBVIOUS
<1>5. PICK t5 : t5 = t4 \o <<e>>
  OBVIOUS
<1>6. IsSeq(t2) /\ Len(t2) = 2 /\ t2[1] = a /\ t2[2] = b
  <2>1. PICK x, y : x = <<a>> /\ y = <<b>>
    OBVIOUS
  <2>2. /\ IsSeq(x \o y) /\ Len(x \o y) = Len(x) + Len(y)
        /\ \A i \in 1 .. Len(x) : (x \o y)[i] = x[i]
        /\ \A i \in 1 .. Len(y) : (x \o y)[Len(x) + i] = y[i]
    BY <1>1, <2>1, SeqConcat
  <2>3. Len(x) = 1 /\ x[1] = a /\ Len(y) = 1 /\ y[1] = b
    BY <1>1, <2>1
  <2> QED BY ONLY <1>2, <2>1, <2>2, <2>3
<1>7. IsSeq(t3) /\ Len(t3) = 3 /\ t3[1] = a /\ t3[2] = b /\ t3[3] = c
  <2>1. PICK x : x = <<c>>
    OBVIOUS
  <2>2. /\ IsSeq(t2 \o x) /\ Len(t2 \o x) = Len(t2) + Len(x)
        /\ \A i \in 1 .. Len(t2) : (t2 \o x)[i] = t2[i]
        /\ \A i \in 1 .. Len(x) : (t2 \o x)[Len(t2) + i] = x[i]
    <3>1. IsSeq(x)
      BY <1>1, <2>1
    <3>2. IsSeq(t2)
      BY <1>6
    <3> QED BY ONLY <3>1, <3>2, SeqConcat
  <2>3. Len(x) = 1 /\ x[1] = c
    BY <1>1, <2>1
  <2> QED BY ONLY <1>3, <1>6, <2>1, <2>2, <2>3
<1>8. IsSeq(t4) /\ Len(t4) = 4 /\ t4[1] = a /\ t4[2] = b /\ t4[3] = c /\ t4[4] = d
  <2>1. PICK x : x = <<d>>
    OBVIOUS
  <2>2. /\ IsSeq(t3 \o x) /\ Len(t3 \o x) = Len(t3) + Len(x)
        /\ \A i \in 1 .. Len(t3) : (t3 \o x)[i] = t3[i]
        /\ \A i \in 1 .. Len(x) : (t3 \o x)[Len(t3) + i] = x[i]
    <3>1. IsSeq(x)
      BY <1>1, <2>1
    <3>2. IsSeq(t3)
      BY <1>7
    <3> QED BY ONLY <3>1, <3>2, SeqConcat
  <2>3. Len(x) = 1 /\ x[1] = d
    BY <1>1, <2>1
  <2> QED BY ONLY <1>4, <1>7, <2>1, <2>2, <2>3
<1>9. IsSeq(t5) /\ Len(t5) = 5 /\ t5[1] = a /\ t5[2] = b /\ t5[3] = c /\ t5[4] = d /\ t5[5] = e
  <2>1. PICK x : x = <<e>>
    OBVIOUS
  <2>2. /\ IsSeq(t4 \o x) /\ Len(t4 \o x) = Len(t4) + Len(x)
        /\ \A i \in 1 .. Len(t4) : (t4 \o x)[i] = t4[i]
        /\ \A i \in 1 .. Len(x) : (t4 \o x)[Len(t4) + i] = x[i]
    <3>1. IsSeq(x)
      BY <1>1, <2>1
    <3>2. IsSeq(t4)
      BY <1>8
    <3> QED BY ONLY <3>1, <3>2, SeqConcat
  <2>3. Len(x) = 1 /\ x[1] = e
    BY <1>1, <2>1
  <2> QED BY ONLY <1>5, <1>8, <2>1, <2>2, <2>3
<1> QED BY <1>2, <1>3, <1>4, <1>5, <1>9

\* The prompt of version 2.
LEMMA V2PromptIs ==
    LET t == V2Prompt IN
    /\ IsSeq(t) /\ Len(t) = 5 /\ t[1].op = "mark" /\ IsCallOf(t[2], "session/prompt")
    /\ t[3].op = "written" /\ IsAwait(t[4], "ok")
    /\ t[5].op = "check" /\ t[5].what = "response_first"
<1>1. PICK empty : empty = ""
  OBVIOUS
<1>2. PICK a : a = Step("mark", empty, empty)
  OBVIOUS
<1>3. PICK b : b = Step("call", "session/prompt", empty)
  OBVIOUS
<1>4. PICK c : c = Step("written", empty, empty)
  OBVIOUS
<1>5. PICK d : d = Step("await", "ok", "session/prompt")
  OBVIOUS
<1>6. PICK e : e = Step("check", "response_first", empty)
  OBVIOUS
<1>7. PICK t : t = <<a>> \o <<b>> \o <<c>> \o <<d>> \o <<e>>
  OBVIOUS
<1>8. V2Prompt = t
  BY <1>1, <1>2, <1>3, <1>4, <1>5, <1>6, <1>7, Zenon DEF V2Prompt, Marked, Sent, Written, Await, Check
<1>9. IsSeq(t) /\ Len(t) = 5 /\ t[1] = a /\ t[2] = b /\ t[3] = c /\ t[4] = d /\ t[5] = e
  BY <1>7, FiveSteps, SMTT(30)
<1>10. /\ a.op = "mark" /\ IsCallOf(b, "session/prompt") /\ c.op = "written" /\ IsAwait(d, "ok")
       /\ e.op = "check" /\ e.what = "response_first"
  BY <1>2, <1>3, <1>4, <1>5, <1>6, StepFields, StepKinds
<1> QED BY <1>8, <1>9, <1>10

\* Any update shown.
LEMMA SomeUpdateIs ==
    LET t == SomeUpdate IN
    IsSeq(t) /\ Len(t) = 2 /\ Later(t) /\ IsExpect(t[1], Updates) /\ IsGot(t[2], Updates)
BY ExpectedIs DEF SomeUpdate

\* The cancelled permission of v1: three events, the third a question.
LEMMA CancelShape == ScriptShape("v1-permission-cancel", V1Cancel)
<1>1. PICK s : s = "v1-permission-cancel"
  OBVIOUS
<1>2. PICK empty : empty = ""
  OBVIOUS
<1>3. PICK a : a = InScenario(1, s)
  OBVIOUS
<1>4. PICK b : b = Sent("session/prompt", empty)
  OBVIOUS
<1>5. PICK c : c = SomeUpdate
  OBVIOUS
<1>6. PICK d : d = SomeUpdate
  OBVIOUS
<1>7. PICK e : e = Asked("session/request_permission")
  OBVIOUS
<1>8. PICK f : f = Notified("session/cancel")
  OBVIOUS
<1>9. PICK g : g = Answered("cancelled")
  OBVIOUS
<1>10. PICK h : h = Await("session/prompt", "cancelled")
  OBVIOUS
<1>11. PICK t : t = a \o b \o c \o d \o e \o f \o g \o h
  OBVIOUS
<1>12. V1Cancel = t
  BY <1>1, <1>2, <1>3, <1>4, <1>5, <1>6, <1>7, <1>8, <1>9, <1>10, <1>11, Zenon DEF V1Cancel
<1>20. IsSeq(a) /\ Len(a) = 6 /\ Begins(a, 1, s)
  BY <1>3, InScenarioIs
<1>21. IsSeq(b) /\ Len(b) = 1 /\ IsCallOf(b[1], "session/prompt")
  BY <1>4, OneStep DEF Sent, IsCallOf
<1>22. /\ IsSeq(c) /\ Len(c) = 2 /\ Later(c) /\ IsExpect(c[1], Updates) /\ IsGot(c[2], Updates)
       /\ IsSeq(d) /\ Len(d) = 2 /\ Later(d) /\ IsExpect(d[1], Updates) /\ IsGot(d[2], Updates)
  BY <1>5, <1>6, SomeUpdateIs
<1>23. /\ IsSeq(e) /\ Len(e) = 2 /\ Later(e)
       /\ IsExpect(e[1], {"session/request_permission"}) /\ IsGot(e[2], {"session/request_permission"})
  BY <1>7, ExpectedIs DEF Asked
<1>24. IsSeq(f) /\ Len(f) = 1 /\ Later(f) /\ f[1].op = "notify" /\ f[1].what = "session/cancel"
  <2>1. f = <<Step("notify", "session/cancel", empty)>>
    BY <1>2, <1>8, Zenon DEF Notified
  <2> QED BY <2>1, OneStep DEF LaterOps
<1>25. IsSeq(g) /\ Len(g) = 1 /\ Later(g) /\ g[1].op = "answer"
  <2>1. g = <<Step("answer", empty, "cancelled")>>
    BY <1>2, <1>9, Zenon DEF Answered
  <2> QED BY <2>1, OneStep DEF LaterOps
<1>26. IsSeq(h) /\ Len(h) = 1 /\ Later(h) /\ IsAwait(h[1], "cancelled")
  BY <1>10, OneStep DEF Await, LaterOps, IsAwait
<1>28. /\ IsSeq(t) /\ Len(t) = 16
       /\ PartAt(t, a, 0) /\ PartAt(t, b, 6) /\ PartAt(t, c, 7) /\ PartAt(t, d, 9)
       /\ PartAt(t, e, 11) /\ PartAt(t, f, 13) /\ PartAt(t, g, 14) /\ PartAt(t, h, 15)
  <2>1. /\ IsSeq(t)
        /\ Len(t) = Len(a) + Len(b) + Len(c) + Len(d) + Len(e) + Len(f) + Len(g) + Len(h)
        /\ PartAt(t, a, 0) /\ PartAt(t, b, Len(a)) /\ PartAt(t, c, Len(a) + Len(b))
        /\ PartAt(t, d, Len(a) + Len(b) + Len(c))
        /\ PartAt(t, e, Len(a) + Len(b) + Len(c) + Len(d))
        /\ PartAt(t, f, Len(a) + Len(b) + Len(c) + Len(d) + Len(e))
        /\ PartAt(t, g, Len(a) + Len(b) + Len(c) + Len(d) + Len(e) + Len(f))
        /\ PartAt(t, h, Len(a) + Len(b) + Len(c) + Len(d) + Len(e) + Len(f) + Len(g))
    <3>1. IsSeq(a) /\ IsSeq(b) /\ IsSeq(c) /\ IsSeq(d) /\ IsSeq(e) /\ IsSeq(f) /\ IsSeq(g) /\ IsSeq(h)
      BY <1>20, <1>21, <1>22, <1>23, <1>24, <1>25, <1>26
    <3> QED BY ONLY <1>11, <3>1, EightParts
  <2>2. /\ Len(a) = 6 /\ Len(b) = 1 /\ Len(c) = 2 /\ Len(d) = 2
        /\ Len(e) = 2 /\ Len(f) = 1 /\ Len(g) = 1 /\ Len(h) = 1
    BY <1>20, <1>21, <1>22, <1>23, <1>24, <1>25, <1>26
  <2> QED BY ONLY <2>1, <2>2
<1>29. \A i \in 8 .. 16 : t[i].op \in LaterOps
  <2>1. /\ \A i \in 7 + 1 .. 7 + 2 : t[i].op \in LaterOps
        /\ \A i \in 9 + 1 .. 9 + 2 : t[i].op \in LaterOps
        /\ \A i \in 11 + 1 .. 11 + 2 : t[i].op \in LaterOps
    BY <1>22, <1>23, <1>28, LaterPart
  <2>2. /\ \A i \in 13 + 1 .. 13 + 1 : t[i].op \in LaterOps
        /\ \A i \in 14 + 1 .. 14 + 1 : t[i].op \in LaterOps
        /\ \A i \in 15 + 1 .. 15 + 1 : t[i].op \in LaterOps
    BY <1>24, <1>25, <1>26, <1>28, LaterPart
  <2> QED BY <2>1, <2>2
<1>30. \A i \in 1 .. 6 : t[i] = a[i]
  BY <1>20, <1>28 DEF PartAt
<1>31. /\ t[7] = b[1] /\ t[8] = c[1] /\ t[9] = c[2] /\ t[10] = d[1] /\ t[11] = d[2]
       /\ t[12] = e[1] /\ t[13] = e[2]
  BY <1>21, <1>22, <1>23, <1>28 DEF PartAt
<1>32. /\ Place(s, 0) = 7 /\ N(s) = 3 /\ VersionIn(s) = 1 /\ Questions(s) = {3}
       /\ Place(s, 1) = 8 /\ Place(s, 2) = 10 /\ Place(s, 3) = 12 /\ Place(s, 4) = 16
  BY <1>1 DEF Place, N, VersionIn, Questions
<1>33. /\ Events(s)[1] = "user_message_chunk" /\ Events(s)[2] = "tool_call"
       /\ Events(s)[3] = "session/request_permission"
       /\ "user_message_chunk" \in Updates /\ "tool_call" \in Updates
  BY <1>1 DEF Events, PermissionV1, Updates
<1>34. ASSUME NEW j \in 1 .. 3
       PROVE  /\ \E kinds : IsExpect(t[Place(s, j)], kinds) /\ Events(s)[j] \in kinds
              /\ \E kinds : IsGot(t[Place(s, j) + 1], kinds) /\ Events(s)[j] \in kinds
  <2>1. CASE j = 1
    <3>1. Place(s, j) = 8 /\ Place(s, j) + 1 = 9
      BY <1>32, <2>1
    <3> QED BY <3>1, <2>1, <1>22, <1>31, <1>33
  <2>2. CASE j = 2
    <3>1. Place(s, j) = 10 /\ Place(s, j) + 1 = 11
      BY <1>32, <2>2
    <3> QED BY <3>1, <2>2, <1>22, <1>31, <1>33
  <2>3. CASE j = 3
    <3>1. Place(s, j) = 12 /\ Place(s, j) + 1 = 13
      BY <1>32, <2>3
    <3> QED BY <3>1, <2>3, <1>23, <1>31, <1>33
  <2> QED BY <2>1, <2>2, <2>3
<1>35. Begins(t, 1, s) /\ IsCallOf(t[7], "session/prompt")
  <2>1. t[1] = a[1] /\ t[2] = a[2] /\ t[3] = a[3] /\ t[4] = a[4] /\ t[5] = a[5] /\ t[6] = a[6]
    BY <1>30
  <2> QED BY <1>20, <1>21, <1>31, <2>1 DEF Begins
<1>36. t[14] = f[1] /\ t[15] = g[1] /\ t[16] = h[1]
  BY <1>24, <1>25, <1>26, <1>28 DEF PartAt
<1>37. ScriptShape(s, t)
  <2>1. /\ s # "v1-full-turn" /\ s # "v2-full-turn" /\ 3 + 1 = 4 /\ 16 - 1 = 15 /\ 7 + 1 = 8
        /\ t[15].op = "answer"
        /\ t[14].op = "notify" /\ t[14].what = "session/cancel" /\ IsAwait(t[16], "cancelled")
    BY <1>1, <1>24, <1>25, <1>26, <1>36
  <2> QED BY <2>1, <1>1, <1>28, <1>29, <1>32, <1>34, <1>35 DEF ScriptShape
<1> QED BY <1>1, <1>12, <1>37

\* The rejected permission of v1: three events, the third a question.
LEMMA RejectionShape == ScriptShape("v1-permission-reject", V1Rejection)
<1>1. PICK s : s = "v1-permission-reject"
  OBVIOUS
<1>2. PICK empty : empty = ""
  OBVIOUS
<1>3. PICK a : a = InScenario(1, s)
  OBVIOUS
<1>4. PICK b : b = Sent("session/prompt", empty)
  OBVIOUS
<1>5. PICK c : c = SomeUpdate
  OBVIOUS
<1>6. PICK d : d = SomeUpdate
  OBVIOUS
<1>7. PICK e : e = Asked("session/request_permission")
  OBVIOUS
<1>8. PICK f : f = Answered("reject")
  OBVIOUS
<1>9. PICK r : r = <<"tool_call_update", "agent_message_chunk">>
  OBVIOUS
<1>10. PICK g : g = ShownAll(r)
  OBVIOUS
<1>11. PICK h : h = Await("session/prompt", "end_turn")
  OBVIOUS
<1>12. PICK k : k = Check("no_client_methods")
  OBVIOUS
<1>13. PICK t : t = a \o b \o c \o d \o e \o f \o g \o h
  OBVIOUS
<1>14. PICK w : w = t \o k
  OBVIOUS
<1>15. V1Rejection = w
  BY <1>1, <1>2, <1>3, <1>4, <1>5, <1>6, <1>7, <1>8, <1>9, <1>10, <1>11, <1>12, <1>13, <1>14, Zenon
     DEF V1Rejection
<1>20. IsSeq(a) /\ Len(a) = 6 /\ Begins(a, 1, s)
  BY <1>3, InScenarioIs
<1>21. IsSeq(b) /\ Len(b) = 1 /\ IsCallOf(b[1], "session/prompt")
  BY <1>4, OneStep DEF Sent, IsCallOf
<1>22. /\ IsSeq(c) /\ Len(c) = 2 /\ Later(c) /\ IsExpect(c[1], Updates) /\ IsGot(c[2], Updates)
       /\ IsSeq(d) /\ Len(d) = 2 /\ Later(d) /\ IsExpect(d[1], Updates) /\ IsGot(d[2], Updates)
  BY <1>5, <1>6, SomeUpdateIs
<1>23. /\ IsSeq(e) /\ Len(e) = 2 /\ Later(e)
       /\ IsExpect(e[1], {"session/request_permission"}) /\ IsGot(e[2], {"session/request_permission"})
  BY <1>7, ExpectedIs DEF Asked
<1>24. IsSeq(f) /\ Len(f) = 1 /\ Later(f) /\ f[1].op = "answer"
  <2>1. f = <<Step("answer", empty, "reject")>>
    BY <1>2, <1>8, Zenon DEF Answered
  <2> QED BY <2>1, OneStep DEF LaterOps
<1>25. /\ IsSeq(g) /\ Len(g) = 4 /\ Later(g) /\ IsExpect(g[1], Updates) /\ IsGot(g[2], {r[1]})
  <2>1. IsSeq(r) /\ Len(r) = 2 /\ Len(r) \in 2 .. 4
    BY <1>9, KindsAre
  <2>2. /\ IsSeq(g) /\ Len(g) = 2 * Len(r) /\ Later(g) /\ IsExpect(g[1], Updates) /\ IsGot(g[2], {r[1]})
    BY <1>10, <2>1, ShownFew
  <2> QED BY <2>1, <2>2
<1>26. IsSeq(h) /\ Len(h) = 1 /\ Later(h)
  BY <1>11, OneStep DEF Await, LaterOps
<1>27. IsSeq(k) /\ Len(k) = 1 /\ Later(k)
  <2>1. k = <<Step("check", "no_client_methods", empty)>>
    BY <1>2, <1>12, Zenon DEF Check
  <2> QED BY <2>1, OneStep DEF LaterOps
<1>28. /\ IsSeq(t) /\ Len(t) = 19
       /\ PartAt(t, a, 0) /\ PartAt(t, b, 6) /\ PartAt(t, c, 7) /\ PartAt(t, d, 9)
       /\ PartAt(t, e, 11) /\ PartAt(t, f, 13) /\ PartAt(t, g, 14) /\ PartAt(t, h, 18)
  <2>1. /\ IsSeq(t)
        /\ Len(t) = Len(a) + Len(b) + Len(c) + Len(d) + Len(e) + Len(f) + Len(g) + Len(h)
        /\ PartAt(t, a, 0) /\ PartAt(t, b, Len(a)) /\ PartAt(t, c, Len(a) + Len(b))
        /\ PartAt(t, d, Len(a) + Len(b) + Len(c))
        /\ PartAt(t, e, Len(a) + Len(b) + Len(c) + Len(d))
        /\ PartAt(t, f, Len(a) + Len(b) + Len(c) + Len(d) + Len(e))
        /\ PartAt(t, g, Len(a) + Len(b) + Len(c) + Len(d) + Len(e) + Len(f))
        /\ PartAt(t, h, Len(a) + Len(b) + Len(c) + Len(d) + Len(e) + Len(f) + Len(g))
    <3>1. IsSeq(a) /\ IsSeq(b) /\ IsSeq(c) /\ IsSeq(d) /\ IsSeq(e) /\ IsSeq(f) /\ IsSeq(g) /\ IsSeq(h)
      BY <1>20, <1>21, <1>22, <1>23, <1>24, <1>25, <1>26
    <3> QED BY ONLY <1>13, <3>1, EightParts
  <2>2. /\ Len(a) = 6 /\ Len(b) = 1 /\ Len(c) = 2 /\ Len(d) = 2
        /\ Len(e) = 2 /\ Len(f) = 1 /\ Len(g) = 4 /\ Len(h) = 1
    BY <1>20, <1>21, <1>22, <1>23, <1>24, <1>25, <1>26
  <2> QED BY ONLY <2>1, <2>2
<1>29. \A i \in 8 .. 19 : t[i].op \in LaterOps
  <2>1. /\ \A i \in 7 + 1 .. 7 + 2 : t[i].op \in LaterOps
        /\ \A i \in 9 + 1 .. 9 + 2 : t[i].op \in LaterOps
        /\ \A i \in 11 + 1 .. 11 + 2 : t[i].op \in LaterOps
    BY <1>22, <1>23, <1>28, LaterPart
  <2>2. /\ \A i \in 13 + 1 .. 13 + 1 : t[i].op \in LaterOps
        /\ \A i \in 14 + 1 .. 14 + 4 : t[i].op \in LaterOps
    BY <1>24, <1>25, <1>28, LaterPart
  <2>3. \A i \in 18 + 1 .. 18 + 1 : t[i].op \in LaterOps
    BY <1>26, <1>28, LaterPart
  <2> QED BY <2>1, <2>2, <2>3
<1>30. \A i \in 1 .. 6 : t[i] = a[i]
  BY <1>20, <1>28 DEF PartAt
<1>31. /\ t[7] = b[1] /\ t[8] = c[1] /\ t[9] = c[2] /\ t[10] = d[1] /\ t[11] = d[2]
       /\ t[12] = e[1] /\ t[13] = e[2]
  BY <1>21, <1>22, <1>23, <1>28 DEF PartAt
<1>32. /\ Place(s, 0) = 7 /\ N(s) = 3 /\ VersionIn(s) = 1 /\ Questions(s) = {3}
       /\ Place(s, 1) = 8 /\ Place(s, 2) = 10 /\ Place(s, 3) = 12 /\ Place(s, 4) = 15
  BY <1>1 DEF Place, N, VersionIn, Questions
<1>33. /\ Events(s)[1] = "user_message_chunk" /\ Events(s)[2] = "tool_call"
       /\ Events(s)[3] = "session/request_permission"
       /\ "user_message_chunk" \in Updates /\ "tool_call" \in Updates
  BY <1>1 DEF Events, PermissionV1, Updates
<1>34. ASSUME NEW j \in 1 .. 3
       PROVE  /\ \E kinds : IsExpect(t[Place(s, j)], kinds) /\ Events(s)[j] \in kinds
              /\ \E kinds : IsGot(t[Place(s, j) + 1], kinds) /\ Events(s)[j] \in kinds
  <2>1. CASE j = 1
    <3>1. Place(s, j) = 8 /\ Place(s, j) + 1 = 9
      BY <1>32, <2>1
    <3> QED BY <3>1, <2>1, <1>22, <1>31, <1>33
  <2>2. CASE j = 2
    <3>1. Place(s, j) = 10 /\ Place(s, j) + 1 = 11
      BY <1>32, <2>2
    <3> QED BY <3>1, <2>2, <1>22, <1>31, <1>33
  <2>3. CASE j = 3
    <3>1. Place(s, j) = 12 /\ Place(s, j) + 1 = 13
      BY <1>32, <2>3
    <3> QED BY <3>1, <2>3, <1>23, <1>31, <1>33
  <2> QED BY <2>1, <2>2, <2>3
<1>35. Begins(t, 1, s) /\ IsCallOf(t[7], "session/prompt")
  <2>1. t[1] = a[1] /\ t[2] = a[2] /\ t[3] = a[3] /\ t[4] = a[4] /\ t[5] = a[5] /\ t[6] = a[6]
    BY <1>30
  <2> QED BY <1>20, <1>21, <1>31, <2>1 DEF Begins
<1>36. t[14] = f[1] /\ t[15] = g[1] /\ t[16] = g[2]
  BY <1>24, <1>25, <1>28 DEF PartAt
<1>37. IsSeq(w) /\ Len(w) = 20 /\ \A i \in 1 .. 19 : w[i] = t[i]
  <2>1. /\ IsSeq(w) /\ Len(w) = Len(t) + Len(k)
        /\ \A i \in 1 .. Len(t) : w[i] = t[i]
    BY <1>14, <1>27, <1>28, SeqConcat, ZenonT(40)
  <2> QED BY <2>1, <1>27, <1>28
<1>38. \A i \in 8 .. 20 : w[i].op \in LaterOps
  <2>1. IsSeq(w) /\ PartAt(w, k, Len(t)) /\ Len(t) = 19
    BY <1>14, <1>27, <1>28, TwoParts
  <2>2. w[19 + 1] = k[1] /\ k[1].op \in LaterOps
    BY <1>27, <2>1 DEF PartAt, Later
  <2> QED BY <1>29, <1>37, <2>2
<1>39. /\ Begins(w, 1, s) /\ IsCallOf(w[7], "session/prompt")
       /\ w[14].op = "answer"
       /\ \E kinds : IsExpect(w[15], kinds)
       /\ \E kinds : IsGot(w[16], kinds)
  <2>1. /\ w[1] = t[1] /\ w[2] = t[2] /\ w[3] = t[3] /\ w[4] = t[4] /\ w[5] = t[5] /\ w[6] = t[6]
        /\ w[7] = t[7] /\ w[14] = t[14] /\ w[15] = t[15] /\ w[16] = t[16]
    BY <1>37
  <2> QED BY <2>1, <1>24, <1>25, <1>35, <1>36 DEF Begins
<1>40. ASSUME NEW j \in 1 .. 3
       PROVE  /\ \E kinds : IsExpect(w[Place(s, j)], kinds) /\ Events(s)[j] \in kinds
              /\ \E kinds : IsGot(w[Place(s, j) + 1], kinds) /\ Events(s)[j] \in kinds
  <2>1. Place(s, j) \in 1 .. 19 /\ Place(s, j) + 1 \in 1 .. 19
    BY <1>32
  <2>2. w[Place(s, j)] = t[Place(s, j)] /\ w[Place(s, j) + 1] = t[Place(s, j) + 1]
    BY <1>37, <2>1
  <2> QED BY <1>34, <2>2
<1>41. ScriptShape(s, w)
  <2>1. /\ s # "v1-full-turn" /\ s # "v2-full-turn" /\ s # "v1-permission-cancel"
        /\ 3 + 1 = 4 /\ 15 - 1 = 14 /\ 15 + 1 = 16 /\ 7 + 1 = 8
    BY <1>1
  <2> QED BY <2>1, <1>1, <1>32, <1>37, <1>38, <1>39, <1>40 DEF ScriptShape
<1> QED BY <1>1, <1>15, <1>41

\* The full turn of v2: nine events, the fourth and the ninth questions.
LEMMA V2FullTurnShape == ScriptShape("v2-full-turn", V2FullTurn)
<1>1. PICK s : s = "v2-full-turn"
  OBVIOUS
<1>2. PICK empty : empty = ""
  OBVIOUS
<1>3. PICK a : a = InScenario(2, s)
  OBVIOUS
<1>4. PICK b : b = V2Prompt
  OBVIOUS
<1>5. PICK p : p = <<"user_message", "running", "tool_call_update">>
  OBVIOUS
<1>6. PICK c : c = ShownAll(p)
  OBVIOUS
<1>7. PICK d : d = Asked("session/request_permission")
  OBVIOUS
<1>8. PICK e : e = Answered("allow")
  OBVIOUS
<1>9. PICK q : q = <<"requires_action", "running", "terminal_update", "terminal_output_chunk">>
  OBVIOUS
<1>10. PICK f : f = ShownAll(q)
  OBVIOUS
<1>11. PICK g : g = Served("elicitation/create")
  OBVIOUS
<1>12. PICK h : h = V2FullTurnEnd
  OBVIOUS
<1>13. PICK t : t = a \o b \o c \o d \o e \o f \o g \o h
  OBVIOUS
<1>14. V2FullTurn = t
  BY <1>1, <1>2, <1>3, <1>4, <1>5, <1>6, <1>7, <1>8, <1>9, <1>10, <1>11, <1>12, <1>13, Zenon
     DEF V2FullTurn, V2FullTurnStart
<1>15. /\ IsSeq(p) /\ Len(p) = 3 /\ p[1] = "user_message" /\ p[2] = "running" /\ p[3] = "tool_call_update"
       /\ IsSeq(q) /\ Len(q) = 4 /\ q[1] = "requires_action" /\ q[2] = "running"
       /\ q[3] = "terminal_update" /\ q[4] = "terminal_output_chunk"
  BY KindsAre, <1>5, <1>9
<1>16. PICK v : v = <<"agent_message", "idle_end_turn">>
  OBVIOUS
<1>17. IsSeq(v) /\ Len(v) = 2
  BY KindsAre, <1>16
<1>20. IsSeq(a) /\ Len(a) = 6 /\ Begins(a, 2, s)
  BY <1>3, InScenarioIs
<1>21. /\ IsSeq(b) /\ Len(b) = 5 /\ b[1].op = "mark" /\ IsCallOf(b[2], "session/prompt")
       /\ b[3].op = "written" /\ IsAwait(b[4], "ok")
       /\ b[5].op = "check" /\ b[5].what = "response_first"
  BY <1>4, V2PromptIs
<1>22. /\ IsSeq(c) /\ Len(c) = 6 /\ Later(c)
       /\ IsExpect(c[1], Updates) /\ IsGot(c[2], {"user_message"})
       /\ IsExpect(c[3], Updates) /\ IsGot(c[4], {"running"})
       /\ IsExpect(c[5], Updates) /\ IsGot(c[6], {"tool_call_update"})
  <2>1. IsSeq(p) /\ Len(p) \in 2 .. 4 /\ Len(p) >= 3
    BY <1>15
  <2>2. /\ IsSeq(c) /\ Len(c) = 2 * Len(p) /\ Later(c)
        /\ IsExpect(c[1], Updates) /\ IsGot(c[2], {p[1]})
        /\ IsExpect(c[3], Updates) /\ IsGot(c[4], {p[2]})
        /\ IsExpect(c[5], Updates) /\ IsGot(c[6], {p[3]})
    BY <1>6, <2>1, ShownFew
  <2> QED BY <1>15, <2>2
<1>23. /\ IsSeq(d) /\ Len(d) = 2 /\ Later(d)
       /\ IsExpect(d[1], {"session/request_permission"}) /\ IsGot(d[2], {"session/request_permission"})
  BY <1>7, ExpectedIs DEF Asked
<1>24. IsSeq(e) /\ Len(e) = 1 /\ Later(e) /\ e[1].op = "answer" /\ e[1].arg = "allow"
  <2>1. e = <<Step("answer", empty, "allow")>>
    BY <1>2, <1>8, Zenon DEF Answered
  <2> QED BY <2>1, OneStep DEF LaterOps
<1>25. /\ IsSeq(f) /\ Len(f) = 8 /\ Later(f)
       /\ IsExpect(f[1], Updates) /\ IsGot(f[2], {"requires_action"})
       /\ IsExpect(f[3], Updates) /\ IsGot(f[4], {"running"})
       /\ IsExpect(f[5], Updates) /\ IsGot(f[6], {"terminal_update"})
       /\ IsExpect(f[7], Updates) /\ IsGot(f[8], {"terminal_output_chunk"})
  <2>1. IsSeq(q) /\ Len(q) \in 2 .. 4 /\ Len(q) >= 3 /\ Len(q) >= 4
    BY <1>15
  <2>2. /\ IsSeq(f) /\ Len(f) = 2 * Len(q) /\ Later(f)
        /\ IsExpect(f[1], Updates) /\ IsGot(f[2], {q[1]})
        /\ IsExpect(f[3], Updates) /\ IsGot(f[4], {q[2]})
        /\ IsExpect(f[5], Updates) /\ IsGot(f[6], {q[3]})
        /\ IsExpect(f[7], Updates) /\ IsGot(f[8], {q[4]})
    BY <1>10, <2>1, ShownFew
  <2> QED BY <1>15, <2>2
<1>26. /\ IsSeq(g) /\ Len(g) = 3 /\ Later(g)
       /\ IsExpect(g[1], {"elicitation/create"}) /\ IsGot(g[2], {"elicitation/create"})
       /\ g[3].op = "answer"
  <2>1. PICK x : x = Asked("elicitation/create")
    OBVIOUS
  <2>2. PICK y : y = Answered("ok")
    OBVIOUS
  <2>3. /\ IsSeq(x) /\ Len(x) = 2 /\ Later(x)
        /\ IsExpect(x[1], {"elicitation/create"}) /\ IsGot(x[2], {"elicitation/create"})
    BY <2>1, ExpectedIs DEF Asked
  <2>4. IsSeq(y) /\ Len(y) = 1 /\ Later(y) /\ y[1].op = "answer"
    <3>1. y = <<Step("answer", empty, "ok")>>
      BY <1>2, <2>2, Zenon DEF Answered
    <3> QED BY <3>1, OneStep DEF LaterOps
  <2>5. g = x \o y
    BY <1>11, <2>1, <2>2 DEF Served
  <2>6. IsSeq(g) /\ Len(g) = Len(x) + Len(y) /\ PartAt(g, x, 0) /\ PartAt(g, y, Len(x))
    BY <2>3, <2>4, <2>5, TwoParts
  <2>7. Len(g) = 3 /\ g[1] = x[1] /\ g[2] = x[2] /\ g[3] = y[1]
    BY <2>3, <2>4, <2>6 DEF PartAt
  <2>8. Later(g)
    BY <2>3, <2>4, <2>6, <2>7 DEF Later, LaterOps, IsExpect, IsGot
  <2> QED BY <2>3, <2>4, <2>6, <2>7, <2>8
<1>27. /\ IsSeq(h) /\ Len(h) = 5 /\ Later(h) /\ IsExpect(h[1], Updates) /\ IsGot(h[2], {v[1]})
  <2>1. PICK x : x = ShownAll(v)
    OBVIOUS
  <2>2. PICK y : y = Check("no_v1_methods")
    OBVIOUS
  <2>3. /\ IsSeq(x) /\ Len(x) = 4 /\ Later(x) /\ IsExpect(x[1], Updates) /\ IsGot(x[2], {v[1]})
    <3>1. IsSeq(v) /\ Len(v) \in 2 .. 4
      BY <1>17
    <3>2. /\ IsSeq(x) /\ Len(x) = 2 * Len(v) /\ Later(x) /\ IsExpect(x[1], Updates) /\ IsGot(x[2], {v[1]})
      BY <2>1, <3>1, ShownFew
    <3> QED BY <1>17, <3>2
  <2>4. IsSeq(y) /\ Len(y) = 1 /\ Later(y)
    <3>1. y = <<Step("check", "no_v1_methods", empty)>>
      BY <1>2, <2>2, Zenon DEF Check
    <3> QED BY <3>1, OneStep DEF LaterOps
  <2>5. h = x \o y
    BY <1>12, <1>16, <2>1, <2>2, Zenon DEF V2FullTurnEnd
  <2>6. IsSeq(h) /\ Len(h) = Len(x) + Len(y) /\ PartAt(h, x, 0) /\ PartAt(h, y, Len(x))
    BY <2>3, <2>4, <2>5, TwoParts
  <2>7. Len(h) = 5 /\ h[1] = x[1] /\ h[2] = x[2]
    BY <2>3, <2>4, <2>6 DEF PartAt
  <2>8. Later(h)
    <3>1. /\ \A i \in 0 + 1 .. 0 + 4 : h[i].op \in LaterOps
          /\ \A i \in 4 + 1 .. 4 + 1 : h[i].op \in LaterOps
      BY <2>3, <2>4, <2>6, LaterPart
    <3> QED BY <2>7, <3>1 DEF Later
  <2> QED BY <2>3, <2>6, <2>7, <2>8
<1>28. /\ IsSeq(t) /\ Len(t) = 36
       /\ PartAt(t, a, 0) /\ PartAt(t, b, 6) /\ PartAt(t, c, 11) /\ PartAt(t, d, 17)
       /\ PartAt(t, e, 19) /\ PartAt(t, f, 20) /\ PartAt(t, g, 28) /\ PartAt(t, h, 31)
  <2>1. /\ IsSeq(t)
        /\ Len(t) = Len(a) + Len(b) + Len(c) + Len(d) + Len(e) + Len(f) + Len(g) + Len(h)
        /\ PartAt(t, a, 0) /\ PartAt(t, b, Len(a)) /\ PartAt(t, c, Len(a) + Len(b))
        /\ PartAt(t, d, Len(a) + Len(b) + Len(c))
        /\ PartAt(t, e, Len(a) + Len(b) + Len(c) + Len(d))
        /\ PartAt(t, f, Len(a) + Len(b) + Len(c) + Len(d) + Len(e))
        /\ PartAt(t, g, Len(a) + Len(b) + Len(c) + Len(d) + Len(e) + Len(f))
        /\ PartAt(t, h, Len(a) + Len(b) + Len(c) + Len(d) + Len(e) + Len(f) + Len(g))
    <3>1. IsSeq(a) /\ IsSeq(b) /\ IsSeq(c) /\ IsSeq(d) /\ IsSeq(e) /\ IsSeq(f) /\ IsSeq(g) /\ IsSeq(h)
      BY <1>20, <1>21, <1>22, <1>23, <1>24, <1>25, <1>26, <1>27
    <3> QED BY ONLY <1>13, <3>1, EightParts
  <2>2. /\ Len(a) = 6 /\ Len(b) = 5 /\ Len(c) = 6 /\ Len(d) = 2
        /\ Len(e) = 1 /\ Len(f) = 8 /\ Len(g) = 3 /\ Len(h) = 5
    BY <1>20, <1>21, <1>22, <1>23, <1>24, <1>25, <1>26, <1>27
  <2> QED BY ONLY <2>1, <2>2
<1>30. \A i \in 1 .. 6 : t[i] = a[i]
  BY <1>20, <1>28 DEF PartAt
<1>31. t[7] = b[1] /\ t[8] = b[2] /\ t[9] = b[3] /\ t[10] = b[4] /\ t[11] = b[5]
  BY <1>21, <1>28 DEF PartAt
<1>32. /\ t[12] = c[1] /\ t[13] = c[2] /\ t[14] = c[3] /\ t[15] = c[4] /\ t[16] = c[5] /\ t[17] = c[6]
       /\ t[18] = d[1] /\ t[19] = d[2] /\ t[20] = e[1]
  BY <1>22, <1>23, <1>24, <1>28 DEF PartAt
<1>33. /\ t[21] = f[1] /\ t[22] = f[2] /\ t[23] = f[3] /\ t[24] = f[4]
       /\ t[25] = f[5] /\ t[26] = f[6] /\ t[27] = f[7] /\ t[28] = f[8]
  BY <1>25, <1>28 DEF PartAt
<1>34. t[29] = g[1] /\ t[30] = g[2] /\ t[31] = g[3] /\ t[32] = h[1] /\ t[33] = h[2]
  BY <1>26, <1>27, <1>28 DEF PartAt
<1>35. \A i \in 9 .. 36 : t[i].op \in LaterOps
  <2>1. /\ \A i \in 11 + 1 .. 11 + 6 : t[i].op \in LaterOps
        /\ \A i \in 17 + 1 .. 17 + 2 : t[i].op \in LaterOps
        /\ \A i \in 19 + 1 .. 19 + 1 : t[i].op \in LaterOps
    BY <1>22, <1>23, <1>24, <1>28, LaterPart
  <2>2. /\ \A i \in 20 + 1 .. 20 + 8 : t[i].op \in LaterOps
        /\ \A i \in 28 + 1 .. 28 + 3 : t[i].op \in LaterOps
        /\ \A i \in 31 + 1 .. 31 + 5 : t[i].op \in LaterOps
    BY <1>25, <1>26, <1>27, <1>28, LaterPart
  <2>3. t[9].op \in LaterOps /\ t[10].op \in LaterOps /\ t[11].op \in LaterOps
    BY <1>21, <1>31 DEF LaterOps, IsAwait
  <2> QED BY <2>1, <2>2, <2>3
<1>36. /\ Place(s, 0) = 8 /\ N(s) = 9 /\ VersionIn(s) = 2 /\ Questions(s) = {4, 9}
       /\ Place(s, 1) = 12 /\ Place(s, 2) = 14 /\ Place(s, 3) = 16 /\ Place(s, 4) = 18
       /\ Place(s, 5) = 21 /\ Place(s, 6) = 23 /\ Place(s, 7) = 25 /\ Place(s, 8) = 27
       /\ Place(s, 9) = 29 /\ Place(s, 10) = 32
  BY <1>1 DEF Place, N, VersionIn, Questions
<1>37. /\ Events(s)[1] = "user_message" /\ Events(s)[2] = "running"
       /\ Events(s)[3] = "tool_call_update" /\ Events(s)[4] = "session/request_permission"
       /\ Events(s)[5] = "requires_action" /\ Events(s)[6] = "running"
       /\ Events(s)[7] = "terminal_update" /\ Events(s)[8] = "terminal_output_chunk"
       /\ Events(s)[9] = "elicitation/create"
  BY <1>1 DEF Events
<1>38. {"user_message", "running", "tool_call_update", "requires_action", "terminal_update",
        "terminal_output_chunk"} \subseteq Updates
  BY DEF Updates
<1>39. ASSUME NEW j \in 1 .. 9
       PROVE  /\ \E kinds : IsExpect(t[Place(s, j)], kinds) /\ Events(s)[j] \in kinds
              /\ \E kinds : IsGot(t[Place(s, j) + 1], kinds) /\ Events(s)[j] \in kinds
  <2>1. CASE j = 1
    <3>1. Place(s, j) = 12 /\ Place(s, j) + 1 = 13
      BY <1>36, <2>1
    <3> QED BY <3>1, <2>1, <1>22, <1>32, <1>37, <1>38
  <2>2. CASE j = 2
    <3>1. Place(s, j) = 14 /\ Place(s, j) + 1 = 15
      BY <1>36, <2>2
    <3> QED BY <3>1, <2>2, <1>22, <1>32, <1>37, <1>38
  <2>3. CASE j = 3
    <3>1. Place(s, j) = 16 /\ Place(s, j) + 1 = 17
      BY <1>36, <2>3
    <3> QED BY <3>1, <2>3, <1>22, <1>32, <1>37, <1>38
  <2>4. CASE j = 4
    <3>1. Place(s, j) = 18 /\ Place(s, j) + 1 = 19
      BY <1>36, <2>4
    <3> QED BY <3>1, <2>4, <1>23, <1>32, <1>37, <1>38
  <2>5. CASE j = 5
    <3>1. Place(s, j) = 21 /\ Place(s, j) + 1 = 22
      BY <1>36, <2>5
    <3> QED BY <3>1, <2>5, <1>25, <1>33, <1>37, <1>38
  <2>6. CASE j = 6
    <3>1. Place(s, j) = 23 /\ Place(s, j) + 1 = 24
      BY <1>36, <2>6
    <3> QED BY <3>1, <2>6, <1>25, <1>33, <1>37, <1>38
  <2>7. CASE j = 7
    <3>1. Place(s, j) = 25 /\ Place(s, j) + 1 = 26
      BY <1>36, <2>7
    <3> QED BY <3>1, <2>7, <1>25, <1>33, <1>37, <1>38
  <2>8. CASE j = 8
    <3>1. Place(s, j) = 27 /\ Place(s, j) + 1 = 28
      BY <1>36, <2>8
    <3> QED BY <3>1, <2>8, <1>25, <1>33, <1>37, <1>38
  <2>9. CASE j = 9
    <3>1. Place(s, j) = 29 /\ Place(s, j) + 1 = 30
      BY <1>36, <2>9
    <3> QED BY <3>1, <2>9, <1>26, <1>34, <1>37, <1>38
  <2> QED BY <2>1, <2>2, <2>3, <2>4, <2>5, <2>6, <2>7, <2>8, <2>9
<1>40. Begins(t, 2, s) /\ IsCallOf(t[8], "session/prompt")
  <2>1. t[1] = a[1] /\ t[2] = a[2] /\ t[3] = a[3] /\ t[4] = a[4] /\ t[5] = a[5] /\ t[6] = a[6]
    BY <1>30
  <2> QED BY <1>20, <1>21, <1>31, <2>1 DEF Begins
<1>41. ASSUME NEW j \in Questions(s) PROVE t[Place(s, j + 1) - 1].op = "answer"
  <2>1. j = 4 \/ j = 9
    BY <1>36
  <2>2. Place(s, 4 + 1) - 1 = 20 /\ Place(s, 9 + 1) - 1 = 31
    BY <1>36
  <2> QED BY <2>1, <2>2, <1>24, <1>26, <1>32, <1>34
<1>42. ScriptShape(s, t)
  <2>1. /\ s # "v1-full-turn" /\ s # "v1-permission-cancel" /\ 9 + 1 = 10 /\ 32 + 1 = 33 /\ 8 + 1 = 9
        /\ t[20].arg = "allow"
        /\ t[7].op = "mark" /\ t[9].op = "written" /\ IsAwait(t[10], "ok")
        /\ t[11].op = "check" /\ t[11].what = "response_first"
        /\ \E kinds : IsExpect(t[32], kinds)
        /\ \E kinds : IsGot(t[33], kinds)
    BY <1>1, <1>21, <1>24, <1>27, <1>31, <1>32, <1>34
  <2> QED BY <2>1, <1>28, <1>35, <1>36, <1>39, <1>40, <1>41 DEF ScriptShape
<1> QED BY <1>1, <1>14, <1>42

\* The script of each scenario in which the agent asks.
LEMMA ShapeOf == \A s \in Scenarios : ScriptShape(s, Script(s))
<1>1. ASSUME NEW s \in Scenarios PROVE ScriptShape(s, Script(s))
  <2>1. CASE s = "v1-full-turn"
    BY <2>1, FullTurnShape DEF Script
  <2>2. CASE s = "v1-permission-reject"
    BY <2>2, RejectionShape DEF Script
  <2>3. CASE s = "v1-permission-cancel"
    BY <2>3, CancelShape DEF Script
  <2>4. CASE s = "v2-full-turn"
    BY <2>4, V2FullTurnShape DEF Script
  <2> QED BY <2>1, <2>2, <2>3, <2>4 DEF Scenarios
<1> QED BY <1>1

-----------------------------------------------------------------------------
(* Scripts in which the agent asks nothing.                                *)

\* A script that chooses no scenario in which the agent asks.
PlainStep(x) == IsCallOf(x, "_conformance/set_scenario") => x.arg \in Plain
PlainScript(t) == IsSeq(t) /\ \A i \in DOMAIN t : PlainStep(t[i])

\* Two harmless scripts put together are harmless.
LEMMA PlainJoin ==
    ASSUME NEW x, NEW y, PlainScript(x), PlainScript(y)
    PROVE  PlainScript(x \o y)
<1>1. IsSeq(x) /\ IsSeq(y)
  BY DEF PlainScript
<1>2. Len(x) \in Nat /\ Len(y) \in Nat /\ DOMAIN x = 1 .. Len(x) /\ DOMAIN y = 1 .. Len(y)
  BY <1>1, SeqLen
<1>3. /\ IsSeq(x \o y) /\ DOMAIN (x \o y) = 1 .. Len(x) + Len(y)
      /\ \A i \in 1 .. Len(x) : (x \o y)[i] = x[i]
      /\ \A i \in 1 .. Len(y) : (x \o y)[Len(x) + i] = y[i]
  BY <1>1, SeqConcat
<1>4. ASSUME NEW i \in 1 .. Len(x) + Len(y) PROVE PlainStep((x \o y)[i])
  <2>1. CASE i \in 1 .. Len(x)
    BY <2>1, <1>2, <1>3 DEF PlainScript
  <2>2. CASE i \notin 1 .. Len(x)
    <3>1. i - Len(x) \in 1 .. Len(y) /\ Len(x) + (i - Len(x)) = i
      BY <1>2, <2>2
    <3>2. (x \o y)[i] = y[i - Len(x)]
      BY <1>3, <3>1
    <3> QED BY <1>2, <3>1, <3>2 DEF PlainScript
  <2> QED BY <2>1, <2>2
<1> QED BY <1>3, <1>4 DEF PlainScript

\* A script that calls nothing is harmless.
LEMMA PlainLater ==
    ASSUME NEW t, IsSeq(t), Later(t)
    PROVE  PlainScript(t)
BY SeqLen DEF PlainScript, PlainStep, Later, LaterOps, IsCallOf

\* A step that chooses no scenario that asks is harmless.
LEMMA PlainOne ==
    ASSUME NEW op, NEW what, NEW arg,
           op # "call" \/ what # "_conformance/set_scenario" \/ arg \in Plain
    PROVE  PlainScript(<<Step(op, what, arg)>>)
<1>1. PICK x : x = Step(op, what, arg)
  OBVIOUS
<1>2. x.op = op /\ x.what = what /\ x.arg = arg
  BY <1>1, StepFields
<1>3. IsSeq(<<x>>) /\ Len(<<x>>) = 1 /\ <<x>>[1] = x
  BY ShortParts
<1>4. DOMAIN <<x>> = {1}
  BY <1>3
<1> QED BY <1>1, <1>2, <1>3, <1>4 DEF PlainScript, PlainStep, IsCallOf

\* A call that chooses no scenario that asks is harmless.
LEMMA PlainCall ==
    ASSUME NEW m, NEW a, NEW z, m # "_conformance/set_scenario" \/ a \in Plain
    PROVE  PlainScript(Sent(m, a)) /\ PlainScript(Called(m, a, z))
<1>1. PlainScript(Sent(m, a))
  BY PlainOne DEF Sent
<1>2. PlainScript(Await(m, z))
  BY PlainOne DEF Await
<1> QED BY <1>1, <1>2, PlainJoin DEF Called

\* The parts of scripts that call nothing are harmless.
LEMMA PlainParts ==
    /\ PlainScript(Written) /\ PlainScript(Marked)
    /\ \A m, z : PlainScript(Await(m, z))
    /\ \A m : PlainScript(Notified(m)) /\ PlainScript(Check(m))
    /\ PlainScript(SomeUpdate) /\ \A k : PlainScript(Shown(k))
<1>1. PICK empty : empty = ""
  OBVIOUS
<1>2. PlainScript(Written) /\ PlainScript(Marked)
  <2>1. Written = <<Step("written", empty, empty)>> /\ Marked = <<Step("mark", empty, empty)>>
    BY <1>1, Zenon DEF Written, Marked
  <2> QED BY <2>1, PlainOne
<1>3. \A m, z : PlainScript(Await(m, z))
  BY PlainOne DEF Await
<1>4. ASSUME NEW m PROVE PlainScript(Notified(m)) /\ PlainScript(Check(m))
  <2>1. Notified(m) = <<Step("notify", m, empty)>> /\ Check(m) = <<Step("check", m, empty)>>
    BY <1>1, Zenon DEF Notified, Check
  <2> QED BY <2>1, PlainOne
<1>5. ASSUME NEW k, NEW w PROVE PlainScript(Expected(k, w))
  BY ExpectedIs, PlainLater
<1>6. PlainScript(SomeUpdate) /\ \A k : PlainScript(Shown(k))
  BY <1>5 DEF SomeUpdate, Shown
<1> QED BY <1>2, <1>3, <1>4, <1>6

\* Awaiting two updates is harmless.
LEMMA PlainShown ==
    ASSUME NEW a, NEW b
    PROVE  PlainScript(ShownAll(<<a, b>>))
<1>1. PICK k : k = <<a, b>>
  OBVIOUS
<1>2. IsSeq(k) /\ Len(k) = 2
  BY <1>1, KindsAre
<1>3. IsSeq(k) /\ Len(k) # 0
  BY <1>2
<1>4. IsSeq(ShownAll(k)) /\ Later(ShownAll(k))
  BY <1>3, ShownIs, ShownLater
<1> QED BY <1>1, <1>4, PlainLater

\* Initializing, and opening a session, is harmless.
LEMMA PlainBegin ==
    ASSUME NEW v
    PROVE  PlainScript(Initialized(v)) /\ PlainScript(WithSession(v))
<1>1. PICK empty : empty = ""
  OBVIOUS
<1>2. PlainScript(Initialized(v))
  BY PlainCall DEF Initialized
<1>3. WithSession(v) = Initialized(v) \o Called("session/new", empty, "ok")
  BY <1>1, Zenon DEF WithSession
<1>4. PlainScript(Called("session/new", empty, "ok"))
  BY PlainCall
<1> QED BY <1>2, <1>3, <1>4, PlainJoin

\* The prompt of v2 is harmless.
LEMMA PlainPrompt == PlainScript(V2Prompt)
<1>1. PICK empty : empty = ""
  OBVIOUS
<1>2. PlainScript(Sent("session/prompt", empty))
  BY PlainCall
<1>3. V2Prompt = Marked \o Sent("session/prompt", empty) \o Written \o Await("session/prompt", "ok")
                   \o Check("response_first")
  BY <1>1, Zenon DEF V2Prompt
<1> QED BY <1>2, <1>3, PlainParts, PlainJoin

\* The cases both versions have.
LEMMA PlainCommon ==
    ASSUME NEW v
    PROVE  /\ PlainScript(Negotiation(v)) /\ PlainScript(InvalidParams)
           /\ PlainScript(UnknownMethod(v)) /\ PlainScript(CancelCase(v))
<1>1. PICK empty : empty = ""
  OBVIOUS
<1>2. PlainScript(Negotiation(v)) /\ PlainScript(InvalidParams)
  BY PlainBegin, PlainCall DEF Negotiation, InvalidParams
<1>3. PlainScript(UnknownMethod(v))
  <2>1. UnknownMethod(v) =
           Initialized(v) \o Called("session/unknown", empty, "method_not_found")
           \o Notified("_unknown") \o Called("_conformance/echo", empty, "ok")
    BY <1>1, Zenon DEF UnknownMethod
  <2>2. /\ PlainScript(Called("session/unknown", empty, "method_not_found"))
        /\ PlainScript(Called("_conformance/echo", empty, "ok"))
    BY PlainCall
  <2> QED BY <2>1, <2>2, PlainBegin, PlainParts, PlainJoin
<1>4. PlainScript(CancelCase(v))
  <2>1. CancelCase(v) =
           Initialized(v) \o Sent("_conformance/slow", empty) \o Written
           \o Notified("$/cancel_request") \o Await("_conformance/slow", "request_cancelled")
    BY <1>1, Zenon DEF CancelCase
  <2>2. PlainScript(Sent("_conformance/slow", empty))
    BY PlainCall
  <2> QED BY <2>1, <2>2, PlainBegin, PlainParts, PlainJoin
<1> QED BY <1>2, <1>3, <1>4

\* The parse error case is harmless.
LEMMA PlainParseError == PlainScript(ParseError)
<1>1. PICK empty : empty = ""
  OBVIOUS
<1>2. PICK a : a = Step("raw", empty, empty)
  OBVIOUS
<1>3. PICK b : b = Step("expect", {H!NullId}, "responses")
  OBVIOUS
<1>4. PICK c : c = Step("got", {"parse_error"}, empty)
  OBVIOUS
<1>5. ParseError = <<a, b, c>>
  BY <1>1, <1>2, <1>3, <1>4, Zenon DEF ParseError
<1>6. PICK t : t = <<a, b, c>>
  OBVIOUS
<1>7. IsSeq(t)
  BY <1>6, KindsAre
<1>8. Len(t) = 3 /\ t[1] = a /\ t[2] = b /\ t[3] = c
  BY <1>6
<1>9. a.op = "raw" /\ b.op = "expect" /\ c.op = "got"
  BY <1>2, <1>3, <1>4, StepFields
<1>10. DOMAIN t = {1, 2, 3}
  BY <1>7, <1>8, SeqLen
<1> QED BY <1>5, <1>6, <1>7, <1>8, <1>9, <1>10 DEF PlainScript, PlainStep, IsCallOf

\* The replay case of v1 is harmless.
LEMMA PlainLoadReplay == PlainScript(LoadReplay)
<1>1. PICK empty : empty = ""
  OBVIOUS
<1>2. LoadReplay =
        WithSession(1) \o Called("session/prompt", empty, "end_turn")
        \o SomeUpdate \o SomeUpdate
        \o Sent("session/load", empty) \o Written
        \o ShownAll(<<"user_message_chunk", "agent_message_chunk">>)
        \o Await("session/load", "ok")
  BY <1>1, Zenon DEF LoadReplay
<1>3. /\ PlainScript(Called("session/prompt", empty, "end_turn"))
      /\ PlainScript(Sent("session/load", empty))
  BY PlainCall
<1>4. PlainScript(ShownAll(<<"user_message_chunk", "agent_message_chunk">>))
  BY PlainShown
<1>5. PICK a : a = WithSession(1) \o Called("session/prompt", empty, "end_turn") \o SomeUpdate \o SomeUpdate
  OBVIOUS
<1>6. PlainScript(a)
  BY <1>3, <1>5, PlainBegin, PlainParts, PlainJoin
<1>7. PlainScript(a \o Sent("session/load", empty) \o Written)
  BY <1>3, <1>6, PlainParts, PlainJoin
<1> QED BY <1>2, <1>4, <1>5, <1>7, PlainParts, PlainJoin

\* The list and resume case of v2 is harmless.
LEMMA PlainListAndResume == PlainScript(ListAndResume)
<1>1. PICK empty : empty = ""
  OBVIOUS
<1>2. PICK a : a = WithSession(2) \o V2Prompt \o SomeUpdate \o SomeUpdate \o SomeUpdate \o SomeUpdate
  OBVIOUS
<1>3. PICK b : b = a \o Called("session/list", empty, "ok")
                     \o Marked \o Called("session/resume", "none", "ok") \o Check("no_updates")
  OBVIOUS
<1>4. ListAndResume =
        b \o Sent("session/resume", "start") \o Written
        \o ShownAll(<<"user_message", "agent_message">>)
        \o Await("session/resume", "ok")
  BY <1>1, <1>2, <1>3, Zenon DEF ListAndResume
<1>5. /\ PlainScript(Called("session/list", empty, "ok"))
      /\ PlainScript(Called("session/resume", "none", "ok"))
      /\ PlainScript(Sent("session/resume", "start"))
  BY PlainCall
<1>6. PlainScript(ShownAll(<<"user_message", "agent_message">>))
  BY PlainShown
<1>7. PlainScript(a)
  BY <1>2, PlainBegin, PlainPrompt, PlainParts, PlainJoin
<1>8. PlainScript(b)
  BY <1>3, <1>5, <1>7, PlainParts, PlainJoin
<1>9. PlainScript(b \o Sent("session/resume", "start") \o Written)
  BY <1>5, <1>8, PlainParts, PlainJoin
<1> QED BY <1>4, <1>6, <1>9, PlainParts, PlainJoin

\* The cancel case of v2 is harmless: its scenario sleeps, and asks nothing.
LEMMA PlainV2Cancel == PlainScript(V2Cancel)
<1>1. PICK empty : empty = ""
  OBVIOUS
<1>2. V2Cancel =
        InScenario(2, "v2-cancel") \o Called("session/prompt", empty, "ok")
        \o SomeUpdate \o SomeUpdate
        \o Notified("session/cancel") \o Shown("idle_cancelled")
  BY <1>1, Zenon DEF V2Cancel
<1>3. /\ PlainScript(Called("session/prompt", empty, "ok"))
      /\ PlainScript(Called("_conformance/set_scenario", "v2-cancel", "ok"))
  BY PlainCall DEF Plain
<1>4. PlainScript(InScenario(2, "v2-cancel"))
  BY <1>3, PlainBegin, PlainJoin DEF InScenario
<1>5. PlainScript(InScenario(2, "v2-cancel") \o Called("session/prompt", empty, "ok"))
  BY <1>3, <1>4, PlainJoin
<1> QED BY <1>2, <1>5, PlainParts, PlainJoin

\* The case of the absent load is harmless.
LEMMA PlainLoadAbsent == PlainScript(LoadAbsent)
<1>1. PICK empty : empty = ""
  OBVIOUS
<1>2. LoadAbsent = Initialized(2) \o Called("session/load", empty, "method_not_found")
  BY <1>1, Zenon DEF LoadAbsent
<1>3. PlainScript(Called("session/load", empty, "method_not_found"))
  BY PlainCall
<1> QED BY <1>2, <1>3, PlainBegin, PlainJoin

\* Suite is three short lists and a long one, put together.
LEMMA ScriptsOfSuite ==
    /\ Len(Suite) \in Nat
    /\ \A i \in 1 .. Len(Suite) :
          PlainScript(Suite[i].script) \/ \E s \in Scenarios : Suite[i].script = Script(s)
<1> DEFINE Good(c) == PlainScript(c.script) \/ \E s \in Scenarios : c.script = Script(s)
           AllGood(q) == IsSeq(q) /\ \A i \in 1 .. Len(q) : Good(q[i])
<1>1. ASSUME NEW id, NEW v, NEW d, NEW t,
             PlainScript(t) \/ \E s \in Scenarios : t = Script(s)
      PROVE  Good(Case(id, v, d, t))
  BY <1>1 DEF Case
<1>2. ASSUME NEW q, NEW r, AllGood(q), AllGood(r) PROVE AllGood(q \o r)
  <2>1. IsSeq(q) /\ IsSeq(r)
    BY <1>2
  <2>2. Len(q) \in Nat /\ Len(r) \in Nat
    BY <2>1, SeqLen
  <2>3. /\ IsSeq(q \o r) /\ Len(q \o r) = Len(q) + Len(r)
        /\ \A i \in 1 .. Len(q) : (q \o r)[i] = q[i]
        /\ \A i \in 1 .. Len(r) : (q \o r)[Len(q) + i] = r[i]
    BY <2>1, SeqConcat
  <2>4. ASSUME NEW i \in 1 .. Len(q) + Len(r) PROVE Good((q \o r)[i])
    <3>1. CASE i \in 1 .. Len(q)
      BY <3>1, <1>2, <2>3
    <3>2. CASE i \notin 1 .. Len(q)
      <4>1. i - Len(q) \in 1 .. Len(r) /\ Len(q) + (i - Len(q)) = i
        BY <2>2, <3>2
      <4> QED BY <4>1, <1>2, <2>3
    <3> QED BY <3>1, <3>2
  <2> QED BY <2>3, <2>4
<1>3. ASSUME NEW a, NEW b, NEW c, NEW d, Good(a), Good(b), Good(c), Good(d)
      PROVE  AllGood(<<a, b, c, d>>)
  <2>1. IsSeq(<<a, b, c, d>>)
    BY KindsAre
  <2> QED BY <1>3, <2>1
<1>4. ASSUME NEW a, NEW b, NEW c, NEW d, NEW e, Good(a), Good(b), Good(c), Good(d), Good(e)
      PROVE  AllGood(<<a, b, c, d, e>>)
  <2>1. <<a, b, c, d, e>> \in Seq({a, b, c, d, e})
    OBVIOUS
  <2>2. IsSeq(<<a, b, c, d, e>>)
    BY <2>1, SeqIs
  <2> QED BY <1>4, <2>2
<1> HIDE DEF Good
<1>5. ASSUME NEW v PROVE AllGood(CommonCases(v))
  <2>1. PICK a : a = Case("initialize-negotiation", v, AnyDriver, Negotiation(v))
    OBVIOUS
  <2>2. PICK b : b = Case("initialize-invalid-params", v, AnyDriver, InvalidParams)
    OBVIOUS
  <2>3. PICK c : c = Case("unknown-method-and-extensibility", v, AnyDriver, UnknownMethod(v))
    OBVIOUS
  <2>4. PICK d : d = Case("parse-error", v, {"stdio"}, ParseError)
    OBVIOUS
  <2>5. PICK e : e = Case("cancel-request-jsonrpc", v, AnyDriver, CancelCase(v))
    OBVIOUS
  <2>6. Good(a) /\ Good(b) /\ Good(c) /\ Good(d) /\ Good(e)
    BY <1>1, <2>1, <2>2, <2>3, <2>4, <2>5, PlainCommon, PlainParseError
  <2>7. CommonCases(v) = <<a, b, c, d, e>>
    BY <2>1, <2>2, <2>3, <2>4, <2>5, Zenon DEF CommonCases
  <2>8. AllGood(<<a, b, c, d, e>>)
    BY <1>4, <2>6
  <2> QED BY <2>7, <2>8
<1>6. \E q : AllGood(q) /\ q =
    <<Case("v1-session-load-replay", 1, AnyDriver, LoadReplay),
      Case("v1-full-turn-core", 1, AnyDriver, V1FullTurn),
      Case("v1-permission-rejection", 1, AnyDriver, V1Rejection),
      Case("v1-session-cancel", 1, AnyDriver, V1Cancel)>>
  <2>1. PICK a : a = Case("v1-session-load-replay", 1, AnyDriver, LoadReplay)
    OBVIOUS
  <2>2. PICK b : b = Case("v1-full-turn-core", 1, AnyDriver, V1FullTurn)
    OBVIOUS
  <2>3. PICK c : c = Case("v1-permission-rejection", 1, AnyDriver, V1Rejection)
    OBVIOUS
  <2>4. PICK d : d = Case("v1-session-cancel", 1, AnyDriver, V1Cancel)
    OBVIOUS
  <2>5. /\ V1FullTurn = Script("v1-full-turn") /\ V1Rejection = Script("v1-permission-reject")
        /\ V1Cancel = Script("v1-permission-cancel")
    BY DEF Script
  <2>6. {"v1-full-turn", "v1-permission-reject", "v1-permission-cancel"} \subseteq Scenarios
    BY DEF Scenarios
  <2>7. Good(a) /\ Good(b) /\ Good(c) /\ Good(d)
    BY <1>1, <2>1, <2>2, <2>3, <2>4, <2>5, <2>6, PlainLoadReplay
  <2>8. AllGood(<<a, b, c, d>>)
    BY <1>3, <2>7
  <2> QED BY <2>1, <2>2, <2>3, <2>4, <2>8
<1>7. \E q : AllGood(q) /\ q =
    <<Case("v2-session-list-and-resume", 2, AnyDriver, ListAndResume),
      Case("v2-full-turn-display-terminals", 2, AnyDriver, V2FullTurn),
      Case("v2-session-cancel", 2, AnyDriver, V2Cancel),
      Case("v2-session-load-absent", 2, AnyDriver, LoadAbsent)>>
  <2>1. PICK a : a = Case("v2-session-list-and-resume", 2, AnyDriver, ListAndResume)
    OBVIOUS
  <2>2. PICK b : b = Case("v2-full-turn-display-terminals", 2, AnyDriver, V2FullTurn)
    OBVIOUS
  <2>3. PICK c : c = Case("v2-session-cancel", 2, AnyDriver, V2Cancel)
    OBVIOUS
  <2>4. PICK d : d = Case("v2-session-load-absent", 2, AnyDriver, LoadAbsent)
    OBVIOUS
  <2>5. V2FullTurn = Script("v2-full-turn") /\ "v2-full-turn" \in Scenarios
    BY DEF Script, Scenarios
  <2>6. Good(a) /\ Good(b) /\ Good(c) /\ Good(d)
    BY <1>1, <2>1, <2>2, <2>3, <2>4, <2>5, PlainListAndResume, PlainV2Cancel, PlainLoadAbsent
  <2>7. AllGood(<<a, b, c, d>>)
    BY <1>3, <2>6
  <2> QED BY <2>1, <2>2, <2>3, <2>4, <2>7
<1> HIDE DEF AllGood
<1>8. PICK q : AllGood(q) /\ q =
    <<Case("v1-session-load-replay", 1, AnyDriver, LoadReplay),
      Case("v1-full-turn-core", 1, AnyDriver, V1FullTurn),
      Case("v1-permission-rejection", 1, AnyDriver, V1Rejection),
      Case("v1-session-cancel", 1, AnyDriver, V1Cancel)>>
  BY <1>6
<1>9. PICK r : AllGood(r) /\ r =
    <<Case("v2-session-list-and-resume", 2, AnyDriver, ListAndResume),
      Case("v2-full-turn-display-terminals", 2, AnyDriver, V2FullTurn),
      Case("v2-session-cancel", 2, AnyDriver, V2Cancel),
      Case("v2-session-load-absent", 2, AnyDriver, LoadAbsent)>>
  BY <1>7
<1>10. Suite = CommonCases(1) \o q \o CommonCases(2) \o r
  BY <1>8, <1>9, Zenon DEF Suite
<1>11. AllGood(CommonCases(1) \o q \o CommonCases(2) \o r)
  BY <1>2, <1>5, <1>8, <1>9
<1>12. AllGood(Suite)
  BY <1>10, <1>11
<1>13. Len(Suite) \in Nat
  BY <1>12, SeqLen DEF AllGood
<1> QED BY <1>12, <1>13 DEF AllGood, Good

-----------------------------------------------------------------------------
(* The script's next step in a turn.                                       *)

\* How far apart the expectations of a script are.
LEMMA Places ==
    ASSUME NEW s \in Scenarios, NEW x \in 0 .. N(s)
    PROVE  /\ N(s) \in 1 .. 11 /\ Place(s, x) \in 7 .. 100
           /\ Place(s, x + 1) =
                 Place(s, x) + IF x = 0 THEN 1 + 3 * Behind(s)
                               ELSE IF x \notin Questions(s) THEN 2
                               ELSE IF s = "v1-permission-cancel" THEN 4 ELSE 3
           /\ Questions(s) \subseteq 1 .. N(s) /\ N(s) \in Questions(s)
           /\ Behind(s) \in {0, 1} /\ (Behind(s) = 1 <=> s = "v2-full-turn")
<1>1. CASE s = "v1-full-turn"
  BY <1>1 DEF N, Place, Questions, Behind
<1>2. CASE s = "v1-permission-reject"
  BY <1>2 DEF N, Place, Questions, Behind
<1>3. CASE s = "v1-permission-cancel"
  BY <1>3 DEF N, Place, Questions, Behind
<1>4. CASE s = "v2-full-turn"
  BY <1>4 DEF N, Place, Questions, Behind
<1> QED BY <1>1, <1>2, <1>3, <1>4 DEF Scenarios

\* The expectations are in order.
LEMMA PlacesGrow ==
    ASSUME NEW s \in Scenarios, NEW x \in 0 .. N(s) + 1, NEW y \in 0 .. N(s) + 1, x < y
    PROVE  Place(s, x) < Place(s, y)
<1>1. CASE s = "v1-full-turn"
  BY <1>1 DEF N, Place
<1>2. CASE s = "v1-permission-reject"
  BY <1>2 DEF N, Place
<1>3. CASE s = "v1-permission-cancel"
  BY <1>3 DEF N, Place
<1>4. CASE s = "v2-full-turn"
  BY <1>4 DEF N, Place
<1> QED BY <1>1, <1>2, <1>3, <1>4 DEF Scenarios

\* Where the case is, there its next step is; the step done, it is one further.
LEMMA AtStep ==
    ASSUME NEW s \in Scenarios, AtCase(s), IsSeq(todo), Pos(s) <= Len(Script(s))
    PROVE  /\ Pos(s) \in 1 .. Len(Script(s))
           /\ todo # <<>> /\ Head(todo) = Script(s)[Pos(s)]
           /\ Advance => AtCase(s)' /\ Pos(s)' = Pos(s) + 1 /\ IsSeq(todo')
<1>1. IsSeq(Script(s)) /\ Len(Script(s)) \in Nat /\ Len(todo) \in Nat
  BY ShapeOf, SeqLen DEF ScriptShape
<1>2. PICK t : t = Script(s)
  OBVIOUS
<1>3. PICK p : p = Pos(s)
  OBVIOUS
<1>4. p \in 1 .. Len(t) /\ p = Len(t) - Len(todo) + 1 /\ todo = From(t, p)
  BY <1>1, <1>2, <1>3 DEF Pos, AtCase
<1>5. IsSeq(t) /\ p \in 1 .. Len(t) + 1 /\ p <= Len(t)
  BY <1>4, <1>1, <1>2
<1>6. /\ todo # <<>> /\ Head(todo) = t[p]
      /\ Tail(todo) = From(t, p + 1)
  <2>1. From(t, p) # <<>> /\ Head(From(t, p)) = t[p] /\ Tail(From(t, p)) = From(t, p + 1)
    BY ONLY <1>5, SeqFrom
  <2> QED BY <2>1, <1>4
<1>7. IsSeq(Tail(todo)) /\ Len(Tail(todo)) = Len(todo) - 1
  BY <1>6, SeqTail
<1>8. ASSUME Advance PROVE AtCase(s)' /\ Pos(s)' = Pos(s) + 1 /\ IsSeq(todo')
  <2>1. todo' = From(t, p + 1) /\ Len(todo') = Len(todo) - 1 /\ IsSeq(todo')
    BY <1>6, <1>7, <1>8 DEF Advance
  <2>2. Pos(s)' = p + 1
    BY <2>1, <1>1, <1>2, <1>4 DEF Pos
  <2>3. AtCase(s)'
    BY <2>1, <2>2, <1>2, <1>4 DEF AtCase
  <2> QED BY <2>1, <2>2, <2>3, <1>3
<1> QED BY <1>2, <1>3, <1>4, <1>6, <1>8

\* What the case does next, once it has prompted: it gets what it expected last,
Gets(s)    == /\ Len(calls) > 0 /\ Pos(s) = Place(s, Len(calls)) + 1 /\ Head(todo).op = "got"
              /\ Len(calls) <= N(s) => Events(s)[Len(calls)] \in Head(todo).what
\* expects the next event,
ExpectsNext(s) ==
              /\ Len(calls) <= N(s) /\ Pos(s) = Place(s, Len(calls) + 1)
              /\ s = "v1-permission-cancel" => Len(calls) < N(s)
              /\ IsExpect(Head(todo), Head(todo).what)
              /\ Len(calls) < N(s) => Events(s)[Len(calls) + 1] \in Head(todo).what
\* answers the question it got,
Answers(s) == /\ Len(calls) \in Questions(s) /\ Pos(s) = Place(s, Len(calls) + 1) - 1
              /\ Head(todo).op = "answer"
              /\ (s = "v1-full-turn" /\ Len(calls) = 3) \/ (s = "v2-full-turn" /\ Len(calls) = 4)
                    => Head(todo).arg = "allow"
\* cancels the turn, or awaits its end,
Cancels(s) == /\ s = "v1-permission-cancel" /\ Len(calls) = N(s)
              /\ \/ /\ Pos(s) = Place(s, N(s) + 1) - 2
                    /\ Head(todo).op = "notify" /\ Head(todo).what = "session/cancel"
                 \/ Pos(s) = Place(s, N(s) + 1) /\ IsAwait(Head(todo), "cancelled")
\* or awaits the answer to the prompt of v2, and looks what came before it.
Accepted(s) == /\ s = "v2-full-turn" /\ Len(calls) = 0
               /\ \/ Pos(s) = 9 /\ Head(todo).op = "written"
                  \/ Pos(s) = 10 /\ IsAwait(Head(todo), "ok")
                  \/ Pos(s) = 11 /\ Head(todo).op = "check" /\ Head(todo).what = "response_first"

\* The next step of a case that has prompted is one of these.
LEMMA ScriptNow ==
    ASSUME NEW s \in Scenarios, ScriptGoes(s), IsSeq(todo)
    PROVE  /\ Pos(s) \in 1 .. Len(Script(s)) /\ todo # <<>>
           /\ Head(todo) = Script(s)[Pos(s)] /\ Head(todo).op \in LaterOps
           /\ Gets(s) \/ ExpectsNext(s) \/ Answers(s) \/ Cancels(s) \/ Accepted(s)
<1>1. PICK x : x = Len(calls)
  OBVIOUS
<1>2. PICK p : p = Pos(s)
  OBVIOUS
<1>3. PICK t : t = Script(s)
  OBVIOUS
<1>4. ScriptShape(s, t)
  BY <1>3, ShapeOf
<1>5. /\ x \in 0 .. N(s) + 1 /\ (s = "v1-permission-cancel" => x <= N(s))
      /\ p \in Place(s, x) + 1 .. IF x > N(s) THEN Place(s, x) + 1 ELSE Place(s, x + 1)
      /\ AtCase(s)
  BY <1>1, <1>2 DEF ScriptGoes
<1>6. N(s) \in 1 .. 11 /\ N(s) \in 0 .. N(s)
  BY Places DEF Scenarios, N
<1>7. Len(t) \in Nat /\ Len(t) >= Place(s, N(s) + 1) + IF s = "v1-permission-cancel" THEN 0 ELSE 1
  BY <1>4 DEF ScriptShape
<1>8. \A y \in 0 .. N(s) : Place(s, y) < Place(s, N(s) + 1)
  BY <1>6, PlacesGrow
<1>9. \A y \in 0 .. N(s) + 1 : Place(s, y) \in Nat
  BY DEF Place
<1>10. ASSUME x <= N(s)
       PROVE  x + 1 \in 1 .. N(s) + 1 /\ Place(s, x + 1) <= Place(s, N(s) + 1)
  <2>1. x + 1 \in 1 .. N(s) + 1 /\ (x + 1 = N(s) + 1 \/ x + 1 \in 0 .. N(s))
    BY <1>5, <1>6, <1>10
  <2>2. Place(s, N(s) + 1) \in Nat /\ Place(s, x + 1) \in Nat
    BY <2>1, <1>6, <1>9
  <2>3. CASE x + 1 = N(s) + 1
    <3>1. Place(s, x + 1) = Place(s, N(s) + 1)
      BY <2>3
    <3> QED BY <2>1, <2>2, <3>1
  <2>4. CASE x + 1 \in 0 .. N(s)
    BY <2>1, <2>2, <2>4, <1>8
  <2> QED BY <2>1, <2>3, <2>4
<1>11. p <= Len(t)
  <2>1. Place(s, N(s) + 1) \in Nat
    BY <1>6, <1>9
  <2>2. PICK e : e = Place(s, N(s) + 1)
    OBVIOUS
  <2>3. CASE x > N(s)
    <3>1. x = N(s) + 1 /\ s # "v1-permission-cancel"
      BY <2>3, <1>5, <1>6
    <3>2. p = e + 1
      BY <3>1, <1>5, <1>6, <2>1, <2>2
    <3> QED BY <3>1, <3>2, <2>1, <2>2, <1>7
  <2>4. CASE ~(x > N(s))
    <3>1. x <= N(s) /\ x \in 0 .. N(s) + 1
      BY <2>4, <1>5, <1>6
    <3>2. Place(s, x + 1) <= e /\ Place(s, x + 1) \in Nat /\ Place(s, x) \in Nat
      BY <3>1, <1>6, <1>9, <1>10, <2>2
    <3>3. p \in Place(s, x) + 1 .. Place(s, x + 1)
      BY <2>4, <1>5
    <3>4. e \in Nat /\ Len(t) >= e
      BY <1>7, <2>1, <2>2
    <3>5. Len(t) \in Nat
      BY <1>7
    <3>6. PICK a, b : a = Place(s, x) /\ b = Place(s, x + 1)
      OBVIOUS
    <3>7. a \in Nat /\ b \in Nat /\ b <= e /\ p \in a + 1 .. b
      BY ONLY <3>2, <3>3, <3>6
    <3> QED BY ONLY <3>4, <3>5, <3>7
  <2> QED BY <2>3, <2>4
<1>12. /\ p \in 1 .. Len(t) /\ todo # <<>> /\ Head(todo) = t[p]
  BY <1>2, <1>3, <1>5, <1>11, AtStep
<1>13. Place(s, 0) \in Nat /\ p \in Place(s, 0) + 1 .. Len(t)
  <2>1. x = 0 \/ Place(s, 0) < Place(s, x)
    BY <1>5, <1>6, PlacesGrow
  <2>2. 0 \in 0 .. N(s) + 1 /\ Place(s, 0) \in Nat /\ Place(s, x) \in Nat
    BY <1>5, <1>6, <1>9
  <2>3. p > Place(s, x)
    <3>1. CASE x > N(s)
      BY <3>1, <1>5, <2>2
    <3>2. CASE ~(x > N(s))
      <4>1. p \in Place(s, x) + 1 .. Place(s, x + 1)
        BY <3>2, <1>5
      <4> QED BY ONLY <4>1, <2>2
    <3> QED BY <3>1, <3>2
  <2>4. PICK a, b : a = Place(s, 0) /\ b = Place(s, x)
    OBVIOUS
  <2>5. a \in Nat /\ b \in Nat /\ a <= b /\ p > b
    BY ONLY <2>1, <2>2, <2>3, <2>4
  <2>6. Len(t) \in Nat /\ p \in 1 .. Len(t)
    BY <1>7, <1>12
  <2> QED BY ONLY <2>4, <2>5, <2>6
<1>14. t[p].op \in LaterOps
  BY <1>4, <1>13 DEF ScriptShape
<1>15. PICK h : h = Head(todo)
  OBVIOUS
<1>16. h = t[p]
  BY <1>12, <1>15
<1>17. CASE x = N(s) + 1
  <2>1. p = Place(s, N(s) + 1) + 1 /\ s # "v1-permission-cancel" /\ x > 0
    BY <1>17, <1>5, <1>6, <1>9
  <2>2. h.op = "got"
    BY <1>4, <1>16, <2>1 DEF ScriptShape, IsGot
  <2>3. Gets(s)
    BY <1>1, <1>2, <1>6, <1>15, <1>17, <2>1, <2>2 DEF Gets
  <2> QED BY <2>3, <1>2, <1>3, <1>12, <1>14
<1>18. CASE x = 0 /\ s = "v2-full-turn"
  <2>1. p \in {9, 10, 11, 12} /\ Place(s, 1) = 12
    BY <1>18, <1>5 DEF Place, N
  <2>2. CASE p = 12
    <3>1. (\E kinds : IsExpect(t[12], kinds) /\ Events(s)[1] \in kinds)
      BY <1>4, <1>6, <2>1 DEF ScriptShape
    <3>2. IsExpect(h, h.what) /\ Events(s)[1] \in h.what
      BY <3>1, <1>16, <2>2 DEF IsExpect
    <3>3. ExpectsNext(s)
      BY <1>1, <1>2, <1>6, <1>15, <1>18, <2>1, <2>2, <3>2 DEF ExpectsNext
    <3> QED BY <3>3, <1>2, <1>3, <1>12, <1>14
  <2>3. CASE p \in {9, 10, 11}
    <3>1. Accepted(s)
      BY <1>1, <1>2, <1>4, <1>15, <1>16, <1>18, <2>3 DEF Accepted, ScriptShape
    <3> QED BY <3>1, <1>2, <1>3, <1>12, <1>14
  <2> QED BY <2>1, <2>2, <2>3
<1>19. CASE x \in 0 .. N(s) /\ ~(x = 0 /\ s = "v2-full-turn")
  <2>1. /\ Place(s, x) \in 7 .. 100
        /\ Place(s, x + 1) =
                 Place(s, x) + IF x = 0 THEN 1 + 3 * Behind(s)
                               ELSE IF x \notin Questions(s) THEN 2
                               ELSE IF s = "v1-permission-cancel" THEN 4 ELSE 3
        /\ Questions(s) \subseteq 1 .. N(s) /\ N(s) \in Questions(s)
        /\ x = 0 => Behind(s) = 0
    BY <1>19, Places
  <2>2. p \in Place(s, x) + 1 .. Place(s, x + 1)
    BY <1>5, <1>6, <1>19
  <2>3. CASE x > 0 /\ p = Place(s, x) + 1
    <3>1. (\E kinds : IsGot(t[Place(s, x) + 1], kinds) /\ Events(s)[x] \in kinds)
      BY <1>4, <1>19, <2>3 DEF ScriptShape
    <3>2. h.op = "got" /\ Events(s)[x] \in h.what
      BY <3>1, <1>16, <2>3 DEF IsGot
    <3>3. Gets(s)
      BY <1>1, <1>2, <1>15, <2>3, <3>2 DEF Gets
    <3> QED BY <3>3, <1>2, <1>3, <1>12, <1>14
  <2>4. CASE p = Place(s, x + 1) /\ ~(s = "v1-permission-cancel" /\ x = N(s))
    <3>1. \E kinds : IsExpect(t[Place(s, x + 1)], kinds) /\ (x < N(s) => Events(s)[x + 1] \in kinds)
      <4>1. CASE x < N(s)
        <5>1. x + 1 \in 1 .. N(s)
          BY <4>1, <1>6, <1>19
        <5> QED BY <5>1, <1>4 DEF ScriptShape
      <4>2. CASE x = N(s)
        BY <4>2, <1>4, <1>6, <2>4 DEF ScriptShape
      <4> QED BY <4>1, <4>2, <1>6, <1>19
    <3>2. IsExpect(h, h.what) /\ (x < N(s) => Events(s)[x + 1] \in h.what)
      BY <3>1, <1>16, <2>4 DEF IsExpect
    <3>3. ExpectsNext(s)
      BY <1>1, <1>2, <1>6, <1>15, <1>19, <2>4, <3>2 DEF ExpectsNext
    <3> QED BY <3>3, <1>2, <1>3, <1>12, <1>14
  <2>5. CASE x \in Questions(s) /\ p = Place(s, x + 1) - 1
    <3>1. h.op = "answer"
      BY <1>4, <1>16, <2>5 DEF ScriptShape
    <3>2. /\ s = "v1-full-turn" /\ x = 3 => h.arg = "allow"
          /\ s = "v2-full-turn" /\ x = 4 => h.arg = "allow"
      <4>1. /\ s = "v1-full-turn" /\ x = 3 => p = 14
            /\ s = "v2-full-turn" /\ x = 4 => p = 20
        BY <2>5 DEF Place
      <4> QED BY <4>1, <1>4, <1>16 DEF ScriptShape
    <3>3. Answers(s)
      BY <1>1, <1>2, <1>15, <2>5, <3>1, <3>2 DEF Answers
    <3> QED BY <3>3, <1>2, <1>3, <1>12, <1>14
  <2>6. CASE s = "v1-permission-cancel" /\ x = N(s) /\ p \in {Place(s, x + 1), Place(s, x + 1) - 2}
    <3>1. N(s) = 3 /\ Place(s, 4) = 16
      BY <2>6 DEF N, Place
    <3>2. \/ p = 14 /\ h.op = "notify" /\ h.what = "session/cancel"
          \/ p = 16 /\ IsAwait(h, "cancelled")
      BY <1>4, <1>16, <2>6, <3>1 DEF ScriptShape
    <3>3. Cancels(s)
      BY <1>1, <1>2, <1>15, <2>6, <3>1, <3>2 DEF Cancels
    <3> QED BY <3>3, <1>2, <1>3, <1>12, <1>14
  <2>7. PICK a, b : a = Place(s, x) /\ b = Place(s, x + 1)
    OBVIOUS
  <2>8. a \in Nat /\ p \in a + 1 .. b
    BY ONLY <2>1, <2>2, <2>7
  <2>9. CASE x = 0
    <3>1. b = a + 1 /\ x # N(s)
      BY <2>1, <2>7, <2>9, <1>6
    <3> QED BY <2>4, <2>7, <2>8, <2>9, <3>1
  <2>10. CASE x # 0 /\ x \notin Questions(s)
    <3>1. b = a + 2 /\ x # N(s) /\ x > 0
      BY ONLY <2>1, <2>7, <2>10, <1>19, <1>6
    <3>2. p = a + 1 \/ p = b
      BY ONLY <2>8, <3>1
    <3> QED BY <2>3, <2>4, <2>7, <3>1, <3>2
  <2>11. CASE x # 0 /\ x \in Questions(s) /\ s # "v1-permission-cancel"
    <3>1. b = a + 3 /\ x > 0
      BY ONLY <2>1, <2>7, <2>11, <1>19, <1>6
    <3>2. p = a + 1 \/ p = b \/ p = b - 1
      BY ONLY <2>8, <3>1
    <3> QED BY <2>3, <2>4, <2>5, <2>7, <2>11, <3>1, <3>2
  <2>12. CASE x # 0 /\ x \in Questions(s) /\ s = "v1-permission-cancel"
    <3>1. b = a + 4 /\ x > 0
      BY ONLY <2>1, <2>7, <2>12, <1>19, <1>6
    <3>2. p = a + 1 \/ p = b \/ p = b - 1 \/ p = b - 2
      BY ONLY <2>8, <3>1
    <3>3. x = N(s)
      BY <2>12 DEF Questions, N
    <3> QED BY <2>3, <2>5, <2>6, <2>7, <2>12, <3>1, <3>2, <3>3
  <2> QED BY <2>9, <2>10, <2>11, <2>12
<1> QED BY <1>5, <1>6, <1>17, <1>18, <1>19

-----------------------------------------------------------------------------
(* The boxes of the harness.                                               *)

\* Where nothing is, nothing is found; what stands first is found first.
LEMMA LeastIsOne ==
    ASSUME NEW I, I \subseteq Nat \ {0}, 1 \in I
    PROVE  H!Min(I) = 1
<1>1. \A x \in I : (1 \in I /\ \A y \in I : 1 <= y)
  OBVIOUS
<1>2. \A x \in I : (\A y \in I : x <= y) => x = 1
  OBVIOUS
<1>3. H!Min(I) \in I /\ \A y \in I : H!Min(I) <= y
  BY <1>1 DEF H!Min
<1> QED BY <1>2, <1>3

\* The first item of a queue, or the only waiter, is found if it fits.
LEMMA FoundFirst ==
    /\ \A b, accepts : queued[b] = <<>> => H!FirstItem(b, accepts) = 0
    /\ \A b, accepts : Len(queued[b]) \in Nat \ {0} /\ queued[b][1].kind \in accepts
                             => H!FirstItem(b, accepts) = 1
    /\ \A b, kind : waiters[b] = <<>> => H!FirstWaiter(b, kind) = 0
    /\ \A b, kind, c : waiters[b] = <<c>> /\ kind \in calls[c].accepts
                             => H!FirstWaiter(b, kind) = 1
<1>1. ASSUME NEW b, NEW accepts, queued[b] = <<>>
      PROVE  H!FirstItem(b, accepts) = 0
  <2>1. {i \in 1 .. Len(queued[b]) : queued[b][i].kind \in accepts} = {}
    BY <1>1
  <2> QED BY <2>1 DEF H!FirstItem, H!SelectInSeq
<1>2. ASSUME NEW b, NEW accepts, Len(queued[b]) \in Nat \ {0}, queued[b][1].kind \in accepts
      PROVE  H!FirstItem(b, accepts) = 1
  <2>1. PICK I : I = {i \in 1 .. Len(queued[b]) : queued[b][i].kind \in accepts}
    OBVIOUS
  <2>2. I \subseteq Nat \ {0} /\ 1 \in I
    BY <1>2, <2>1
  <2>3. I # {} /\ H!Min(I) = 1
    BY <2>2, LeastIsOne
  <2> QED BY <2>1, <2>3 DEF H!FirstItem, H!SelectInSeq
<1>3. ASSUME NEW b, NEW kind, waiters[b] = <<>>
      PROVE  H!FirstWaiter(b, kind) = 0
  <2>1. {i \in 1 .. Len(waiters[b]) : kind \in calls[waiters[b][i]].accepts} = {}
    BY <1>3
  <2> QED BY <2>1 DEF H!FirstWaiter, H!SelectInSeq
<1>4. ASSUME NEW b, NEW kind, NEW c, waiters[b] = <<c>>, kind \in calls[c].accepts
      PROVE  H!FirstWaiter(b, kind) = 1
  <2>1. PICK I : I = {i \in 1 .. Len(waiters[b]) : kind \in calls[waiters[b][i]].accepts}
    OBVIOUS
  <2>2. I \subseteq Nat \ {0} /\ 1 \in I
    BY <1>4, <2>1
  <2>3. I # {} /\ H!Min(I) = 1
    BY <2>2, LeastIsOne
  <2> QED BY <2>1, <2>3 DEF H!FirstWaiter, H!SelectInSeq
<1>5. /\ \A b, accepts : queued[b] = <<>> => H!FirstItem(b, accepts) = 0
      /\ \A b, accepts : Len(queued[b]) \in Nat \ {0} /\ queued[b][1].kind \in accepts
                               => H!FirstItem(b, accepts) = 1
  BY ONLY <1>1, <1>2
<1> QED BY ONLY <1>3, <1>4, <1>5

\* Removing the first entry leaves the tail.
LEMMA RemoveHead ==
    ASSUME NEW q, IsSeq(q), q # <<>>
    PROVE  RemoveAt(q, 1) = Tail(q)
<1>1. Len(q) \in Nat \ {0}
  BY SeqLen
<1>2. SubSeq(q, 1, 1 - 1) = <<>>
  BY <1>1
<1>3. IsSeq(Tail(q)) /\ From(q, 1 + 1) = Tail(q)
  <2>1. IsSeq(q) /\ 1 \in 1 .. Len(q) + 1 /\ 1 <= Len(q)
    BY <1>1
  <2>2. Tail(From(q, 1)) = From(q, 1 + 1) /\ IsSeq(From(q, 1)) /\ Len(From(q, 1)) = Len(q) - 1 + 1
        /\ \A i \in 1 .. Len(q) - 1 + 1 : From(q, 1)[i] = q[1 + i - 1]
    BY ONLY <2>1, SeqFrom
  <2>3. From(q, 1) = q
    BY <1>1, <2>2, SameSeq
  <2> QED BY <2>2, <2>3, SeqTail
<1>4. RemoveAt(q, 1) = SubSeq(q, 1, 1 - 1) \o SubSeq(q, 1 + 1, Len(q))
  BY DEF RemoveAt
<1>5. IsSeq(<<>>) /\ Len(<<>>) = 0
  BY ShortParts
<1>6. PICK r : r = Tail(q)
  OBVIOUS
<1>7. <<>> \o r = r
  <2>1. IsSeq(<<>>) /\ IsSeq(r)
    BY <1>3, <1>5, <1>6
  <2>2. /\ IsSeq(<<>> \o r) /\ Len(<<>> \o r) = Len(<<>>) + Len(r)
        /\ \A i \in 1 .. Len(r) : (<<>> \o r)[Len(<<>>) + i] = r[i]
    BY ONLY <2>1, SeqConcat
  <2>3. Len(r) \in Nat
    BY <2>1, SeqLen
  <2>4. Len(<<>> \o r) = Len(r) /\ \A i \in 1 .. Len(r) : (<<>> \o r)[i] = r[i]
    BY <1>5, <2>2, <2>3
  <2> QED BY ONLY <2>1, <2>2, <2>4, SameSeq
<1> QED BY <1>2, <1>3, <1>4, <1>6, <1>7 DEF From

-----------------------------------------------------------------------------
(* The harness goes on in a turn.                                          *)

\* The sizes a case that has prompted speaks of are numbers.
LEMMA GoesFacts ==
    ASSUME NEW s \in Scenarios, NEW base, HarnessGoes(s, base)
    PROVE  /\ IsSeq(log) /\ IsSeq(toHarness) /\ IsSeq(calls)
           /\ Len(log) \in Nat /\ Len(toHarness) \in Nat /\ Len(calls) \in Nat
           /\ base \in Nat /\ ReadOf(base) \in Nat /\ Total \in Nat
           /\ Behind(s) \in {0, 1} /\ N(s) \in 1 .. 11
           /\ Len(calls) \in 0 .. N(s) + 1
           /\ \A y \in 0 .. N(s) + 1 : Place(s, y) \in Nat
           /\ Pos(s) \in Nat
<1>1. HarnessShapes /\ base \in Nat /\ Len(calls) \in 0 .. N(s) + 1
  BY DEF HarnessGoes, ReplyGoes, ScriptGoes
<1>2. IsSeq(log) /\ IsSeq(toHarness) /\ IsSeq(calls)
  BY <1>1 DEF HarnessShapes
<1>3. Len(log) \in Nat /\ Len(toHarness) \in Nat /\ Len(calls) \in Nat
  BY <1>2, SeqLen
<1>4. ReadOf(base) \in Nat /\ Total \in Nat
  BY <1>1, <1>3 DEF ReadOf, Total
<1>5. Behind(s) \in {0, 1} /\ N(s) \in 1 .. 11
  BY DEF Behind, N, Scenarios
<1>6. \A y \in 0 .. N(s) + 1 : Place(s, y) \in Nat
  BY <1>5 DEF Place
<1>7. Pos(s) \in Nat
  <2>1. PICK x : x = Len(calls)
    OBVIOUS
  <2>2. PICK a, b : a = Place(s, x) /\ b = Place(s, x + 1)
    OBVIOUS
  <2>3. x \in 0 .. N(s) + 1 /\ Pos(s) \in a + 1 .. IF x > N(s) THEN a + 1 ELSE b
    BY <2>1, <2>2 DEF HarnessGoes, ScriptGoes
  <2>4. a \in Nat /\ (x <= N(s) => b \in Nat)
    BY <2>2, <2>3, <1>5, <1>6
  <2> QED BY ONLY <2>3, <2>4, <1>5
<1> QED BY <1>1, <1>2, <1>3, <1>4, <1>5, <1>6, <1>7

\* What the harness has read of the turn.
LEMMA ReadSoFar ==
    ASSUME NEW s \in Scenarios, NEW base, HarnessGoes(s, base), Total - base <= N(s)
    PROVE  /\ ReadOf(base) <= N(s)
           /\ \A x \in 1 .. ReadOf(base) :
                 base + x \in 1 .. Len(log) /\ log[base + x] = Message(s, x)
           /\ Pos(s) # Place(s, Len(calls)) + 1 => ReadOf(base) >= Len(calls)
           /\ Len(calls) = 0 => ReadOf(base) >= Len(calls)
<1>1. /\ Len(log) \in Nat /\ Len(toHarness) \in Nat /\ base \in Nat
      /\ Len(calls) \in Nat /\ ReadOf(base) \in Nat /\ N(s) \in Nat
  <2>1. s \in Scenarios /\ HarnessGoes(s, base)
    OBVIOUS
  <2>2. /\ Len(log) \in Nat /\ Len(toHarness) \in Nat /\ base \in Nat
        /\ Len(calls) \in Nat /\ ReadOf(base) \in Nat /\ N(s) \in 1 .. 11
    BY ONLY <2>1, GoesFacts
  <2> QED BY <2>2
<1>2. ReadOf(base) <= N(s)
  BY <1>1 DEF ReadOf, Total
<1>3. ASSUME NEW x \in 1 .. ReadOf(base)
      PROVE  base + x \in 1 .. Len(log) /\ log[base + x] = Message(s, x)
  <2>1. base + x \in 1 .. Len(log) /\ base + x > base /\ (base + x) - base = x
    BY <1>1 DEF ReadOf
  <2>2. base + x \in 1 .. Total /\ L(base + x) = log[base + x]
    BY <1>1, <2>1 DEF Total, L
  <2>3. L(base + x) = Message(s, (base + x) - base)
    BY <2>1, <2>2 DEF HarnessGoes, WireGoes
  <2> QED BY <2>1, <2>2, <2>3
<1>4. Pos(s) # Place(s, Len(calls)) + 1 => ReadOf(base) >= Len(calls)
  BY <1>1 DEF HarnessGoes, BoxGoes
<1>5. Len(calls) = 0 => ReadOf(base) >= Len(calls)
  BY <1>1
<1> QED BY <1>2, <1>3, <1>4, <1>5

\* The case goes one step further, and nothing else of the harness changes.
LEMMA StepsOn ==
    ASSUME NEW s \in Scenarios, NEW base, HarnessGoes(s, base), IsSeq(todo),
           Advance, UNCHANGED <<harnessVars, log, toHarness, mark>>,
           Len(calls) <= N(s), Pos(s) + 1 <= Place(s, Len(calls) + 1),
           ReadOf(base) >= Len(calls),
           s = "v2-full-turn" /\ Len(log) < base => Pos(s) < 10
    PROVE  HarnessGoes(s, base)' /\ Pos(s)' = Pos(s) + 1 /\ IsSeq(todo')
<1>1. HarnessShapes /\ ScriptGoes(s) /\ BoxGoes(s, base) /\ ReplyGoes(s, base) /\ WireGoes(s, base)
  BY DEF HarnessGoes
<1>2. /\ Len(log) \in Nat /\ Len(toHarness) \in Nat /\ base \in Nat
      /\ Len(calls) \in Nat /\ ReadOf(base) \in Nat /\ N(s) \in Nat /\ Pos(s) \in Nat
  <2>1. s \in Scenarios /\ HarnessGoes(s, base)
    OBVIOUS
  <2>2. /\ Len(log) \in Nat /\ Len(toHarness) \in Nat /\ base \in Nat
        /\ Len(calls) \in Nat /\ ReadOf(base) \in Nat /\ N(s) \in 1 .. 11 /\ Pos(s) \in Nat
    BY ONLY <2>1, GoesFacts
  <2> QED BY ONLY <2>2
<1>3. AtCase(s)' /\ Pos(s)' = Pos(s) + 1 /\ IsSeq(todo')
  <2>1. Pos(s) \in 1 .. Len(Script(s))
    BY <1>1, ScriptNow
  <2>2. AtCase(s) /\ Pos(s) <= Len(Script(s))
    BY <1>1, <2>1 DEF ScriptGoes
  <2> QED BY <2>2, AtStep
<1>4. HarnessShapes'
  BY <1>1 DEF HarnessShapes, harnessVars
<1>5. ScriptGoes(s)'
  <2>1. PICK x : x = Len(calls)
    OBVIOUS
  <2>2. PICK a, b : a = Place(s, x) /\ b = Place(s, x + 1)
    OBVIOUS
  <2>3. x \in 0 .. N(s) + 1 /\ Pos(s) \in a + 1 .. b /\ (s = "v1-permission-cancel" => x <= N(s))
    BY <1>1, <1>2, <2>1, <2>2 DEF ScriptGoes
  <2>4. a \in Nat /\ b \in Nat /\ x <= N(s) /\ Pos(s) + 1 <= b
    <3>1. x \in 0 .. N(s) + 1 /\ x + 1 \in 0 .. N(s) + 1
      BY <1>2, <2>1
    <3> QED BY <3>1, <2>1, <2>2, GoesFacts
  <2>5. Pos(s)' \in a + 1 .. b
    BY ONLY <2>3, <2>4, <1>2, <1>3
  <2>6. Len(calls)' = x
    BY <2>1 DEF harnessVars
  <2> QED BY <1>2, <1>3, <2>1, <2>2, <2>3, <2>4, <2>5, <2>6 DEF ScriptGoes
<1>6. BoxGoes(s, base)'
  BY <1>1, <1>2 DEF BoxGoes, ReadOf, harnessVars
<1>7. ReplyGoes(s, base)'
  BY <1>1, <1>2, <1>3 DEF ReplyGoes, Latest, harnessVars
<1>8. WireGoes(s, base)'
  BY <1>1, <1>2 DEF WireGoes, L, Total, Latest, harnessVars
<1> QED BY <1>3, <1>4, <1>5, <1>6, <1>7, <1>8 DEF HarnessGoes

\* A step that is no answer answers no question.
LEMMA AnsweredStays ==
    ASSUME NEW s \in Scenarios, NEW j \in Questions(s),
           Pos(s) \in Nat, Pos(s)' = Pos(s) + 1, Script(s)[Pos(s)].op # "answer"
    PROVE  HasAnswered(s, j)' = HasAnswered(s, j)
<1>1. Script(s)[Place(s, j + 1) - 1].op = "answer"
  BY ShapeOf DEF ScriptShape
<1>2. Place(s, j + 1) \in Nat
  BY DEF Place, Questions, Scenarios
<1>3. PICK e, p : e = Place(s, j + 1) /\ p = Pos(s)
  OBVIOUS
<1>4. p # e - 1
  BY <1>1, <1>3
<1>5. HasAnswered(s, j) = (p >= e) /\ HasAnswered(s, j)' = (p + 1 >= e)
  BY <1>3 DEF HasAnswered
<1> QED BY <1>2, <1>3, <1>4, <1>5

\* What the case awaited came, and it goes on.
LEMMA GoesOn ==
    ASSUME NEW s \in Scenarios, NEW base, HarnessGoes(s, base), Total - base <= N(s),
           IsSeq(todo), CaseGoesOn
    PROVE  /\ HarnessGoes(s, base)' /\ Pos(s)' = Pos(s) + 1 /\ IsSeq(todo')
           /\ Script(s)[Pos(s)].op # "answer"
<1>1. /\ Head(todo).op \in {"written", "await", "got", "check"} /\ ~Waits
      /\ Advance /\ UNCHANGED <<harnessVars, log, toHarness, mark>>
  BY DEF CaseGoesOn, Awaits, Now, wireVars
<1>2. ScriptGoes(s) /\ BoxGoes(s, base) /\ ReplyGoes(s, base)
  BY DEF HarnessGoes
<1>3. /\ Len(log) \in Nat /\ base \in Nat /\ Len(calls) \in Nat /\ ReadOf(base) \in Nat
      /\ N(s) \in 1 .. 11 /\ Pos(s) \in Nat /\ Len(calls) \in 0 .. N(s) + 1
  <2>1. s \in Scenarios /\ HarnessGoes(s, base)
    OBVIOUS
  <2> QED BY ONLY <2>1, GoesFacts
<1>4. Head(todo) = Script(s)[Pos(s)]
  BY <1>2, ScriptNow
<1>5. ReadOf(base) <= N(s)
  BY ReadSoFar
<1>6. Gets(s) \/ ExpectsNext(s) \/ Answers(s) \/ Cancels(s) \/ Accepted(s)
  BY <1>2, ScriptNow
<1>7. PICK x : x = Len(calls)
  OBVIOUS
<1>8. CASE Gets(s)
  <2>1. Head(todo).op = "got" /\ x > 0 /\ Pos(s) = Place(s, x) + 1
    BY <1>7, <1>8 DEF Gets
  <2>2. calls[x].state # "waiting"
    BY <1>1, <1>7, <2>1 DEF Waits, LastCall
  <2>3. ReadOf(base) >= x
    BY <1>2, <1>7, <2>2 DEF BoxGoes
  <2>4. x \in 1 .. N(s)
    BY <1>3, <1>5, <1>7, <2>1, <2>3
  <2>5. Place(s, x) \in Nat /\ Place(s, x) + 2 <= Place(s, x + 1)
    <3>1. x \in 0 .. N(s) /\ x # 0
      BY <2>4, <1>3
    <3>2. /\ Place(s, x) \in 7 .. 100
          /\ Place(s, x + 1) =
                 Place(s, x) + IF x = 0 THEN 1 + 3 * Behind(s)
                               ELSE IF x \notin Questions(s) THEN 2
                               ELSE IF s = "v1-permission-cancel" THEN 4 ELSE 3
      BY <3>1, Places
    <3>3. PICK a : a = Place(s, x)
      OBVIOUS
    <3>4. a \in Nat /\ (Place(s, x + 1) = a + 2 \/ Place(s, x + 1) = a + 3 \/ Place(s, x + 1) = a + 4)
      BY ONLY <3>1, <3>2, <3>3
    <3> QED BY ONLY <3>3, <3>4
  <2>6. Pos(s) + 1 <= Place(s, x + 1)
    BY <2>1, <2>5
  <2>7. ~(Len(log) < base)
    BY <1>3, <2>3, <2>4 DEF ReadOf
  <2>8. HarnessGoes(s, base)' /\ Pos(s)' = Pos(s) + 1 /\ IsSeq(todo')
    BY <1>1, <1>3, <1>7, <2>3, <2>4, <2>6, <2>7, StepsOn
  <2> QED BY <2>8, <1>4, <2>1
<1>9. CASE Cancels(s)
  <2>1. s = "v1-permission-cancel" /\ Head(todo).op = "await"
    BY <1>1, <1>9 DEF Cancels, IsAwait
  <2>2. Waits
    BY <1>2, <2>1 DEF Waits, ReplyGoes
  <2> QED BY <1>1, <2>2
<1>10. CASE Accepted(s)
  <2>1. s = "v2-full-turn" /\ Len(calls) = 0 /\ Pos(s) \in {9, 10, 11}
    BY <1>10 DEF Accepted
  <2>2. Pos(s) + 1 <= Place(s, Len(calls) + 1)
    BY <2>1 DEF Place
  <2>3. ReadOf(base) >= Len(calls) /\ Len(calls) <= N(s)
    BY <1>3, <2>1
  <2>4. ASSUME Len(log) < base PROVE Pos(s) < 10
    <3>1. response[Latest] = "waiting" /\ Pos(s) <= 10
      BY <1>2, <2>1, <2>4 DEF ReplyGoes
    <3>2. Pos(s) = 10 => Head(todo).op = "await"
      BY <1>10 DEF Accepted, IsAwait
    <3>3. Pos(s) # 10
      BY <1>1, <3>1, <3>2 DEF Waits
    <3> QED BY <2>1, <3>1, <3>3
  <2>5. HarnessGoes(s, base)' /\ Pos(s)' = Pos(s) + 1 /\ IsSeq(todo')
    BY <1>1, <2>2, <2>3, <2>4, StepsOn
  <2> QED BY <2>5, <1>1, <1>4
<1>11. ~(ExpectsNext(s) \/ Answers(s))
  <2>1. ExpectsNext(s) => Head(todo).op = "expect"
    BY Zenon DEF ExpectsNext, IsExpect
  <2>2. Answers(s) => Head(todo).op = "answer"
    BY Zenon DEF Answers
  <2> QED BY ONLY <1>1, <2>1, <2>2
<1> QED BY <1>6, <1>8, <1>9, <1>10, <1>11

\* An answer or a cancel is sent.
LEMMA Tells ==
    ASSUME NEW s \in Scenarios, NEW base, HarnessGoes(s, base), Total - base <= N(s),
           IsSeq(todo), CaseTells
    PROVE  /\ HarnessGoes(s, base)' /\ Pos(s)' = Pos(s) + 1 /\ IsSeq(todo')
           /\ Answers(s) \/ (Cancels(s) /\ Head(todo).op = "notify")
           /\ Len(calls) \in 1 .. N(s) /\ ReadOf(base) >= Len(calls)
<1>1. /\ Head(todo).op \in {"answer", "notify", "raw"}
      /\ Advance /\ UNCHANGED <<harnessVars, log, toHarness, mark>>
  BY DEF CaseTells, Now, wireVars
<1>2. ScriptGoes(s) /\ BoxGoes(s, base) /\ ReplyGoes(s, base)
  BY DEF HarnessGoes
<1>3. /\ Len(log) \in Nat /\ base \in Nat /\ Len(calls) \in Nat /\ ReadOf(base) \in Nat
      /\ N(s) \in 1 .. 11 /\ Pos(s) \in Nat /\ Len(calls) \in 0 .. N(s) + 1
  <2>1. s \in Scenarios /\ HarnessGoes(s, base)
    OBVIOUS
  <2> QED BY ONLY <2>1, GoesFacts
<1>4. Gets(s) \/ ExpectsNext(s) \/ Answers(s) \/ Cancels(s) \/ Accepted(s)
  BY <1>2, ScriptNow
<1>5. Answers(s) \/ (Cancels(s) /\ Head(todo).op = "notify")
  <2>1. ExpectsNext(s) => Head(todo).op = "expect"
    BY Zenon DEF ExpectsNext, IsExpect
  <2>2. Gets(s) => Head(todo).op = "got"
    BY Zenon DEF Gets
  <2>3. Accepted(s) => Head(todo).op \in {"written", "await", "check"}
    <3>1. Accepted(s) => \/ Head(todo).op = "written"
                         \/ Head(todo).op = "await"
                         \/ Head(todo).op = "check"
      BY Zenon DEF Accepted, IsAwait
    <3> QED BY ONLY <3>1
  <2>4. Cancels(s) => Head(todo).op \in {"notify", "await"}
    <3>1. Cancels(s) => Head(todo).op = "notify" \/ Head(todo).op = "await"
      BY Zenon DEF Cancels, IsAwait
    <3> QED BY ONLY <3>1
  <2> QED BY ONLY <1>1, <1>4, <2>1, <2>2, <2>3, <2>4
<1>6. PICK x : x = Len(calls)
  OBVIOUS
<1>7. x \in Questions(s) /\ x \in 1 .. N(s)
  <2>1. N(s) \in 0 .. N(s)
    BY <1>3
  <2>2. Questions(s) \subseteq 1 .. N(s) /\ N(s) \in Questions(s)
    BY <2>1, Places
  <2> QED BY <1>5, <1>6, <2>2 DEF Answers, Cancels
<1>8. /\ Place(s, x) \in 7 .. 100
      /\ Place(s, x + 1) = Place(s, x) + IF s = "v1-permission-cancel" THEN 4 ELSE 3
  <2>1. x \in 0 .. N(s) /\ x # 0
    BY <1>3, <1>7
  <2> QED BY <2>1, <1>7, Places
<1>9. PICK a, b : a = Place(s, x) /\ b = Place(s, x + 1)
  OBVIOUS
<1>10. a \in Nat /\ b \in {a + 3, a + 4}
       /\ (s = "v1-permission-cancel" => b = a + 4)
  BY ONLY <1>8, <1>9
<1>11. (Pos(s) = b - 1) \/ (s = "v1-permission-cancel" /\ Pos(s) = b - 2)
  BY <1>1, <1>5, <1>6, <1>9 DEF Answers, Cancels, IsAwait
<1>12. Pos(s) # a + 1 /\ Pos(s) + 1 <= b
  BY ONLY <1>10, <1>11
<1>13. ReadOf(base) >= x
  BY <1>6, <1>9, <1>12, ReadSoFar
<1>14. ~(Len(log) < base)
  BY <1>3, <1>7, <1>13 DEF ReadOf
<1>15. HarnessGoes(s, base)' /\ Pos(s)' = Pos(s) + 1 /\ IsSeq(todo')
  BY <1>1, <1>3, <1>6, <1>7, <1>9, <1>12, <1>13, <1>14, StepsOn
<1> QED BY <1>5, <1>6, <1>7, <1>13, <1>15

\* The next event is expected: it is there already, or the case waits for it.
LEMMA ExpectsGoes ==
    ASSUME NEW s \in Scenarios, NEW base, HarnessGoes(s, base), Total - base <= N(s),
           IsSeq(todo), CaseExpects
    PROVE  /\ HarnessGoes(s, base)' /\ Pos(s)' = Pos(s) + 1 /\ IsSeq(todo')
           /\ Script(s)[Pos(s)].op # "answer"
<1>1. /\ Head(todo).op = "expect" /\ H!Expect(Head(todo).arg, Head(todo).what)
      /\ Advance /\ UNCHANGED <<log, toHarness, mark>>
  BY DEF CaseExpects, Now, wireVars
<1>2. HarnessShapes /\ ScriptGoes(s) /\ BoxGoes(s, base) /\ ReplyGoes(s, base) /\ WireGoes(s, base)
  BY DEF HarnessGoes
<1>3. /\ Len(log) \in Nat /\ base \in Nat /\ Len(calls) \in Nat /\ ReadOf(base) \in Nat
      /\ N(s) \in 1 .. 11 /\ Pos(s) \in Nat /\ Len(calls) \in 0 .. N(s) + 1 /\ IsSeq(calls)
  <2>1. s \in Scenarios /\ HarnessGoes(s, base)
    OBVIOUS
  <2> QED BY ONLY <2>1, GoesFacts
<1>4. /\ Head(todo) = Script(s)[Pos(s)] /\ AtCase(s) /\ Pos(s) <= Len(Script(s))
      /\ Gets(s) \/ ExpectsNext(s) \/ Answers(s) \/ Cancels(s) \/ Accepted(s)
  BY <1>2, ScriptNow DEF ScriptGoes
<1>5. ExpectsNext(s)
  <2>1. Answers(s) => Head(todo).op = "answer"
    BY Zenon DEF Answers
  <2>2. Gets(s) => Head(todo).op = "got"
    BY Zenon DEF Gets
  <2>3. Accepted(s) => Head(todo).op \in {"written", "await", "check"}
    <3>1. Accepted(s) => \/ Head(todo).op = "written"
                         \/ Head(todo).op = "await"
                         \/ Head(todo).op = "check"
      BY Zenon DEF Accepted, IsAwait
    <3> QED BY ONLY <3>1
  <2>4. Cancels(s) => Head(todo).op \in {"notify", "await"}
    <3>1. Cancels(s) => Head(todo).op = "notify" \/ Head(todo).op = "await"
      BY Zenon DEF Cancels, IsAwait
    <3> QED BY ONLY <3>1
  <2> QED BY ONLY <1>1, <1>4, <2>1, <2>2, <2>3, <2>4
<1>6. PICK x : x = Len(calls)
  OBVIOUS
<1>7. PICK w : w = Head(todo).what
  OBVIOUS
<1>8. /\ x \in 0 .. N(s) /\ Pos(s) = Place(s, x + 1) /\ Head(todo).arg = "events"
      /\ (s = "v1-permission-cancel" => x < N(s)) /\ (x < N(s) => Events(s)[x + 1] \in w)
  BY <1>3, <1>5, <1>6, <1>7 DEF ExpectsNext, IsExpect
<1>9. AtCase(s)' /\ Pos(s)' = Pos(s) + 1 /\ IsSeq(todo')
  BY <1>1, <1>4, AtStep
<1>10. /\ x + 1 \in 0 .. N(s) + 1 /\ Place(s, x + 1) \in Nat /\ Place(s, x) \in Nat
       /\ Place(s, x) < Place(s, x + 1)
  <2>1. x \in 0 .. N(s) + 1 /\ x + 1 \in 0 .. N(s) + 1 /\ x < x + 1
    <3>1. N(s) \in 1 .. 11 /\ x \in 0 .. N(s)
      BY <1>3, <1>8
    <3>2. PICK n : n = N(s)
      OBVIOUS
    <3> QED BY ONLY <3>1, <3>2
  <2>2. Place(s, x) < Place(s, x + 1)
    BY <2>1, PlacesGrow
  <2>3. Place(s, x) \in Nat /\ Place(s, x + 1) \in Nat
    BY <2>1, GoesFacts
  <2> QED BY <2>1, <2>2, <2>3
<1>11. ReadOf(base) >= x
  <2>1. CASE x = 0
    BY <2>1, <1>3
  <2>2. CASE x # 0
    <3>1. /\ Place(s, x) \in 7 .. 100
          /\ Place(s, x + 1) =
                 Place(s, x) + IF x = 0 THEN 1 + 3 * Behind(s)
                               ELSE IF x \notin Questions(s) THEN 2
                               ELSE IF s = "v1-permission-cancel" THEN 4 ELSE 3
      BY <1>8, Places
    <3>2. PICK a : a = Place(s, x)
      OBVIOUS
    <3>3. a \in Nat /\ Place(s, x + 1) # a + 1
      BY ONLY <2>2, <3>1, <3>2
    <3> QED BY <3>2, <3>3, <1>6, <1>8, ReadSoFar
  <2> QED BY <2>1, <2>2
<1>12. /\ ~fatalError /\ UNCHANGED <<nextId, pendingResponses, write, response, answeredBy>>
       /\ UNCHANGED <<received, closed, fatalError>>
  BY <1>1 DEF H!Expect, H!requestVars
<1>13. ReplyGoes(s, base)'
  <2>1. s = "v2-full-turn" => ~(Len(log) < base)
    <3>1. SUFFICES ASSUME s = "v2-full-turn" PROVE ~(Pos(s) <= 10)
      BY <1>2 DEF ReplyGoes
    <3>2. Place(s, 0) = 8 /\ Place(s, 1) = 12 /\ (x # 0 => Place(s, 1) < Place(s, x + 1))
      <4>1. 1 \in 0 .. N(s) + 1 /\ (x # 0 => 1 < x + 1)
        BY <1>3, <1>8, SMTT(30)
      <4> QED BY <4>1, <3>1, <1>10, PlacesGrow DEF Place
    <3> QED BY <3>2, <1>8, <1>10
  <2> QED BY <1>1, <1>2, <1>12, <2>1 DEF ReplyGoes, Latest
<1>14. WireGoes(s, base)'
  BY <1>1, <1>2, <1>12 DEF WireGoes, L, Total, Latest
<1>15. Len(calls') = x + 1 => ScriptGoes(s)'
  <2>1. x + 1 <= N(s) => Place(s, x + 1) < Place(s, x + 1 + 1) /\ Place(s, x + 1 + 1) \in Nat
    <3>1. SUFFICES ASSUME x + 1 <= N(s)
                   PROVE  Place(s, x + 1) < Place(s, x + 1 + 1) /\ Place(s, x + 1 + 1) \in Nat
      OBVIOUS
    <3>2. x + 1 \in 0 .. N(s) + 1 /\ x + 1 + 1 \in 0 .. N(s) + 1 /\ x + 1 < x + 1 + 1
      <4>1. N(s) \in 1 .. 11 /\ x \in 0 .. N(s)
        BY <1>3, <1>8
      <4>2. PICK n : n = N(s)
        OBVIOUS
      <4> QED BY ONLY <3>1, <4>1, <4>2
    <3>3. Place(s, x + 1) < Place(s, x + 1 + 1)
      BY <3>2, PlacesGrow
    <3>4. Place(s, x + 1 + 1) \in Nat
      BY <3>2, GoesFacts
    <3> QED BY <3>3, <3>4
  <2>2. SUFFICES ASSUME Len(calls') = x + 1 PROVE ScriptGoes(s)'
    OBVIOUS
  <2>3. PICK y : y = x + 1
    OBVIOUS
  <2>4. y \in 0 .. N(s) + 1 /\ (s = "v1-permission-cancel" => y <= N(s))
    <3>1. x \in 0 .. N(s) /\ N(s) \in 1 .. 11
      BY <1>3, <1>8
    <3>2. s = "v1-permission-cancel" => x < N(s)
      BY <1>8
    <3>3. y \in 0 .. N(s) + 1 /\ (x < N(s) => y <= N(s))
      BY ONLY <2>3, <3>1
    <3> QED BY <3>2, <3>3
  <2>5. Pos(s)' \in Place(s, y) + 1 .. IF y > N(s) THEN Place(s, y) + 1 ELSE Place(s, y + 1)
    <3>1. Pos(s)' = Place(s, y) + 1 /\ Place(s, y) \in Nat
      BY <1>8, <1>9, <1>10, <2>3
    <3>2. CASE y > N(s)
      BY <3>1, <3>2
    <3>3. CASE ~(y > N(s))
      <4>1. Place(s, y) < Place(s, y + 1) /\ Place(s, y + 1) \in Nat
        BY <2>1, <2>3, <2>4, <3>3, <1>3
      <4>2. PICK a, b : a = Place(s, y) /\ b = Place(s, y + 1)
        OBVIOUS
      <4>3. Pos(s)' \in a + 1 .. b
        BY ONLY <3>1, <4>1, <4>2
      <4> QED BY <3>3, <4>2, <4>3
    <3> QED BY <3>2, <3>3
  <2> QED BY <1>9, <2>2, <2>3, <2>4, <2>5 DEF ScriptGoes
<1>16. CASE ReadOf(base) = x
  <2>1. queued["events"] = <<>> /\ waiters["events"] = <<>>
    <3>1. /\ IsSeq(queued["events"]) /\ Len(queued["events"]) = x - x
          /\ waiters["events"] = <<>>
      BY <1>2, <1>6, <1>8, <1>11, <1>16 DEF BoxGoes
    <3> QED BY <3>1, <1>8, SeqLen
  <2>2. H!FirstItem("events", w) = 0
    BY <2>1, FoundFirst
  <2>3. PICK c : c = [box |-> "events", accepts |-> w, state |-> "waiting", got |-> H!NoItem]
    OBVIOUS
  <2>4. /\ calls' = Append(calls, c)
        /\ waiters' = [waiters EXCEPT !["events"] = Append(@, Len(calls) + 1)]
        /\ queued' = queued
    BY <1>1, <1>7, <1>8, <2>2, <2>3 DEF H!Expect, H!NewCall
  <2>5. /\ IsSeq(calls') /\ Len(calls') = x + 1 /\ calls'[x + 1] = c
    BY <1>3, <1>6, <2>4, SeqAppend
  <2>6. waiters'["events"] = <<x + 1>> /\ waiters'["responses"] = <<>>
        /\ DOMAIN waiters' = H!Boxes
    <3>1. "events" \in DOMAIN waiters /\ DOMAIN waiters = H!Boxes /\ waiters["responses"] = <<>>
      BY <1>2 DEF HarnessShapes, H!Boxes
    <3>2. Append(<<>>, x + 1) = <<x + 1>>
      OBVIOUS
    <3> QED BY <1>6, <2>1, <2>4, <3>1, <3>2
  <2>7. HarnessShapes'
    BY <1>1, <1>2, <1>12, <2>4, <2>5, <2>6 DEF HarnessShapes
  <2>8. ScriptGoes(s)'
    BY <1>15, <2>5
  <2>9. BoxGoes(s, base)'
    <3>1. PICK y : y = x + 1
      OBVIOUS
    <3>2. Len(calls)' = y /\ ReadOf(base)' = x /\ ~(x >= y) /\ x = y - 1
      BY <1>1, <1>8, <1>16, <2>5, <3>1 DEF ReadOf
    <3>3. Pos(s)' = Place(s, y) + 1 /\ Script(s)[Place(s, y)].what = w
      BY <1>4, <1>7, <1>8, <1>9, <3>1
    <3>4. /\ queued'["events"] = <<>> /\ waiters'["events"] = <<y>> /\ calls'[y] = c
      BY <2>1, <2>4, <2>5, <2>6, <3>1
    <3>5. c.state = "waiting" /\ c.accepts = w
          /\ c = [box |-> "events", accepts |-> c.accepts, state |-> "waiting", got |-> H!NoItem]
      BY <2>3
    <3> QED BY ONLY <3>2, <3>3, <3>4, <3>5 DEF BoxGoes
  <2> QED BY <1>1, <1>4, <1>9, <1>13, <1>14, <2>7, <2>8, <2>9 DEF HarnessGoes
<1>17. CASE ReadOf(base) # x
  <2>1. PICK q : q = queued["events"]
    OBVIOUS
  <2>2. PICK r : r = ReadOf(base)
    OBVIOUS
  <2>3. r \in Nat /\ r > x /\ r <= N(s) /\ x \in Nat
    <3>1. r <= N(s)
      BY <2>2, ReadSoFar
    <3> QED BY <1>3, <1>8, <1>11, <1>17, <2>2, <3>1
  <2>4. /\ IsSeq(q) /\ Len(q) = r - x
        /\ \A i \in 1 .. r - x : q[i] = [n |-> base + x + i, kind |-> Events(s)[x + i]]
        /\ waiters["events"] = <<>>
    BY <1>2, <1>6, <1>11, <2>1, <2>2 DEF BoxGoes
  <2>5. /\ Len(q) \in Nat \ {0} /\ q # <<>>
        /\ q[1] = [n |-> base + x + 1, kind |-> Events(s)[x + 1]]
    BY <2>3, <2>4, SeqLen
  <2>6. Events(s)[x + 1] \in w
    BY <1>3, <1>8, <2>3
  <2>7. H!FirstItem("events", w) = 1
    BY <2>1, <2>5, <2>6, FoundFirst
  <2>8. PICK c : c = [box |-> "events", accepts |-> w, state |-> "resolved", got |-> q[1]]
    OBVIOUS
  <2>9. /\ calls' = Append(calls, c) /\ waiters' = waiters
        /\ queued' = [queued EXCEPT !["events"] = H!RemoveAt(@, 1)]
    BY <1>1, <1>7, <1>8, <2>1, <2>7, <2>8 DEF H!Expect, H!NewCall
  <2>10. IsSeq(calls') /\ Len(calls') = x + 1 /\ calls'[x + 1] = c
    BY <1>3, <1>6, <2>9, SeqAppend
  <2>11. queued'["events"] = Tail(q) /\ DOMAIN queued' = H!Boxes
    <3>1. "events" \in DOMAIN queued /\ DOMAIN queued = H!Boxes
      BY <1>2 DEF HarnessShapes, H!Boxes
    <3>2. H!RemoveAt(q, 1) = Tail(q)
      BY <2>4, <2>5, RemoveHead DEF H!RemoveAt, RemoveAt
    <3> QED BY <2>1, <2>9, <3>1, <3>2
  <2>12. HarnessShapes'
    BY <1>1, <1>2, <1>12, <2>9, <2>10, <2>11 DEF HarnessShapes
  <2>13. ScriptGoes(s)'
    BY <1>15, <2>10
  <2>14. BoxGoes(s, base)'
    <3>1. PICK y : y = x + 1
      OBVIOUS
    <3>2. Len(calls)' = y /\ ReadOf(base)' = r /\ r >= y /\ y > 0
      BY <1>1, <2>2, <2>3, <2>10, <3>1 DEF ReadOf
    <3>3. IsSeq(Tail(q)) /\ Len(Tail(q)) = r - y
          /\ \A i \in 1 .. r - y :
                Tail(q)[i] = [n |-> base + y + i, kind |-> Events(s)[y + i]]
      <4>1. /\ IsSeq(Tail(q)) /\ Len(Tail(q)) = Len(q) - 1
            /\ \A i \in 1 .. Len(q) - 1 : Tail(q)[i] = q[i + 1]
        BY <2>4, <2>5, SeqTail
      <4>2. ASSUME NEW i \in 1 .. r - y
            PROVE  Tail(q)[i] = [n |-> base + y + i, kind |-> Events(s)[y + i]]
        <5>1. i \in 1 .. Len(q) - 1 /\ i + 1 \in 1 .. r - x /\ x + (i + 1) = y + i
              /\ base + x + (i + 1) = base + y + i
          BY <1>3, <2>3, <2>4, <3>1
        <5>2. Tail(q)[i] = [n |-> base + x + (i + 1), kind |-> Events(s)[x + (i + 1)]]
          BY <2>4, <4>1, <5>1
        <5> QED BY <5>1, <5>2
      <4> QED BY <2>3, <2>4, <3>1, <4>1, <4>2
    <3>4. /\ queued'["events"] = Tail(q) /\ waiters'["events"] = <<>> /\ calls'[y] = c
      BY <2>4, <2>9, <2>10, <2>11, <3>1
    <3>5. c.state = "resolved" /\ c.got.n = base + y
      BY <2>5, <2>8, <3>1, <1>3, <2>3
    <3> QED BY ONLY <3>2, <3>3, <3>4, <3>5 DEF BoxGoes
  <2> QED BY <1>1, <1>4, <1>9, <1>13, <1>14, <2>12, <2>13, <2>14 DEF HarnessGoes
<1> QED BY <1>16, <1>17

-----------------------------------------------------------------------------
(* The harness reads in a turn.                                            *)

\* A line is read: the lines of the agent, read or on their way, stay the same.
LEMMA WireMoves ==
    ASSUME IsSeq(log), IsSeq(toHarness), toHarness # <<>>,
           log' = Append(log, Head(toHarness)), toHarness' = Tail(toHarness)
    PROVE  /\ Total' = Total /\ \A k \in 1 .. Total : L(k)' = L(k)
           /\ IsSeq(log') /\ IsSeq(toHarness') /\ Len(log') = Len(log) + 1
           /\ Len(log) \in Nat /\ Len(log) + 1 \in 1 .. Total
           /\ L(Len(log) + 1) = Head(toHarness)
<1>1. PICK m : m = Head(toHarness)
  OBVIOUS
<1>2. Len(log) \in Nat /\ Len(toHarness) \in Nat /\ Len(toHarness) # 0 /\ m = toHarness[1]
  BY <1>1, SeqLen
<1>3. /\ IsSeq(log') /\ Len(log') = Len(log) + 1
      /\ \A i \in 1 .. Len(log) : log'[i] = log[i]
      /\ log'[Len(log) + 1] = m
  BY <1>1, SeqAppend
<1>4. /\ IsSeq(toHarness') /\ Len(toHarness') = Len(toHarness) - 1
      /\ \A i \in 1 .. Len(toHarness) - 1 : toHarness'[i] = toHarness[i + 1]
  BY SeqTail
<1>5. Total' = Total
  BY <1>2, <1>3, <1>4 DEF Total
<1>6. Len(log) + 1 \in 1 .. Total
  BY <1>2 DEF Total
<1>7. L(Len(log) + 1) = m
  <2>1. ~(Len(log) + 1 <= Len(log)) /\ (Len(log) + 1) - Len(log) = 1
    BY <1>2
  <2> QED BY <1>2, <2>1 DEF L
<1>8. ASSUME NEW k \in 1 .. Total PROVE L(k)' = L(k)
  <2>1. CASE k <= Len(log)
    BY <2>1, <1>2, <1>3 DEF L
  <2>2. CASE k = Len(log) + 1
    <3>1. k <= Len(log')
      BY <2>2, <1>2, <1>3
    <3> QED BY <2>2, <3>1, <1>3, <1>7 DEF L
  <2>3. CASE k > Len(log) + 1
    <3>1. k - Len(log') \in 1 .. Len(toHarness) - 1 /\ (k - Len(log')) + 1 = k - Len(log)
          /\ ~(k <= Len(log')) /\ ~(k <= Len(log))
      BY <2>3, <1>2, <1>3 DEF Total
    <3>2. toHarness'[k - Len(log')] = toHarness[k - Len(log)]
      BY <1>4, <3>1
    <3> QED BY <3>1, <3>2 DEF L
  <2>4. Len(log) \in Nat /\ k \in Nat
    BY <1>2
  <2> QED BY <2>1, <2>2, <2>3, <2>4
<1> QED BY <1>1, <1>2, <1>3, <1>4, <1>5, <1>6, <1>7, <1>8

\* A response to an earlier request leaves all alone that the turn depends on.
LEMMA OldReplyRead ==
    ASSUME HarnessShapes, HarnessReads, NEW n, IsOldReply(Head(toHarness), n)
    PROVE  /\ HarnessShapes' /\ log' = Append(log, Head(toHarness))
           /\ queued'["events"] = queued["events"]
           /\ UNCHANGED <<nextId, waiters, calls, mark>>
           /\ \A id \in H!Ids : ~(id < n) =>
                 /\ response'[id] = response[id] /\ answeredBy'[id] = answeredBy[id]
                 /\ id \in pendingResponses' <=> id \in pendingResponses
<1>1. PICK m : m = Head(toHarness)
  OBVIOUS
<1>2. m.type = "response" /\ m.id \in Nat /\ m.id < n
  BY <1>1 DEF IsOldReply
<1>3. /\ toHarness # <<>> /\ toHarness' = Tail(toHarness)
      /\ H!ResponseLine(m.id, m.valid) /\ log' = Append(log, m) /\ mark' = mark
  BY <1>1, <1>2 DEF HarnessReads, Case_
<1>4. /\ IsSeq(log') /\ IsSeq(toHarness') /\ Len(log') = Len(log) + 1 /\ Len(log) \in Nat
  BY <1>1, <1>3, WireMoves DEF HarnessShapes
<1>5. mark' \in Nat /\ mark' <= Len(log')
  BY <1>3, <1>4 DEF HarnessShapes
<1>6. /\ nextId' = nextId /\ waiters' = waiters /\ calls' = calls /\ fatalError' = fatalError
      /\ received' = received + 1
      /\ queued'["events"] = queued["events"] /\ DOMAIN queued' = H!Boxes
      /\ DOMAIN response' = H!Ids /\ DOMAIN answeredBy' = H!Ids
      /\ pendingResponses' \subseteq H!Ids
      /\ \A id \in H!Ids : ~(id < n) =>
            /\ response'[id] = response[id] /\ answeredBy'[id] = answeredBy[id]
            /\ id \in pendingResponses' <=> id \in pendingResponses
  <2>1. CASE m.id \in pendingResponses
    <3>1. /\ H!Settle(m.id, IF m.valid THEN "resolved" ELSE "rejected")
          /\ answeredBy' = [answeredBy EXCEPT ![m.id] = received + 1]
          /\ UNCHANGED <<nextId, write, queued, waiters, calls, closed, fatalError>>
          /\ received' = received + 1
      BY <1>3, <2>1 DEF H!ResponseLine, H!expectVars
    <3>2. /\ pendingResponses' = pendingResponses \ {m.id}
          /\ response' = [response EXCEPT ![m.id] = IF m.valid THEN "resolved" ELSE "rejected"]
      BY <3>1 DEF H!Settle
    <3>3. ASSUME NEW id \in H!Ids, ~(id < n)
          PROVE  /\ response'[id] = response[id] /\ answeredBy'[id] = answeredBy[id]
                 /\ id \in pendingResponses' <=> id \in pendingResponses
      <4>1. id # m.id
        BY <1>2, <3>3
      <4> QED BY <3>1, <3>2, <4>1 DEF HarnessShapes
    <3>4. /\ DOMAIN queued' = H!Boxes /\ DOMAIN response' = H!Ids /\ DOMAIN answeredBy' = H!Ids
          /\ pendingResponses' \subseteq H!Ids
      BY <3>1, <3>2 DEF HarnessShapes
    <3> QED BY <3>1, <3>3, <3>4
  <2>2. CASE m.id \notin pendingResponses
    <3>1. /\ H!Deliver("responses", m.id) /\ received' = received + 1
          /\ UNCHANGED <<nextId, pendingResponses, write, response, answeredBy, closed, fatalError>>
      BY <1>3, <2>2 DEF H!ResponseLine, H!requestVars
    <3>2. H!FirstWaiter("responses", m.id) = 0
      BY FoundFirst DEF HarnessShapes
    <3>3. /\ UNCHANGED <<waiters, calls>>
          /\ queued' = [queued EXCEPT !["responses"] =
                           Append(@, [n |-> received + 1, kind |-> m.id])]
      BY <3>1, <3>2 DEF H!Deliver
    <3>4. queued'["events"] = queued["events"] /\ DOMAIN queued' = H!Boxes
      BY <3>3 DEF HarnessShapes
    <3> QED BY <3>1, <3>3, <3>4 DEF HarnessShapes
  <2> QED BY <2>1, <2>2
<1>7. HarnessShapes'
  BY <1>3, <1>4, <1>5, <1>6 DEF HarnessShapes
<1> QED BY <1>1, <1>3, <1>6, <1>7

\* What the agent's messages are.
LEMMA MessageIs ==
    /\ \A s, j : /\ Message(s, j).type = "event" /\ Message(s, j).kind = Events(s)[j]
                 /\ Message(s, j).valid = TRUE
                 /\ j \in Questions(s) => Message(s, j).id = Number(s, j)
    /\ \A id, k : /\ Response(id, k).type = "response" /\ Response(id, k).kind = k
                  /\ Response(id, k).id = id /\ Response(id, k).valid = TRUE
BY DEF Message, Response, Msg

\* The harness reads a line: an earlier answer, the answer to the prompt of v2,
\* or the next event of the turn, which it hands to the case or keeps for it.
LEMMA ReadsGoes ==
    ASSUME NEW s \in Scenarios, NEW base, HarnessGoes(s, base), Total - base <= N(s),
           HarnessReads
    PROVE  HarnessGoes(s, base)' /\ Total' = Total
<1>1. HarnessShapes /\ ScriptGoes(s) /\ BoxGoes(s, base) /\ ReplyGoes(s, base) /\ WireGoes(s, base)
  BY DEF HarnessGoes
<1>2. /\ Len(log) \in Nat /\ base \in Nat /\ Len(calls) \in Nat /\ ReadOf(base) \in Nat
      /\ N(s) \in 1 .. 11 /\ Behind(s) \in {0, 1} /\ Total \in Nat /\ IsSeq(calls)
  <2>1. s \in Scenarios /\ HarnessGoes(s, base)
    OBVIOUS
  <2> QED BY ONLY <2>1, GoesFacts
<1>3. PICK m : m = Head(toHarness)
  OBVIOUS
<1>4. PICK k : k = Len(log) + 1
  OBVIOUS
<1>5. toHarness # <<>> /\ toHarness' = Tail(toHarness) /\ UNCHANGED <<todo, mark>>
  BY DEF HarnessReads, Case_
<1>6. ~(m.type = "event" /\ ~m.valid) =>
         /\ IF m.type = "event" THEN H!EventLine(m.kind) ELSE H!ResponseLine(m.id, m.valid)
         /\ log' = Append(log, m)
  BY <1>3 DEF HarnessReads
<1>7. IsSeq(log) /\ IsSeq(toHarness)
  BY <1>1 DEF HarnessShapes
<1>8. log' = Append(log, m) =>
         /\ Total' = Total /\ \A h \in 1 .. Total : L(h)' = L(h)
         /\ IsSeq(log') /\ IsSeq(toHarness') /\ Len(log') = k
  BY <1>3, <1>4, <1>5, <1>7, WireMoves
<1>9. k \in 1 .. Total /\ L(k) = m
  <2>1. Len(toHarness) \in Nat /\ Len(toHarness) # 0 /\ m = toHarness[1]
    BY <1>3, <1>5, <1>7, SeqLen
  <2>2. ~(k <= Len(log)) /\ k - Len(log) = 1
    BY <1>2, <1>4
  <2> QED BY <2>1, <2>2, <1>2, <1>4 DEF L, Total
<1>10. ASSUME log' = Append(log, m), nextId' = nextId PROVE WireGoes(s, base)'
  <2>1. Total' = Total /\ (\A h \in 1 .. Total : L(h)' = L(h)) /\ Latest' = Latest
    BY <1>8, <1>10 DEF Latest
  <2> QED BY <1>1, <2>1 DEF WireGoes
<1>11. ASSUME calls' = calls PROVE ScriptGoes(s)'
  BY <1>1, <1>5, <1>11 DEF ScriptGoes, AtCase, Pos
<1>12. CASE k <= base - Behind(s)
  <2>1. IsOldReply(m, Latest)
    BY <1>1, <1>9, <1>12 DEF WireGoes
  <2>2. /\ HarnessShapes' /\ log' = Append(log, m)
        /\ queued'["events"] = queued["events"]
        /\ UNCHANGED <<nextId, waiters, calls, mark>>
        /\ \A id \in H!Ids : ~(id < Latest) =>
                 /\ response'[id] = response[id] /\ answeredBy'[id] = answeredBy[id]
                 /\ id \in pendingResponses' <=> id \in pendingResponses
    BY <2>1, <1>1, <1>3, OldReplyRead
  <2>3. Latest \in H!Ids /\ ~(Latest < Latest)
    <3>1. Latest \in H!Ids
      BY <1>1 DEF ReplyGoes
    <3>2. Latest \in Int
      BY <1>1 DEF HarnessShapes, Latest
    <3> QED BY <3>1, <3>2
  <2>4. /\ response'[Latest] = response[Latest] /\ answeredBy'[Latest] = answeredBy[Latest]
        /\ Latest \in pendingResponses' <=> Latest \in pendingResponses
    BY <2>2, <2>3
  <2>5. Len(log) < base /\ Len(log') = k /\ (s = "v2-full-turn" => k < base)
        /\ ~(Len(log) > base) /\ ~(k > base)
    BY <1>2, <1>4, <1>8, <1>12, <2>2 DEF Behind
  <2>6. ReadOf(base)' = ReadOf(base)
    BY <2>5 DEF ReadOf
  <2>7. Pos(s)' = Pos(s)
    BY <1>5 DEF Pos
  <2>8. ReplyGoes(s, base)'
    BY <1>1, <2>2, <2>4, <2>5, <2>7 DEF ReplyGoes, Latest
  <2>9. BoxGoes(s, base)'
    BY <1>1, <2>2, <2>6, <2>7 DEF BoxGoes
  <2> QED BY <1>8, <1>10, <1>11, <2>2, <2>8, <2>9 DEF HarnessGoes
<1>13. CASE k = base /\ Behind(s) = 1
  <2>1. m = Response(Latest, "ok") /\ s = "v2-full-turn"
    BY <1>1, <1>9, <1>13 DEF WireGoes, Behind
  <2>2. m.type = "response" /\ m.id = Latest /\ m.valid = TRUE
    BY <2>1, MessageIs
  <2>3. Len(log) < base /\ ReadOf(base) = 0
    BY <1>2, <1>4, <1>13 DEF ReadOf
  <2>4. Latest \in pendingResponses /\ Latest \in H!Ids /\ mark < base
    BY <1>1, <2>1, <2>3 DEF ReplyGoes
  <2>5. H!ResponseLine(Latest, TRUE) /\ log' = Append(log, m)
    BY <1>6, <2>2
  <2>6. /\ H!Settle(Latest, "resolved") /\ received' = received + 1
        /\ answeredBy' = [answeredBy EXCEPT ![Latest] = received + 1]
        /\ UNCHANGED <<nextId, queued, waiters, calls, fatalError>>
    BY <2>4, <2>5 DEF H!ResponseLine, H!expectVars
  <2>7. /\ pendingResponses' = pendingResponses \ {Latest}
        /\ response' = [response EXCEPT ![Latest] = "resolved"]
    BY <2>6 DEF H!Settle
  <2>8. received + 1 = base
    BY <1>1, <1>4, <1>13 DEF HarnessShapes
  <2>9. Len(log') = base /\ ReadOf(base)' = 0 /\ ~(Len(log') < base)
    BY <1>2, <1>8, <1>13, <2>5 DEF ReadOf
  <2>10. ReplyGoes(s, base)'
    BY <1>1, <1>2, <1>5, <2>1, <2>4, <2>6, <2>7, <2>8, <2>9 DEF ReplyGoes, Latest, HarnessShapes
  <2>11. BoxGoes(s, base)'
    BY <1>1, <1>5, <2>3, <2>6, <2>9 DEF BoxGoes, Pos
  <2>12. HarnessShapes'
    <3>1. mark' \in Nat /\ mark' <= Len(log')
      BY <1>1, <1>2, <1>5, <2>4, <2>9 DEF HarnessShapes
    <3>2. IsSeq(log') /\ IsSeq(toHarness') /\ received' = Len(log')
      BY <1>8, <2>5, <2>6, <2>8, <2>9
    <3> QED BY <1>1, <2>6, <2>7, <3>1, <3>2 DEF HarnessShapes
  <2> QED BY <1>8, <1>10, <1>11, <2>5, <2>6, <2>10, <2>11, <2>12 DEF HarnessGoes
<1>14. CASE k > base
  <2>1. PICK r : r = ReadOf(base)
    OBVIOUS
  <2>2. PICK x : x = Len(calls)
    OBVIOUS
  <2>3. r \in Nat /\ k = base + r + 1 /\ r + 1 <= N(s) /\ x \in Nat /\ k - base = r + 1
    BY <1>2, <1>4, <1>9, <1>14, <2>1, <2>2 DEF ReadOf
  <2>4. PICK kind : kind = Events(s)[r + 1]
    OBVIOUS
  <2>5. m.type = "event" /\ m.valid = TRUE /\ m.kind = kind
    <3>1. m = Message(s, k - base)
      BY <1>1, <1>9, <1>14 DEF WireGoes
    <3> QED BY <2>3, <2>4, <3>1, MessageIs
  <2>6. H!EventLine(kind) /\ log' = Append(log, m)
    BY <1>6, <2>5
  <2>7. /\ received' = received + 1 /\ H!Deliver("events", kind)
        /\ UNCHANGED <<nextId, pendingResponses, write, response, answeredBy, closed, fatalError>>
    BY <2>6 DEF H!EventLine, H!requestVars
  <2>8. received + 1 = k
    BY <1>1, <1>4 DEF HarnessShapes
  <2>9. ReadOf(base)' = r + 1 /\ Len(log') = k
    BY <1>2, <1>8, <1>14, <2>3, <2>6 DEF ReadOf
  <2>10. ~(Len(log) < base) /\ ~(Len(log') < base)
    BY <1>2, <1>4, <1>14, <2>9
  <2>11. ReplyGoes(s, base)'
    BY <1>1, <1>5, <2>7, <2>10 DEF ReplyGoes, Latest
  <2>12. /\ mark' \in Nat /\ mark' <= Len(log') /\ IsSeq(log') /\ IsSeq(toHarness')
         /\ received' = Len(log')
    BY <1>1, <1>2, <1>4, <1>5, <1>8, <2>6, <2>7, <2>8, <2>9 DEF HarnessShapes
  <2>13. /\ DOMAIN queued = H!Boxes /\ DOMAIN waiters = H!Boxes
         /\ "events" \in H!Boxes /\ waiters["responses"] = <<>>
    BY <1>1 DEF HarnessShapes, H!Boxes
  <2>14. CASE r >= x
    <3>1. /\ IsSeq(queued["events"]) /\ Len(queued["events"]) = r - x
          /\ \A i \in 1 .. r - x :
                queued["events"][i] = [n |-> base + x + i, kind |-> Events(s)[x + i]]
          /\ waiters["events"] = <<>>
          /\ x > 0 => calls[x].state = "resolved" /\ calls[x].got.n = base + x
      BY <1>1, <2>1, <2>2, <2>14 DEF BoxGoes
    <3>2. H!FirstWaiter("events", kind) = 0
      BY <3>1, FoundFirst
    <3>3. PICK i : i = [n |-> received + 1, kind |-> kind]
      OBVIOUS
    <3>4. /\ UNCHANGED <<waiters, calls>>
          /\ queued' = [queued EXCEPT !["events"] = Append(@, i)]
      BY <2>7, <3>2, <3>3 DEF H!Deliver
    <3>5. PICK q : q = queued["events"]
      OBVIOUS
    <3>6. queued'["events"] = Append(q, i) /\ DOMAIN queued' = H!Boxes
      BY <2>13, <3>4, <3>5
    <3>7. /\ IsSeq(Append(q, i)) /\ Len(Append(q, i)) = Len(q) + 1
          /\ \A h \in 1 .. Len(q) : Append(q, i)[h] = q[h]
          /\ Append(q, i)[Len(q) + 1] = i
      BY <3>1, <3>5, SeqAppend
    <3>8. Len(q) = r - x /\ Len(q) + 1 = (r + 1) - x
      BY <2>3, <3>1, <3>5
    <3>9. ASSUME NEW h \in 1 .. (r + 1) - x
          PROVE  Append(q, i)[h] = [n |-> base + x + h, kind |-> Events(s)[x + h]]
      <4>1. CASE h \in 1 .. r - x
        BY <4>1, <3>1, <3>5, <3>7, <3>8
      <4>2. CASE h \notin 1 .. r - x
        <5>1. h = Len(q) + 1 /\ x + h = r + 1 /\ base + x + h = received + 1
          BY <4>2, <1>2, <2>3, <2>8, <2>14, <3>8
        <5>2. Append(q, i)[h] = i
          BY <5>1, <3>7
        <5> QED BY <2>4, <3>3, <5>1, <5>2
      <4> QED BY <4>1, <4>2
    <3>10. BoxGoes(s, base)'
      <4>1. r + 1 >= x /\ Len(calls)' = x /\ ReadOf(base)' = r + 1
        BY <2>2, <2>3, <2>9, <2>14, <3>4
      <4>2. waiters'["events"] = <<>> /\ calls' = calls
        BY <3>1, <3>4
      <4>3. /\ IsSeq(queued'["events"]) /\ Len(queued'["events"]) = (r + 1) - x
            /\ \A h \in 1 .. (r + 1) - x :
                  queued'["events"][h] = [n |-> base + x + h, kind |-> Events(s)[x + h]]
        BY <3>6, <3>7, <3>8, <3>9
      <4> QED BY ONLY <3>1, <4>1, <4>2, <4>3 DEF BoxGoes
    <3>11. HarnessShapes'
      BY <1>1, <2>7, <2>12, <3>4, <3>6 DEF HarnessShapes
    <3> QED BY <1>8, <1>10, <1>11, <2>6, <2>7, <2>11, <3>4, <3>10, <3>11 DEF HarnessGoes
  <2>15. CASE ~(r >= x)
    <3>1. /\ r = x - 1 /\ Pos(s) = Place(s, x) + 1
          /\ queued["events"] = <<>> /\ waiters["events"] = <<x>>
          /\ calls[x].state = "waiting" /\ calls[x].accepts = Script(s)[Place(s, x)].what
          /\ calls[x] = [box |-> "events", accepts |-> calls[x].accepts, state |-> "waiting",
                         got |-> H!NoItem]
      BY <1>1, <2>1, <2>2, <2>15 DEF BoxGoes
    <3>2. x \in 1 .. N(s) /\ r + 1 = x
      BY <2>3, <3>1, <1>2
    <3>3. kind \in calls[x].accepts
      <4>1. (\E kinds : IsExpect(Script(s)[Place(s, x)], kinds) /\ Events(s)[x] \in kinds)
        BY <3>2, ShapeOf DEF ScriptShape
      <4> QED BY <4>1, <2>4, <3>1, <3>2 DEF IsExpect
    <3>4. H!FirstWaiter("events", kind) = 1
      BY <3>1, <3>3, FoundFirst
    <3>5. PICK i : i = [n |-> received + 1, kind |-> kind]
      OBVIOUS
    <3>6. <<x>>[1] = x /\ waiters["events"][1] = x
      BY <3>1
    <3>7. /\ waiters' = [waiters EXCEPT !["events"] = H!RemoveAt(@, 1)]
          /\ calls' = [calls EXCEPT ![x].state = "resolved", ![x].got = i]
          /\ queued' = queued
      BY <2>7, <3>4, <3>5, <3>6 DEF H!Deliver
    <3>8. waiters'["events"] = <<>> /\ DOMAIN waiters' = H!Boxes /\ waiters'["responses"] = <<>>
      <4>1. PICK w : w = <<x>>
        OBVIOUS
      <4>2. IsSeq(w) /\ Len(w) = 1
        BY <4>1, ShortParts
      <4>3. w # <<>> /\ IsSeq(Tail(w)) /\ Len(Tail(w)) = 0
        BY <4>2, SeqLen, SeqTail
      <4>4. H!RemoveAt(w, 1) = Tail(w) /\ Tail(w) = <<>>
        BY <4>2, <4>3, RemoveHead, SeqLen DEF H!RemoveAt, RemoveAt
      <4> QED BY <2>13, <3>1, <3>7, <4>1, <4>4
    <3>9. x \in DOMAIN calls /\ IsSeq(calls') /\ Len(calls') = x
      <4>1. x \in DOMAIN calls
        BY <1>2, <2>2, <3>2, SeqLen
      <4>2. DOMAIN calls' = DOMAIN calls /\ DOMAIN calls = 1 .. Len(calls) /\ Len(calls) \in Nat
        BY <1>2, <3>7, SeqLen
      <4>3. calls' = [j \in 1 .. Len(calls) |-> calls'[j]]
        BY <3>7, <4>2
      <4>4. PICK c : c = calls'
        OBVIOUS
      <4>5. c \in Seq({c[j] : j \in DOMAIN c})
        BY <4>2, <4>3, <4>4
      <4> QED BY <4>1, <4>2, <4>4, <4>5, <2>2 DEF IsSeq
    <3>10. calls'[x].state = "resolved" /\ calls'[x].got.n = base + x
      <4>1. calls'[x] = [calls[x] EXCEPT !.state = "resolved", !.got = i]
        BY <3>7, <3>9
      <4>2. calls'[x].state = "resolved" /\ calls'[x].got = i
        BY <3>1, <4>1
      <4>3. i.n = received + 1 /\ received + 1 = base + x
        BY <2>3, <2>8, <3>2, <3>5, <1>2
      <4> QED BY <4>2, <4>3
    <3>11. BoxGoes(s, base)'
      <4>1. Len(calls)' = x /\ ReadOf(base)' = x /\ x >= x /\ x - x = 0
        BY <2>3, <2>9, <3>2, <3>9
      <4>2. IsSeq(queued'["events"]) /\ Len(queued'["events"]) = 0 /\ waiters'["events"] = <<>>
        BY <3>1, <3>7, <3>8, ShortParts
      <4>3. \A h \in 1 .. 0 : FALSE
        OBVIOUS
      <4> QED BY ONLY <3>10, <4>1, <4>2, <4>3 DEF BoxGoes
    <3>12. HarnessShapes'
      BY <1>1, <2>7, <2>12, <3>7, <3>8, <3>9 DEF HarnessShapes
    <3>13. ScriptGoes(s)'
      BY <1>1, <1>5, <2>2, <3>9 DEF ScriptGoes, AtCase, Pos
    <3> QED BY <1>8, <1>10, <2>6, <2>7, <2>11, <3>11, <3>12, <3>13 DEF HarnessGoes
  <2> QED BY <2>14, <2>15
<1>15. k \in Nat /\ (k <= base - Behind(s) \/ (k = base /\ Behind(s) = 1) \/ k > base)
  BY <1>2, <1>4
<1> QED BY <1>12, <1>13, <1>14, <1>15

===============================================================================
