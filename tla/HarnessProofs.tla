---------------------------- MODULE HarnessProofs ----------------------------
(***************************************************************************)
(* Safety of HarnessConnection against any target, for every number of     *)
(* requests, expectations and lines and every choice of predicates.        *)
(***************************************************************************)
EXTENDS HarnessConnection, FiniteSetTheorems, FunctionTheorems, SequenceTheorems,
    WellFoundedInduction, TLAPS

Increasing(w) == \A i, j \in DOMAIN w : i < j => w[i] < w[j]

-----------------------------------------------------------------------------
(* Sequences without one of their elements.                                *)

\* A nonempty set of natural numbers has a least one.
LEMMA Least ==
    ASSUME NEW I, I \subseteq Nat, I # {}
    PROVE  Min(I) \in I /\ \A j \in I : Min(I) <= j
<1>1. PICK i \in I : \A j \in I : <<j, i>> \notin OpToRel(<, Nat)
  BY NatLessThanWellFounded, WFMin
<1>2. \A j \in I : ~(j < i)
  BY <1>1 DEF OpToRel
<1>3. \A j \in I : i <= j
  BY <1>2
<1> QED BY <1>3 DEF Min

\* The elements after the place that is taken out move up.
LEMMA RemoveAtElements ==
    ASSUME NEW S, NEW s \in Seq(S), NEW i \in DOMAIN s
    PROVE  /\ RemoveAt(s, i) \in Seq(S)
           /\ Len(RemoveAt(s, i)) = Len(s) - 1
           /\ \A j \in 1 .. Len(s) - 1 :
                  RemoveAt(s, i)[j] = IF j < i THEN s[j] ELSE s[j + 1]
<1> DEFINE front == SubSeq(s, 1, i - 1)
           back  == SubSeq(s, i + 1, Len(s))
<1>1. DOMAIN s = 1 .. Len(s) /\ Len(s) \in Nat
  OBVIOUS
<1>2. \A j \in 1 .. Len(s) : s[j] \in S
  BY <1>1, ElementOfSeq
<1>3. /\ front \in Seq(S) /\ Len(front) = i - 1
      /\ \A j \in 1 .. i - 1 : front[j] = s[j]
  BY <1>1, <1>2, SubSeqProperties
<1>4. /\ back \in Seq(S) /\ Len(back) = Len(s) - i
      /\ \A j \in 1 .. Len(s) - i : back[j] = s[i + j]
  BY <1>1, <1>2, SubSeqProperties
<1> HIDE DEF front, back
<1>5. /\ front \o back \in Seq(S) /\ Len(front \o back) = Len(front) + Len(back)
      /\ \A j \in 1 .. Len(front) + Len(back) :
            (front \o back)[j] = IF j <= Len(front) THEN front[j] ELSE back[j - Len(front)]
  BY <1>3, <1>4, ConcatProperties
<1>6. Len(front) + Len(back) = Len(s) - 1
  BY <1>1, <1>3, <1>4
<1>7. \A j \in 1 .. Len(s) - 1 :
         (front \o back)[j] = IF j < i THEN s[j] ELSE s[j + 1]
  <2> TAKE j \in 1 .. Len(s) - 1
  <2>1. CASE j < i
    BY <2>1, <1>1, <1>3, <1>5, <1>6
  <2>2. CASE ~(j < i)
    <3>1. j - (i - 1) \in 1 .. Len(s) - i /\ i + (j - (i - 1)) = j + 1
      BY <2>2, <1>1
    <3>2. (front \o back)[j] = back[j - (i - 1)]
      BY <2>2, <1>1, <1>3, <1>5, <1>6
    <3> QED BY <2>2, <3>1, <3>2, <1>4
  <2> QED BY <2>1, <2>2
<1> QED BY <1>5, <1>6, <1>7 DEF RemoveAt, front, back

\* Taking out a place of a sequence without repetitions takes out its element.
LEMMA TakenOut ==
    ASSUME NEW S, NEW s \in Seq(S), NEW i \in DOMAIN s,
           \A j, k \in DOMAIN s : s[j] = s[k] => j = k
    PROVE  /\ RemoveAt(s, i) \in Seq(S)
           /\ ToSet(RemoveAt(s, i)) = ToSet(s) \ {s[i]}
<1> DEFINE r == RemoveAt(s, i)
<1>1. /\ r \in Seq(S) /\ Len(r) = Len(s) - 1
      /\ \A j \in 1 .. Len(s) - 1 : r[j] = IF j < i THEN s[j] ELSE s[j + 1]
  BY RemoveAtElements
<1>2. DOMAIN s = 1 .. Len(s) /\ DOMAIN r = 1 .. Len(s) - 1 /\ Len(s) \in Nat
  BY <1>1
<1>3. \A x \in ToSet(r) : x \in ToSet(s) /\ x # s[i]
  <2> TAKE x \in ToSet(r)
  <2>1. PICK j \in 1 .. Len(s) - 1 : x = r[j]
    BY <1>2 DEF ToSet
  <2>2. CASE j < i
    BY <2>1, <2>2, <1>1, <1>2 DEF ToSet
  <2>3. CASE ~(j < i)
    <3>1. x = s[j + 1] /\ j + 1 \in DOMAIN s /\ j + 1 # i
      BY <2>1, <2>3, <1>1, <1>2
    <3> QED BY <3>1 DEF ToSet
  <2> QED BY <2>2, <2>3
<1>4. \A x \in ToSet(s) : x # s[i] => x \in ToSet(r)
  <2> SUFFICES ASSUME NEW k \in DOMAIN s, s[k] # s[i] PROVE s[k] \in ToSet(r)
    BY DEF ToSet
  <2>1. CASE k < i
    <3>1. k \in DOMAIN r /\ r[k] = s[k]
      BY <2>1, <1>1, <1>2
    <3> QED BY <3>1 DEF ToSet
  <2>2. CASE k > i
    <3>1. k - 1 \in DOMAIN r /\ r[k - 1] = s[k]
      BY <2>2, <1>1, <1>2
    <3> QED BY <3>1 DEF ToSet
  <2> QED BY <2>1, <2>2, <1>2
<1> QED BY <1>1, <1>3, <1>4

\* An increasing sequence stays so, and has no repetitions.
LEMMA IncreasingWithout ==
    ASSUME NEW w \in Seq(Nat), Increasing(w), NEW i \in DOMAIN w
    PROVE  /\ RemoveAt(w, i) \in Seq(Nat)
           /\ Increasing(RemoveAt(w, i))
           /\ ToSet(RemoveAt(w, i)) = ToSet(w) \ {w[i]}
<1>1. \A j, k \in DOMAIN w : w[j] = w[k] => j = k
  <2> TAKE j, k \in DOMAIN w
  <2>1. w[j] \in Nat /\ w[k] \in Nat /\ j \in Nat /\ k \in Nat
    BY ElementOfSeq, DOMAIN w = 1 .. Len(w)
  <2> QED BY <2>1 DEF Increasing
<1>2. /\ RemoveAt(w, i) \in Seq(Nat) /\ Len(RemoveAt(w, i)) = Len(w) - 1
      /\ \A j \in 1 .. Len(w) - 1 : RemoveAt(w, i)[j] = IF j < i THEN w[j] ELSE w[j + 1]
  BY RemoveAtElements
<1>3. DOMAIN w = 1 .. Len(w) /\ DOMAIN RemoveAt(w, i) = 1 .. Len(w) - 1 /\ Len(w) \in Nat
  BY <1>2
<1>4. \A j \in DOMAIN w : w[j] \in Nat
  BY <1>3, ElementOfSeq
<1>5. Increasing(RemoveAt(w, i))
  <2> SUFFICES ASSUME NEW j \in 1 .. Len(w) - 1, NEW k \in 1 .. Len(w) - 1, j < k
               PROVE  RemoveAt(w, i)[j] < RemoveAt(w, i)[k]
    BY <1>3 DEF Increasing
  <2> DEFINE old(n) == IF n < i THEN n ELSE n + 1
  <2>1. old(j) \in DOMAIN w /\ old(k) \in DOMAIN w /\ old(j) < old(k)
    BY <1>3
  <2>2. RemoveAt(w, i)[j] = w[old(j)] /\ RemoveAt(w, i)[k] = w[old(k)]
    BY <1>2
  <2> HIDE DEF old
  <2> QED BY <2>1, <2>2 DEF Increasing
<1> QED BY <1>1, <1>2, <1>5, TakenOut

\* A greater number at the end keeps a sequence increasing.
LEMMA IncreasingAppend ==
    ASSUME NEW w \in Seq(Nat), Increasing(w), NEW n \in Nat, \A x \in ToSet(w) : x < n
    PROVE  /\ Append(w, n) \in Seq(Nat)
           /\ Increasing(Append(w, n))
           /\ ToSet(Append(w, n)) = ToSet(w) \cup {n}
<1>1. /\ Append(w, n) \in Seq(Nat) /\ DOMAIN Append(w, n) = 1 .. Len(w) + 1
      /\ Append(w, n)[Len(w) + 1] = n
      /\ \A i \in 1 .. Len(w) : Append(w, n)[i] = w[i]
      /\ DOMAIN w = 1 .. Len(w) /\ Len(w) \in Nat
  BY AppendProperties
<1>2. \A i \in DOMAIN w : w[i] < n
  BY DEF ToSet
<1>3. Increasing(Append(w, n))
  BY <1>1, <1>2 DEF Increasing
<1>4. ToSet(Append(w, n)) = ToSet(w) \cup {n}
  BY <1>1 DEF ToSet
<1> QED BY <1>1, <1>3, <1>4

-----------------------------------------------------------------------------
(* Types.                                                                  *)

Kinds == EventKinds \cup ResponseIds
Item  == [n : Nat, kind : Kinds]
Call  == [box : Boxes, accepts : SUBSET Kinds, state : {"waiting", "resolved", "rejected"},
          got : Item \cup {NoItem}]

Typed ==
    /\ nextId \in Nat \ {0}
    /\ pendingResponses \subseteq Ids
    /\ write \in [Ids -> {"none", "busy", "done", "failed"}]
    /\ response \in [Ids -> {"none", "waiting", "resolved", "rejected"}]
    /\ answeredBy \in [Ids -> Nat]
    /\ queued \in [Boxes -> Seq(Item)]
    /\ waiters \in [Boxes -> Seq(Nat)]
    /\ calls \in Seq(Call)
    /\ received \in Nat
    /\ closed \in BOOLEAN /\ fatalError \in BOOLEAN

\* What the assumptions say, unfolded.
LEMMA Basics ==
    /\ Boxes = {"events", "responses"}
    /\ MaxRequests \in Nat /\ MaxCalls \in Nat /\ MaxReceived \in Nat
    /\ \A b \in Boxes : KindsOf[b] \subseteq Kinds
    /\ \A b \in Boxes : \A accepts \in Predicates[b] : accepts \subseteq KindsOf[b]
BY BoundsAssumption, PredicatesAssumption DEF Boxes, KindsOf, Kinds

\* The first place of the queue that a predicate accepts, or none.
LEMMA FirstItemIs ==
    ASSUME Typed, NEW b \in Boxes, NEW accepts
    PROVE  LET i == FirstItem(b, accepts) IN
           IF \E j \in DOMAIN queued[b] : queued[b][j].kind \in accepts
           THEN /\ i \in DOMAIN queued[b] /\ i # 0
                /\ queued[b][i].kind \in accepts
                /\ \A j \in DOMAIN queued[b] : queued[b][j].kind \in accepts => i <= j
           ELSE i = 0
<1> DEFINE I == {j \in 1 .. Len(queued[b]) : queued[b][j].kind \in accepts}
<1>1. DOMAIN queued[b] = 1 .. Len(queued[b]) /\ Len(queued[b]) \in Nat
  BY DEF Typed
<1>2. FirstItem(b, accepts) = IF I # {} THEN Min(I) ELSE 0
  BY DEF FirstItem, SelectInSeq
<1>3. I \subseteq Nat
  BY <1>1
<1>4. CASE I # {}
  <2>1. Min(I) \in I /\ \A j \in I : Min(I) <= j
    BY <1>3, <1>4, Least
  <2> QED BY <1>1, <1>2, <1>4, <2>1
<1>5. CASE I = {}
  BY <1>1, <1>2, <1>5
<1> QED BY <1>4, <1>5

\* The first waiter that accepts a kind, or none.
LEMMA FirstWaiterIs ==
    ASSUME Typed, NEW b \in Boxes, NEW kind
    PROVE  LET i == FirstWaiter(b, kind) IN
           IF \E j \in DOMAIN waiters[b] : kind \in calls[waiters[b][j]].accepts
           THEN /\ i \in DOMAIN waiters[b] /\ i # 0
                /\ kind \in calls[waiters[b][i]].accepts
                /\ \A j \in DOMAIN waiters[b] :
                      kind \in calls[waiters[b][j]].accepts => i <= j
           ELSE i = 0
<1> DEFINE I == {j \in 1 .. Len(waiters[b]) : kind \in calls[waiters[b][j]].accepts}
<1>1. DOMAIN waiters[b] = 1 .. Len(waiters[b]) /\ Len(waiters[b]) \in Nat
  BY DEF Typed
<1>2. FirstWaiter(b, kind) = IF I # {} THEN Min(I) ELSE 0
  BY DEF FirstWaiter, SelectInSeq
<1>3. I \subseteq Nat
  BY <1>1
<1>4. CASE I # {}
  <2>1. Min(I) \in I /\ \A j \in I : Min(I) <= j
    BY <1>3, <1>4, Least
  <2> QED BY <1>1, <1>2, <1>4, <2>1
<1>5. CASE I = {}
  BY <1>1, <1>2, <1>5
<1> QED BY <1>4, <1>5

\* RemoveFirst takes out the one place of an element that is there once.
LEMMA RemoveFirstIs ==
    ASSUME NEW w \in Seq(Nat), NEW i \in DOMAIN w, Increasing(w)
    PROVE  RemoveFirst(w, w[i]) = RemoveAt(w, i)
<1> DEFINE I == {j \in 1 .. Len(w) : w[j] = w[i]}
<1>1. DOMAIN w = 1 .. Len(w) /\ Len(w) \in Nat
  OBVIOUS
<1>2. \A j \in DOMAIN w : w[j] \in Nat
  BY <1>1, ElementOfSeq
<1>3. I = {i}
  BY <1>1, <1>2 DEF Increasing
<1>4. SelectInSeq(w, LAMBDA v : v = w[i]) = Min(I)
  BY <1>3 DEF SelectInSeq
<1>5. Min(I) = i
  <2>1. I \subseteq Nat /\ I # {}
    BY <1>1, <1>3
  <2>2. Min(I) \in I
    BY <2>1, Least
  <2> QED BY <1>3, <2>2
<1> QED BY <1>1, <1>4, <1>5 DEF RemoveFirst

-----------------------------------------------------------------------------
(* The inductive invariant.                                                *)

\* A queue is in the order of arrival, and holds lines that have arrived; so
\* did what a call got.  A call that waits got nothing.
Arrived(m, b) == m.n \in 1 .. received /\ m.kind \in KindsOf[b]
Sorted(q) == \A i, j \in DOMAIN q : i < j => q[i].n < q[j].n
QueueInv ==
    \A b \in Boxes : /\ Sorted(queued[b])
                     /\ \A i \in DOMAIN queued[b] : Arrived(queued[b][i], b)
CallInv ==
    \A c \in DOMAIN calls :
        /\ calls[c].accepts \subseteq KindsOf[calls[c].box]
        /\ calls[c].state = "waiting" => calls[c].got = NoItem
        /\ calls[c].got # NoItem => Arrived(calls[c].got, calls[c].box)
BoundInv == Len(calls) <= MaxCalls /\ received <= MaxReceived

IInv == Typed /\ NobodyIsForgotten /\ QueueInv /\ CallInv /\ BoundInv

\* The parts of NobodyIsForgotten.
RequestsKept == pendingResponses = {id \in Ids : response[id] = "waiting"}
WaitersKept(b) == ToSet(waiters[b]) = Waiting(b) /\ Increasing(waiters[b])
NobodyAfterFailure ==
    fatalError => pendingResponses = {} /\ \A b \in Boxes : waiters[b] = <<>>

\* NobodyIsForgotten is its parts, in a state and in the next.
LEMMA Parts ==
    NobodyIsForgotten <=> RequestsKept /\ (\A b \in Boxes : WaitersKept(b)) /\ NobodyAfterFailure
BY DEF NobodyIsForgotten, RequestsKept, WaitersKept, NobodyAfterFailure, Increasing

LEMMA PartsNext ==
    NobodyIsForgotten' <=>
        RequestsKept' /\ (\A b \in Boxes : WaitersKept(b)') /\ NobodyAfterFailure'
BY DEF NobodyIsForgotten, RequestsKept, WaitersKept, NobodyAfterFailure, Increasing

LEMMA WaitersKeptNext ==
    ASSUME NEW b \in Boxes
    PROVE  WaitersKept(b)' <=> ToSet(waiters'[b]) = Waiting(b)' /\ Increasing(waiters'[b])
BY DEF WaitersKept, ToSet, Increasing

-----------------------------------------------------------------------------
(* What the operators of the module do to queues, waiters and calls.       *)

\* The calls are numbered from 1.
LEMMA CallNumbers ==
    ASSUME Typed
    PROVE  /\ DOMAIN calls = 1 .. Len(calls) /\ Len(calls) \in Nat
           /\ \A c \in DOMAIN calls : calls[c] \in Call /\ c \in Nat
           /\ \A b \in Boxes : DOMAIN queued[b] = 1 .. Len(queued[b])
                               /\ \A i \in DOMAIN queued[b] : queued[b][i] \in Item
<1>1. calls \in Seq(Call)
  BY DEF Typed
<1>2. DOMAIN calls = 1 .. Len(calls) /\ Len(calls) \in Nat
  BY <1>1
<1>3. \A c \in DOMAIN calls : calls[c] \in Call
  BY <1>1, <1>2, ElementOfSeq
<1>4. ASSUME NEW b \in Boxes
      PROVE  DOMAIN queued[b] = 1 .. Len(queued[b])
             /\ \A i \in DOMAIN queued[b] : queued[b][i] \in Item
  <2>1. queued[b] \in Seq(Item)
    BY DEF Typed
  <2> QED BY <2>1, ElementOfSeq
<1> QED BY <1>2, <1>3, <1>4

\* A new call comes after the others, which stay.
LEMMA NewCallIs ==
    ASSUME Typed, NEW b \in Boxes, NEW accepts \in SUBSET Kinds,
           NEW state \in {"waiting", "resolved", "rejected"}, NEW item \in Item \cup {NoItem},
           NewCall(b, accepts, state, item)
    PROVE  LET new == Len(calls) + 1 IN
           /\ calls' \in Seq(Call)
           /\ Len(calls') = new
           /\ DOMAIN calls' = DOMAIN calls \cup {new}
           /\ new \notin DOMAIN calls
           /\ calls'[new] = [box |-> b, accepts |-> accepts, state |-> state, got |-> item]
           /\ \A c \in DOMAIN calls : calls'[c] = calls[c]
<1> DEFINE call == [box |-> b, accepts |-> accepts, state |-> state, got |-> item]
<1>1. call \in Call /\ calls \in Seq(Call)
  BY DEF Call, Typed
<1>2. calls' = Append(calls, call)
  BY DEF NewCall
<1> HIDE DEF call
<1>3. /\ Append(calls, call) \in Seq(Call)
      /\ Len(Append(calls, call)) = Len(calls) + 1
      /\ Append(calls, call)[Len(calls) + 1] = call
      /\ \A c \in 1 .. Len(calls) : Append(calls, call)[c] = calls[c]
  BY <1>1, AppendProperties
<1>4. DOMAIN calls = 1 .. Len(calls) /\ Len(calls) \in Nat
  BY <1>1
<1>5. DOMAIN calls' = 1 .. Len(calls) + 1
  BY <1>2, <1>3
<1> QED BY <1>2, <1>3, <1>4, <1>5 DEF call

\* A line goes to the first waiter that wants it, or to the end of the queue.
Arriving(kind) == [n |-> received + 1, kind |-> kind]
Wants(b, kind) == {c \in ToSet(waiters[b]) : kind \in calls[c].accepts}
Taken(b, kind) ==
    \E i \in DOMAIN waiters[b] :
        /\ waiters[b][i] \in Wants(b, kind)
        /\ \A c \in Wants(b, kind) : waiters[b][i] <= c
        /\ waiters' = [waiters EXCEPT ![b] = RemoveAt(@, i)]
        /\ calls' = [calls EXCEPT ![waiters[b][i]].state = "resolved",
                                  ![waiters[b][i]].got = Arriving(kind)]
        /\ UNCHANGED queued
Kept(b, kind) ==
    /\ Wants(b, kind) = {}
    /\ queued' = [queued EXCEPT ![b] = Append(@, Arriving(kind))]
    /\ UNCHANGED <<waiters, calls>>

\* The code's search and splice are one of the two.
LEMMA DeliverIs ==
    ASSUME IInv, NEW b \in Boxes, NEW kind, Deliver(b, kind)
    PROVE  Taken(b, kind) \/ Kept(b, kind)
<1> DEFINE i == FirstWaiter(b, kind)
<1>1. IF \E j \in DOMAIN waiters[b] : kind \in calls[waiters[b][j]].accepts
      THEN /\ i \in DOMAIN waiters[b] /\ i # 0
           /\ kind \in calls[waiters[b][i]].accepts
           /\ \A j \in DOMAIN waiters[b] : kind \in calls[waiters[b][j]].accepts => i <= j
      ELSE i = 0
  BY FirstWaiterIs DEF IInv
<1>2. DOMAIN waiters[b] = 1 .. Len(waiters[b]) /\ Len(waiters[b]) \in Nat
      /\ \A j \in DOMAIN waiters[b] : waiters[b][j] \in Nat
  <2>1. waiters[b] \in Seq(Nat)
    BY DEF IInv, Typed
  <2> QED BY <2>1, ElementOfSeq
<1>3. Increasing(waiters[b])
  BY Parts DEF IInv, WaitersKept
<1>4. CASE \E j \in DOMAIN waiters[b] : kind \in calls[waiters[b][j]].accepts
  <2>1. waiters[b][i] \in Wants(b, kind)
    BY <1>1, <1>4 DEF Wants, ToSet
  <2>2. \A c \in Wants(b, kind) : waiters[b][i] <= c
    <3> TAKE c \in Wants(b, kind)
    <3>1. PICK j \in DOMAIN waiters[b] : c = waiters[b][j]
      BY DEF Wants, ToSet
    <3>2. i <= j
      BY <1>1, <1>4, <3>1 DEF Wants
    <3> QED BY <1>1, <1>2, <1>3, <1>4, <3>1, <3>2 DEF Increasing
  <2> QED BY <1>1, <1>4, <2>1, <2>2 DEF Deliver, Taken, Arriving
<1>5. CASE ~\E j \in DOMAIN waiters[b] : kind \in calls[waiters[b][j]].accepts
  <2>1. Wants(b, kind) = {}
    BY <1>5 DEF Wants, ToSet
  <2> QED BY <1>1, <1>5, <2>1 DEF Deliver, Kept, Arriving
<1> QED BY <1>4, <1>5

\* The waiter that takes a line leaves the list, and the other calls stay.
LEMMA TakenIs ==
    ASSUME IInv, NEW b \in Boxes, NEW kind \in KindsOf[b], Taken(b, kind)
    PROVE  \E c \in Wants(b, kind) \cap Waiting(b) :
              /\ \A d \in Wants(b, kind) : c <= d
              /\ calls' \in Seq(Call) /\ DOMAIN calls' = DOMAIN calls
              /\ Len(calls') = Len(calls)
              /\ calls'[c] = [calls[c] EXCEPT !.state = "resolved", !.got = Arriving(kind)]
              /\ \A d \in DOMAIN calls : d # c => calls'[d] = calls[d]
              /\ waiters' \in [Boxes -> Seq(Nat)]
              /\ Increasing(waiters'[b])
              /\ ToSet(waiters'[b]) = ToSet(waiters[b]) \ {c}
              /\ \A d \in Boxes : d # b => waiters'[d] = waiters[d]
              /\ queued' = queued
<1>1. PICK i \in DOMAIN waiters[b] :
        /\ waiters[b][i] \in Wants(b, kind)
        /\ \A c \in Wants(b, kind) : waiters[b][i] <= c
        /\ waiters' = [waiters EXCEPT ![b] = RemoveAt(@, i)]
        /\ calls' = [calls EXCEPT ![waiters[b][i]].state = "resolved",
                                  ![waiters[b][i]].got = Arriving(kind)]
        /\ UNCHANGED queued
  BY DEF Taken
<1> DEFINE c == waiters[b][i]
<1>2. c \in Waiting(b)
  BY <1>1, Parts DEF IInv, WaitersKept, Wants
<1>3. c \in DOMAIN calls
  BY <1>2 DEF Waiting
<1>4. /\ waiters[b] \in Seq(Nat) /\ Increasing(waiters[b])
      /\ waiters \in [Boxes -> Seq(Nat)]
  BY Parts DEF IInv, WaitersKept, Typed
<1>5. /\ RemoveAt(waiters[b], i) \in Seq(Nat) /\ Increasing(RemoveAt(waiters[b], i))
      /\ ToSet(RemoveAt(waiters[b], i)) = ToSet(waiters[b]) \ {c}
  BY <1>1, <1>4, IncreasingWithout
<1>6. /\ waiters'[b] = RemoveAt(waiters[b], i)
      /\ waiters' \in [Boxes -> Seq(Nat)]
      /\ \A d \in Boxes : d # b => waiters'[d] = waiters[d]
  BY <1>1, <1>4, <1>5
<1>7. Arriving(kind) \in Item
  BY Basics DEF IInv, Typed, Arriving, Item
<1>8. calls[c] \in Call /\ calls \in Seq(Call)
  BY <1>3, CallNumbers DEF IInv, Typed
<1> HIDE DEF c
<1>9. calls' = [calls EXCEPT ![c] = [@ EXCEPT !.state = "resolved", !.got = Arriving(kind)]]
  BY <1>1 DEF c
<1>10. [calls[c] EXCEPT !.state = "resolved", !.got = Arriving(kind)] \in Call
  BY <1>7, <1>8 DEF Call
<1>11. /\ calls' \in Seq(Call) /\ DOMAIN calls' = DOMAIN calls /\ Len(calls') = Len(calls)
       /\ calls'[c] = [calls[c] EXCEPT !.state = "resolved", !.got = Arriving(kind)]
       /\ \A d \in DOMAIN calls : d # c => calls'[d] = calls[d]
  BY <1>3, <1>8, <1>9, <1>10
<1>12. c \in Wants(b, kind) /\ \A d \in Wants(b, kind) : c <= d
  BY <1>1 DEF c
<1> QED BY <1>1, <1>2, <1>5, <1>6, <1>11, <1>12 DEF c

\* A line nobody wants joins its queue.
LEMMA KeptIs ==
    ASSUME IInv, NEW b \in Boxes, NEW kind \in KindsOf[b], Kept(b, kind),
           received' = received + 1
    PROVE  /\ queued' \in [Boxes -> Seq(Item)]
           /\ QueueInv'
           /\ ToSet(queued'[b]) = ToSet(queued[b]) \cup {Arriving(kind)}
           /\ Len(queued'[b]) = Len(queued[b]) + 1
           /\ \A d \in Boxes : d # b => queued'[d] = queued[d]
<1>1. Arriving(kind) \in Item /\ Arriving(kind).n = received + 1 /\ received \in Nat
  BY Basics DEF IInv, Typed, Arriving, Item
<1> DEFINE m == Arriving(kind)
           q == Append(queued[b], m)
<1>2. queued[b] \in Seq(Item) /\ queued \in [Boxes -> Seq(Item)]
  BY DEF IInv, Typed
<1>3. /\ q \in Seq(Item) /\ DOMAIN q = 1 .. Len(queued[b]) + 1
      /\ q[Len(queued[b]) + 1] = m
      /\ \A i \in 1 .. Len(queued[b]) : q[i] = queued[b][i]
      /\ DOMAIN queued[b] = 1 .. Len(queued[b]) /\ Len(queued[b]) \in Nat
  BY <1>1, <1>2, AppendProperties
<1> HIDE DEF m, q
<1>4. queued'[b] = q /\ queued' \in [Boxes -> Seq(Item)]
      /\ \A d \in Boxes : d # b => queued'[d] = queued[d]
  BY <1>2, <1>3 DEF Kept, m, q
<1>5. ToSet(q) = ToSet(queued[b]) \cup {m}
  BY <1>3 DEF ToSet
<1>6. \A d \in Boxes : /\ Sorted(queued[d])
                       /\ \A i \in DOMAIN queued[d] : queued[d][i].n \in 1 .. received
                                                      /\ queued[d][i].kind \in KindsOf[d]
  BY DEF IInv, QueueInv, Arrived
<1>7. m.n = received + 1 /\ m.kind = kind
  BY <1>1 DEF m, Arriving
<1>8. Sorted(q)
  <2> SUFFICES ASSUME NEW i \in DOMAIN q, NEW j \in DOMAIN q, i < j PROVE q[i].n < q[j].n
    BY DEF Sorted
  <2>1. i \in 1 .. Len(queued[b])
    BY <1>3
  <2>2. q[i] = queued[b][i] /\ queued[b][i].n \in 1 .. received
    BY <2>1, <1>3, <1>6
  <2>3. CASE j \in 1 .. Len(queued[b])
    <3>1. q[j] = queued[b][j]
      BY <2>3, <1>3
    <3> QED BY <2>1, <2>2, <2>3, <3>1, <1>3, <1>6 DEF Sorted
  <2>4. CASE j = Len(queued[b]) + 1
    BY <2>2, <2>4, <1>1, <1>3, <1>7
  <2> QED BY <2>3, <2>4, <1>3
<1>9. ASSUME NEW i \in DOMAIN q
      PROVE  q[i].n \in 1 .. received + 1 /\ q[i].kind \in KindsOf[b]
  <2>1. CASE i = Len(queued[b]) + 1
    BY <2>1, <1>1, <1>3, <1>7
  <2>2. CASE i \in 1 .. Len(queued[b])
    <3>1. q[i] = queued[b][i] /\ i \in DOMAIN queued[b]
      BY <2>2, <1>3
    <3> QED BY <3>1, <1>1, <1>6
  <2> QED BY <2>1, <2>2, <1>3
<1>10. QueueInv'
  <2> SUFFICES ASSUME NEW d \in Boxes
               PROVE  /\ Sorted(queued'[d])
                      /\ \A i \in DOMAIN queued'[d] : /\ queued'[d][i].n \in 1 .. received'
                                                      /\ queued'[d][i].kind \in KindsOf[d]
    BY DEF QueueInv, Sorted, Arrived
  <2>1. CASE d = b
    BY <2>1, <1>4, <1>8, <1>9
  <2>2. CASE d # b
    BY <2>2, <1>1, <1>4, <1>6
  <2> QED BY <2>1, <2>2
<1>11. Len(queued'[b]) = Len(queued[b]) + 1
  BY <1>3, <1>4
<1> QED BY <1>4, <1>5, <1>10, <1>11 DEF m

-----------------------------------------------------------------------------
(* Invariance.                                                             *)

\* It holds initially.
LEMMA InvInit == Init => IInv
<1> SUFFICES ASSUME Init PROVE IInv
  OBVIOUS
<1>1. Typed
  <2>1. <<>> \in Seq(Item) /\ <<>> \in Seq(Nat) /\ <<>> \in Seq(Call)
    OBVIOUS
  <2>2. queued \in [Boxes -> Seq(Item)] /\ waiters \in [Boxes -> Seq(Nat)]
        /\ calls \in Seq(Call)
    BY <2>1 DEF Init
  <2>3. answeredBy \in [Ids -> Nat] /\ received \in Nat /\ nextId \in Nat \ {0}
        /\ pendingResponses \subseteq Ids
    BY DEF Init
  <2>4. write \in [Ids -> {"none", "busy", "done", "failed"}]
        /\ response \in [Ids -> {"none", "waiting", "resolved", "rejected"}]
    BY DEF Init
  <2>5. closed \in BOOLEAN /\ fatalError \in BOOLEAN
    BY DEF Init
  <2> QED BY <2>2, <2>3, <2>4, <2>5 DEF Typed
<1>2. NobodyIsForgotten
  BY DEF Init, NobodyIsForgotten, Waiting, ToSet
<1>3. QueueInv /\ CallInv /\ BoundInv
  BY Basics DEF Init, QueueInv, CallInv, BoundInv, Sorted
<1> QED BY <1>1, <1>2, <1>3 DEF IInv

MailTyped ==
    /\ queued \in [Boxes -> Seq(Item)]
    /\ waiters \in [Boxes -> Seq(Nat)]
    /\ calls \in Seq(Call)
    /\ received \in Nat
RequestTyped ==
    /\ nextId \in Nat \ {0}
    /\ pendingResponses \subseteq Ids
    /\ write \in [Ids -> {"none", "busy", "done", "failed"}]
    /\ response \in [Ids -> {"none", "waiting", "resolved", "rejected"}]
    /\ answeredBy \in [Ids -> Nat]
MailInv == /\ MailTyped /\ QueueInv /\ CallInv /\ BoundInv
           /\ \A b \in Boxes : WaitersKept(b)
RequestInv == RequestTyped /\ RequestsKept

\* The invariant by the parts that steps disturb together.
LEMMA Together ==
    IInv <=> MailInv /\ RequestInv /\ NobodyAfterFailure /\ closed \in BOOLEAN
             /\ fatalError \in BOOLEAN
BY Parts DEF IInv, Typed, MailInv, MailTyped, RequestInv, RequestTyped

LEMMA TogetherNext ==
    MailInv' /\ RequestInv' /\ NobodyAfterFailure' /\ closed' \in BOOLEAN
        /\ fatalError' \in BOOLEAN => IInv'
BY PartsNext DEF IInv, Typed, MailInv, MailTyped, RequestInv, RequestTyped

\* A step that is not about events, or about a line that is none.
LEMMA MailStays ==
    ASSUME IInv, UNCHANGED expectVars, received' \in {received, received + 1},
           received' <= MaxReceived
    PROVE  MailInv'
<1>1. received \in Nat /\ MailInv
  BY Together DEF IInv, Typed
<1>2. MailTyped' /\ BoundInv'
  BY <1>1 DEF MailInv, MailTyped, BoundInv, expectVars
<1>3. \A n : n \in 1 .. received => n \in 1 .. received'
  BY <1>1
<1>4. QueueInv'
  BY <1>1, <1>3 DEF MailInv, QueueInv, Sorted, Arrived, expectVars
<1>5. CallInv'
  BY <1>1, <1>3 DEF MailInv, CallInv, Arrived, expectVars
<1>6. \A b \in Boxes : WaitersKept(b)'
  BY <1>1 DEF MailInv, WaitersKept, Waiting, Increasing, ToSet, expectVars
<1> QED BY <1>2, <1>4, <1>5, <1>6 DEF MailInv

\* A request settles: its entry goes.
LEMMA SettleIs ==
    ASSUME IInv, NEW id \in Ids, NEW how \in {"resolved", "rejected"}, Settle(id, how)
    PROVE  /\ pendingResponses' \subseteq pendingResponses
           /\ response' \in [Ids -> {"none", "waiting", "resolved", "rejected"}]
           /\ RequestsKept'
<1>1. response \in [Ids -> {"none", "waiting", "resolved", "rejected"}] /\ RequestsKept
  BY Together DEF RequestInv, RequestTyped
<1> QED BY <1>1 DEF Settle, RequestsKept

\* A line for a box that takes or keeps it.
LEMMA DeliverKeeps ==
    ASSUME IInv, NEW b \in Boxes, NEW kind \in KindsOf[b], Deliver(b, kind),
           received < MaxReceived, received' = received + 1
    PROVE  /\ MailInv'
           /\ (\A d \in Boxes : waiters[d] = <<>>) => \A d \in Boxes : waiters'[d] = <<>>
<1>1. /\ received \in Nat /\ MailInv /\ MaxReceived \in Nat
      /\ \A d \in Boxes : WaitersKept(d)
  BY Together, Basics DEF IInv, Typed, MailInv
<1>2. \A n : n \in 1 .. received => n \in 1 .. received'
  BY <1>1
<1>3. CASE Taken(b, kind)
  <2>1. PICK c \in Wants(b, kind) \cap Waiting(b) :
              /\ \A d \in Wants(b, kind) : c <= d
              /\ calls' \in Seq(Call) /\ DOMAIN calls' = DOMAIN calls
              /\ Len(calls') = Len(calls)
              /\ calls'[c] = [calls[c] EXCEPT !.state = "resolved", !.got = Arriving(kind)]
              /\ \A d \in DOMAIN calls : d # c => calls'[d] = calls[d]
              /\ waiters' \in [Boxes -> Seq(Nat)]
              /\ Increasing(waiters'[b])
              /\ ToSet(waiters'[b]) = ToSet(waiters[b]) \ {c}
              /\ \A d \in Boxes : d # b => waiters'[d] = waiters[d]
              /\ queued' = queued
    BY <1>3, TakenIs
  <2>2. c \in DOMAIN calls /\ calls[c] \in Call /\ calls[c].box = b
    BY CallNumbers DEF Waiting, IInv
  <2>3. /\ calls'[c].box = b /\ calls'[c].accepts = calls[c].accepts
        /\ calls'[c].state = "resolved" /\ calls'[c].got = Arriving(kind)
    BY <2>1, <2>2 DEF Call
  <2>4. MailTyped' /\ BoundInv'
    BY <1>1, <2>1 DEF MailInv, MailTyped, BoundInv
  <2>5. QueueInv'
    BY <1>1, <1>2, <2>1 DEF MailInv, QueueInv, Sorted, Arrived
  <2>6. Arriving(kind).n \in 1 .. received' /\ Arriving(kind).kind \in KindsOf[b]
    BY <1>1 DEF Arriving
  <2>7. CallInv'
    <3> SUFFICES ASSUME NEW d \in DOMAIN calls
                 PROVE  /\ calls'[d].accepts \subseteq KindsOf[calls'[d].box]
                        /\ calls'[d].state = "waiting" => calls'[d].got = NoItem
                        /\ calls'[d].got # NoItem =>
                              /\ calls'[d].got.n \in 1 .. received'
                              /\ calls'[d].got.kind \in KindsOf[calls'[d].box]
      BY <2>1 DEF CallInv, Arrived
    <3>1. CASE d = c
      BY <1>1, <2>2, <2>3, <2>6, <3>1 DEF MailInv, CallInv
    <3>2. CASE d # c
      BY <1>1, <1>2, <2>1, <3>2 DEF MailInv, CallInv, Arrived
    <3> QED BY <3>1, <3>2
  <2>8. \A d \in Boxes : WaitersKept(d)'
    <3> SUFFICES ASSUME NEW d \in Boxes PROVE WaitersKept(d)'
      OBVIOUS
    <3>1. \A e \in DOMAIN calls' :
             (calls'[e].box = d /\ calls'[e].state = "waiting")
                <=> (e # c /\ calls[e].box = d /\ calls[e].state = "waiting")
      BY <2>1, <2>3
    <3>2. Waiting(d)' = Waiting(d) \ {c}
      BY <2>1, <3>1 DEF Waiting
    <3>3. d # b => c \notin Waiting(d)
      BY <2>2 DEF Waiting
    <3>4. CASE d = b
      BY <1>1, <2>1, <3>2, <3>4, WaitersKeptNext DEF WaitersKept
    <3>5. CASE d # b
      <4>1. waiters'[d] = waiters[d] /\ Waiting(d)' = Waiting(d)
        BY <2>1, <3>2, <3>3, <3>5
      <4> QED BY <1>1, <4>1, WaitersKeptNext DEF WaitersKept
    <3> QED BY <3>4, <3>5
  <2>9. waiters[b] # <<>>
    BY <2>1 DEF Wants, ToSet
  <2> QED BY <2>4, <2>5, <2>7, <2>8, <2>9 DEF MailInv
<1>4. CASE Kept(b, kind)
  <2>1. queued' \in [Boxes -> Seq(Item)] /\ QueueInv'
    BY <1>4, KeptIs
  <2>2. waiters' = waiters /\ calls' = calls
    BY <1>4 DEF Kept
  <2>3. MailTyped' /\ BoundInv'
    BY <1>1, <2>1, <2>2 DEF MailInv, MailTyped, BoundInv
  <2>4. CallInv'
    BY <1>1, <1>2, <2>2 DEF MailInv, CallInv, Arrived
  <2>5. \A d \in Boxes : WaitersKept(d)'
    BY <1>1, <2>2 DEF WaitersKept, Waiting, Increasing, ToSet
  <2> QED BY <2>1, <2>2, <2>3, <2>4, <2>5 DEF MailInv
<1> QED BY <1>3, <1>4, DeliverIs

\* Nobody waits any more.
LEMMA RejectAllIs ==
    ASSUME IInv, RejectAll
    PROVE  /\ MailInv' /\ RequestInv'
           /\ pendingResponses' = {} /\ \A b \in Boxes : waiters'[b] = <<>>
<1>1. MailInv /\ RequestInv /\ calls \in Seq(Call)
  BY Together DEF MailInv, MailTyped
<1>2. /\ DOMAIN calls = 1 .. Len(calls) /\ Len(calls) \in Nat
      /\ \A c \in DOMAIN calls : calls[c] \in Call
  BY CallNumbers DEF IInv
<1>3. waiters' \in [Boxes -> Seq(Nat)] /\ \A b \in Boxes : waiters'[b] = <<>>
  BY DEF RejectAll
<1>4. DOMAIN calls' = DOMAIN calls
  BY DEF RejectAll
<1>5. \A c \in DOMAIN calls :
         /\ calls'[c] \in Call /\ calls'[c].box = calls[c].box
         /\ calls'[c].accepts = calls[c].accepts /\ calls'[c].got = calls[c].got
         /\ calls'[c].state # "waiting"
  BY <1>2 DEF RejectAll, Call
<1>6. calls' \in Seq(Call) /\ Len(calls') = Len(calls)
  <2>1. calls' = [c \in 1 .. Len(calls) |-> calls'[c]]
    BY <1>2 DEF RejectAll
  <2> QED BY <2>1, <1>2, <1>5
<1>7. MailTyped' /\ QueueInv' /\ BoundInv'
  BY <1>1, <1>3, <1>6
     DEF MailInv, MailTyped, QueueInv, Sorted, Arrived, BoundInv, RejectAll
<1>8. CallInv'
  BY <1>1, <1>4, <1>5 DEF MailInv, CallInv, Arrived, RejectAll
<1>9. \A b \in Boxes : WaitersKept(b)'
  <2> SUFFICES ASSUME NEW b \in Boxes PROVE WaitersKept(b)'
    OBVIOUS
  <2>1. Waiting(b)' = {}
    BY <1>4, <1>5 DEF Waiting
  <2>2. ToSet(waiters'[b]) = {} /\ Increasing(waiters'[b])
    BY <1>3 DEF ToSet, Increasing
  <2> QED BY <2>1, <2>2, WaitersKeptNext
<1>10. RequestInv'
  BY <1>1 DEF RejectAll, RequestInv, RequestTyped, RequestsKept
<1> QED BY <1>3, <1>7, <1>8, <1>9, <1>10 DEF MailInv, RejectAll

\* A request that settles leaves everything else alone.
LEMMA SettleKeeps ==
    ASSUME IInv, NEW id \in Ids, NEW how \in {"resolved", "rejected"}, Settle(id, how),
           UNCHANGED <<nextId, closed, fatalError>>,
           write' \in [Ids -> {"none", "busy", "done", "failed"}],
           answeredBy' \in [Ids -> Nat], UNCHANGED expectVars,
           received' \in {received, received + 1}, received' <= MaxReceived
    PROVE  IInv'
<1>1. MailInv'
  BY MailStays
<1>2. /\ pendingResponses' \subseteq pendingResponses
      /\ response' \in [Ids -> {"none", "waiting", "resolved", "rejected"}]
      /\ RequestsKept'
  BY SettleIs
<1>3. RequestInv'
  BY <1>2, Together DEF RequestInv, RequestTyped
<1>4. NobodyAfterFailure' /\ closed' \in BOOLEAN /\ fatalError' \in BOOLEAN
  BY <1>2, Together DEF NobodyAfterFailure, expectVars
<1> QED BY <1>1, <1>3, <1>4, TogetherNext

\* The steps of a request preserve the invariant.
LEMMA RequestSteps ==
    ASSUME IInv
    PROVE  /\ Request => IInv'
           /\ \A id \in Ids : SendReturns(id) \/ SendFails(id) \/ RequestTimeout(id) => IInv'
<1>1. /\ MailInv /\ RequestInv /\ NobodyAfterFailure
      /\ closed \in BOOLEAN /\ fatalError \in BOOLEAN
      /\ received \in Nat /\ received <= MaxReceived
      /\ MaxRequests \in Nat
  BY Together, Basics DEF IInv, Typed, BoundInv
<1>2. ASSUME Request PROVE IInv'
  <2>1. MailInv'
    BY <1>1, <1>2, MailStays DEF Request
  <2>2. nextId \in Ids
    BY <1>1, <1>2 DEF Request, Ids, RequestInv, RequestTyped
  <2>3. RequestInv'
    BY <1>1, <1>2, <2>2 DEF Request, RequestInv, RequestTyped, RequestsKept
  <2>4. NobodyAfterFailure' /\ closed' \in BOOLEAN /\ fatalError' \in BOOLEAN
    BY <1>1, <1>2 DEF Request, NobodyAfterFailure
  <2> QED BY <2>1, <2>3, <2>4, TogetherNext
<1>3. ASSUME NEW id \in Ids, SendReturns(id) PROVE IInv'
  <2>1. MailInv'
    BY <1>1, <1>3, MailStays DEF SendReturns
  <2>2. RequestInv' /\ NobodyAfterFailure' /\ closed' \in BOOLEAN /\ fatalError' \in BOOLEAN
    BY <1>1, <1>3 DEF SendReturns, RequestInv, RequestTyped, RequestsKept,
                      NobodyAfterFailure, expectVars
  <2> QED BY <2>1, <2>2, TogetherNext
<1>4. ASSUME NEW id \in Ids, SendFails(id) PROVE IInv'
  <2>1. write' \in [Ids -> {"none", "busy", "done", "failed"}]
    BY <1>1, <1>4 DEF SendFails, RequestInv, RequestTyped
  <2>2. CASE id \in pendingResponses
    BY <1>1, <1>4, <2>1, <2>2, SettleKeeps DEF SendFails, RequestInv, RequestTyped
  <2>3. CASE id \notin pendingResponses
    <3>1. MailInv'
      BY <1>1, <1>4, MailStays DEF SendFails
    <3>2. RequestInv' /\ NobodyAfterFailure' /\ closed' \in BOOLEAN /\ fatalError' \in BOOLEAN
      BY <1>1, <1>4, <2>1, <2>3 DEF SendFails, RequestInv, RequestTyped, RequestsKept,
                                    NobodyAfterFailure, expectVars
    <3> QED BY <3>1, <3>2, TogetherNext
  <2> QED BY <2>2, <2>3
<1>5. ASSUME NEW id \in Ids, RequestTimeout(id) PROVE IInv'
  BY <1>1, <1>5, SettleKeeps DEF RequestTimeout, RequestInv, RequestTyped
<1> QED BY <1>2, <1>3, <1>4, <1>5

\* So do the lines of the target, its failures and close.
LEMMA LineSteps ==
    ASSUME IInv
    PROVE  Line \/ TargetFails \/ Close => IInv'
<1>1. /\ MailInv /\ RequestInv /\ NobodyAfterFailure
      /\ closed \in BOOLEAN /\ fatalError \in BOOLEAN
      /\ received \in Nat /\ received <= MaxReceived /\ MaxReceived \in Nat
  BY Together, Basics DEF IInv, Typed, BoundInv
<1>2. ASSUME NEW kind \in EventKinds, EventLine(kind) PROVE IInv'
  <2>1. /\ MailInv'
        /\ (\A d \in Boxes : waiters[d] = <<>>) => \A d \in Boxes : waiters'[d] = <<>>
    BY <1>2, DeliverKeeps DEF EventLine, Boxes, KindsOf
  <2>2. RequestInv' /\ NobodyAfterFailure' /\ closed' \in BOOLEAN /\ fatalError' \in BOOLEAN
    BY <1>1, <1>2, <2>1 DEF EventLine, RequestInv, RequestTyped, RequestsKept,
                            NobodyAfterFailure, requestVars
  <2> QED BY <2>1, <2>2, TogetherNext
<1>3. ASSUME NEW id \in ResponseIds, NEW valid \in BOOLEAN, ResponseLine(id, valid)
      PROVE  IInv'
  <2>1. CASE id \in pendingResponses
    <3>1. id \in Ids /\ answeredBy' \in [Ids -> Nat]
      BY <1>1, <1>3, <2>1 DEF ResponseLine, RequestInv, RequestTyped
    <3>2. Settle(id, IF valid THEN "resolved" ELSE "rejected")
          /\ UNCHANGED <<nextId, write, expectVars, closed, fatalError>>
          /\ received' = received + 1 /\ received < MaxReceived
      BY <1>3, <2>1 DEF ResponseLine
    <3>3. received' <= MaxReceived
      BY <1>1, <3>2
    <3> QED BY <1>1, <3>1, <3>2, <3>3, SettleKeeps DEF RequestInv, RequestTyped
  <2>2. CASE id \notin pendingResponses
    <3>1. Deliver("responses", id) /\ UNCHANGED requestVars
          /\ received < MaxReceived /\ received' = received + 1
          /\ UNCHANGED <<closed, fatalError>>
      BY <1>3, <2>2 DEF ResponseLine
    <3>2. /\ MailInv'
          /\ (\A d \in Boxes : waiters[d] = <<>>) => \A d \in Boxes : waiters'[d] = <<>>
      BY <3>1, DeliverKeeps DEF Boxes, KindsOf
    <3>3. RequestInv' /\ NobodyAfterFailure' /\ closed' \in BOOLEAN /\ fatalError' \in BOOLEAN
      BY <1>1, <3>1, <3>2 DEF RequestInv, RequestTyped, RequestsKept,
                              NobodyAfterFailure, requestVars
    <3> QED BY <3>2, <3>3, TogetherNext
  <2> QED BY <2>1, <2>2
<1>4. ASSUME FailAll \/ Close PROVE IInv'
  <2>1. RejectAll /\ closed' \in BOOLEAN /\ fatalError' \in BOOLEAN
    BY <1>1, <1>4 DEF FailAll, Close
  <2>2. /\ MailInv' /\ RequestInv'
        /\ pendingResponses' = {} /\ \A b \in Boxes : waiters'[b] = <<>>
    BY <2>1, RejectAllIs
  <2> QED BY <2>1, <2>2, TogetherNext DEF NobodyAfterFailure
<1> QED BY <1>2, <1>3, <1>4 DEF Line, BadLine, TargetFails

\* A timer takes its own waiter out of the list.
LEMMA ExpectTimeoutIs ==
    ASSUME IInv, NEW c \in DOMAIN calls, ExpectTimeout(c)
    PROVE  LET b == calls[c].box IN
           /\ b \in Boxes /\ c \in Waiting(b)
           /\ calls' \in Seq(Call) /\ DOMAIN calls' = DOMAIN calls
           /\ Len(calls') = Len(calls)
           /\ calls'[c] = [calls[c] EXCEPT !.state = "rejected"]
           /\ \A d \in DOMAIN calls : d # c => calls'[d] = calls[d]
           /\ waiters' \in [Boxes -> Seq(Nat)]
           /\ Increasing(waiters'[b])
           /\ ToSet(waiters'[b]) = ToSet(waiters[b]) \ {c}
           /\ \A d \in Boxes : d # b => waiters'[d] = waiters[d]
<1> DEFINE b == calls[c].box
<1>1. calls[c] \in Call /\ calls \in Seq(Call) /\ b \in Boxes /\ c \in Nat
  BY CallNumbers DEF IInv, Typed, Call
<1>2. c \in Waiting(b)
  BY DEF Waiting, ExpectTimeout
<1>3. /\ waiters[b] \in Seq(Nat) /\ Increasing(waiters[b])
      /\ ToSet(waiters[b]) = Waiting(b) /\ waiters \in [Boxes -> Seq(Nat)]
  BY <1>1, Parts DEF IInv, WaitersKept, Typed
<1>4. PICK i \in DOMAIN waiters[b] : waiters[b][i] = c
  BY <1>2, <1>3 DEF ToSet
<1>5. /\ RemoveFirst(waiters[b], c) \in Seq(Nat)
      /\ Increasing(RemoveFirst(waiters[b], c))
      /\ ToSet(RemoveFirst(waiters[b], c)) = ToSet(waiters[b]) \ {c}
  BY <1>3, <1>4, RemoveFirstIs, IncreasingWithout
<1>6. /\ waiters'[b] = RemoveFirst(waiters[b], c)
      /\ waiters' \in [Boxes -> Seq(Nat)]
      /\ \A d \in Boxes : d # b => waiters'[d] = waiters[d]
  BY <1>1, <1>3, <1>5 DEF ExpectTimeout
<1>7. [calls[c] EXCEPT !.state = "rejected"] \in Call
  BY <1>1 DEF Call
<1>8. calls' = [calls EXCEPT ![c] = [@ EXCEPT !.state = "rejected"]]
  BY DEF ExpectTimeout
<1>9. /\ calls' \in Seq(Call) /\ DOMAIN calls' = DOMAIN calls /\ Len(calls') = Len(calls)
      /\ calls'[c] = [calls[c] EXCEPT !.state = "rejected"]
      /\ \A d \in DOMAIN calls : d # c => calls'[d] = calls[d]
  BY <1>1, <1>7, <1>8
<1> QED BY <1>1, <1>2, <1>5, <1>6, <1>9

\* So does the timer of an expectation.
LEMMA ExpectTimeoutKeeps ==
    ASSUME IInv, NEW c \in DOMAIN calls, ExpectTimeout(c)
    PROVE  IInv'
<1> DEFINE b == calls[c].box
<1>1. /\ MailInv /\ RequestInv /\ NobodyAfterFailure
      /\ closed \in BOOLEAN /\ fatalError \in BOOLEAN
      /\ \A d \in Boxes : WaitersKept(d)
  BY Together DEF MailInv
<1>2. /\ b \in Boxes /\ c \in Waiting(b)
      /\ calls' \in Seq(Call) /\ DOMAIN calls' = DOMAIN calls
      /\ Len(calls') = Len(calls)
      /\ calls'[c] = [calls[c] EXCEPT !.state = "rejected"]
      /\ \A d \in DOMAIN calls : d # c => calls'[d] = calls[d]
      /\ waiters' \in [Boxes -> Seq(Nat)]
      /\ Increasing(waiters'[b])
      /\ ToSet(waiters'[b]) = ToSet(waiters[b]) \ {c}
      /\ \A d \in Boxes : d # b => waiters'[d] = waiters[d]
  BY ExpectTimeoutIs
<1>3. calls[c] \in Call
  BY CallNumbers DEF IInv
<1>4. /\ calls'[c].box = b /\ calls'[c].accepts = calls[c].accepts
      /\ calls'[c].state = "rejected" /\ calls'[c].got = calls[c].got
  BY <1>2, <1>3 DEF Call
<1> HIDE DEF b
<1>5. UNCHANGED <<queued, received, fatalError, closed, requestVars>>
  BY DEF ExpectTimeout
<1>6. MailTyped' /\ BoundInv' /\ QueueInv'
  BY <1>1, <1>2, <1>5 DEF MailInv, MailTyped, BoundInv, QueueInv, Sorted, Arrived
<1>7. CallInv'
  <2> SUFFICES ASSUME NEW d \in DOMAIN calls
               PROVE  /\ calls'[d].accepts \subseteq KindsOf[calls'[d].box]
                      /\ calls'[d].state = "waiting" => calls'[d].got = NoItem
                      /\ calls'[d].got # NoItem =>
                            /\ calls'[d].got.n \in 1 .. received
                            /\ calls'[d].got.kind \in KindsOf[calls'[d].box]
    BY <1>2, <1>5 DEF CallInv, Arrived
  <2>1. CASE d = c
    BY <1>1, <1>4, <2>1 DEF MailInv, CallInv, Arrived, b
  <2>2. CASE d # c
    BY <1>1, <1>2, <2>2 DEF MailInv, CallInv, Arrived
  <2> QED BY <2>1, <2>2
<1>8. \A d \in Boxes : WaitersKept(d)'
  <2> SUFFICES ASSUME NEW d \in Boxes PROVE WaitersKept(d)'
    OBVIOUS
  <2>1. \A e \in DOMAIN calls' :
           (calls'[e].box = d /\ calls'[e].state = "waiting")
              <=> (e # c /\ calls[e].box = d /\ calls[e].state = "waiting")
    BY <1>2, <1>4
  <2>2. Waiting(d)' = Waiting(d) \ {c}
    BY <1>2, <2>1 DEF Waiting
  <2>3. CASE d = b
    BY <1>1, <1>2, <2>2, <2>3, WaitersKeptNext DEF WaitersKept
  <2>4. CASE d # b
    <3>1. c \notin Waiting(d)
      BY <2>4 DEF Waiting, b
    <3>2. waiters'[d] = waiters[d] /\ Waiting(d)' = Waiting(d)
      BY <1>2, <2>2, <2>4, <3>1
    <3> QED BY <1>1, <3>2, WaitersKeptNext DEF WaitersKept
  <2> QED BY <2>3, <2>4
<1>9. RequestInv' /\ closed' \in BOOLEAN /\ fatalError' \in BOOLEAN
  BY <1>1, <1>5 DEF RequestInv, RequestTyped, RequestsKept, requestVars
<1>10. ~fatalError
  <2>1. c \in ToSet(waiters[b])
    BY <1>1, <1>2 DEF WaitersKept
  <2>2. waiters[b] # <<>>
    BY <2>1 DEF ToSet
  <2> QED BY <1>1, <1>2, <2>2 DEF NobodyAfterFailure
<1>11. MailInv' /\ NobodyAfterFailure'
  BY <1>5, <1>6, <1>7, <1>8, <1>10 DEF MailInv, NobodyAfterFailure
<1> QED BY <1>9, <1>11, TogetherNext

\* A sorted queue stays so without one of its lines.
LEMMA SortedWithout ==
    ASSUME NEW q \in Seq(Item), Sorted(q), NEW i \in DOMAIN q
    PROVE  /\ RemoveAt(q, i) \in Seq(Item)
           /\ Sorted(RemoveAt(q, i))
           /\ ToSet(RemoveAt(q, i)) = ToSet(q) \ {q[i]}
<1>1. DOMAIN q = 1 .. Len(q) /\ Len(q) \in Nat /\ \A j \in DOMAIN q : q[j].n \in Nat
  <2>1. \A j \in 1 .. Len(q) : q[j] \in Item
    BY ElementOfSeq
  <2> QED BY <2>1 DEF Item
<1>2. \A j, k \in DOMAIN q : q[j] = q[k] => j = k
  BY <1>1 DEF Sorted
<1>3. /\ RemoveAt(q, i) \in Seq(Item) /\ Len(RemoveAt(q, i)) = Len(q) - 1
      /\ \A j \in 1 .. Len(q) - 1 : RemoveAt(q, i)[j] = IF j < i THEN q[j] ELSE q[j + 1]
  BY RemoveAtElements
<1>4. DOMAIN RemoveAt(q, i) = 1 .. Len(q) - 1
  BY <1>1, <1>3
<1>5. Sorted(RemoveAt(q, i))
  <2> SUFFICES ASSUME NEW j \in 1 .. Len(q) - 1, NEW k \in 1 .. Len(q) - 1, j < k
               PROVE  RemoveAt(q, i)[j].n < RemoveAt(q, i)[k].n
    BY <1>4 DEF Sorted
  <2> DEFINE old(n) == IF n < i THEN n ELSE n + 1
  <2>1. old(j) \in DOMAIN q /\ old(k) \in DOMAIN q /\ old(j) < old(k)
    BY <1>1
  <2>2. RemoveAt(q, i)[j] = q[old(j)] /\ RemoveAt(q, i)[k] = q[old(k)]
    BY <1>3
  <2> HIDE DEF old
  <2> QED BY <2>1, <2>2 DEF Sorted
<1> QED BY <1>2, <1>3, <1>5, TakenOut

\* A call takes the oldest line it accepts, or waits.
Finds(b, accepts) ==
    \E m \in UnreadIn(b) :
        /\ m.kind \in accepts
        /\ \A x \in UnreadIn(b) : x.kind \in accepts => m.n <= x.n
        /\ NewCall(b, accepts, "resolved", m)
        /\ UnreadIn(b)' = UnreadIn(b) \ {m}
        /\ Sorted(queued'[b]) /\ Len(queued'[b]) = Len(queued[b]) - 1
        /\ queued' \in [Boxes -> Seq(Item)]
        /\ \A d \in Boxes : d # b => queued'[d] = queued[d]
        /\ UNCHANGED waiters
Waits(b, accepts) ==
    /\ \A m \in UnreadIn(b) : m.kind \notin accepts
    /\ NewCall(b, accepts, "waiting", NoItem)
    /\ waiters' = [waiters EXCEPT ![b] = Append(@, Len(calls) + 1)]
    /\ UNCHANGED queued

\* The code's search is one of the two.
LEMMA ExpectIs ==
    ASSUME IInv, NEW b \in Boxes, NEW accepts, Expect(b, accepts)
    PROVE  Finds(b, accepts) \/ Waits(b, accepts)
<1> DEFINE i == FirstItem(b, accepts)
           q == queued[b]
<1>1. IF \E j \in DOMAIN q : q[j].kind \in accepts
      THEN /\ i \in DOMAIN q /\ i # 0 /\ q[i].kind \in accepts
           /\ \A j \in DOMAIN q : q[j].kind \in accepts => i <= j
      ELSE i = 0
  BY FirstItemIs DEF IInv
<1>2. /\ q \in Seq(Item) /\ DOMAIN q = 1 .. Len(q)
      /\ \A j \in DOMAIN q : q[j] \in Item
      /\ Sorted(q)
      /\ queued \in [Boxes -> Seq(Item)]
  BY CallNumbers DEF IInv, QueueInv, Typed
<1> HIDE DEF i
<1>3. CASE \E j \in DOMAIN q : q[j].kind \in accepts
  <2>1. /\ RemoveAt(q, i) \in Seq(Item) /\ Sorted(RemoveAt(q, i))
        /\ ToSet(RemoveAt(q, i)) = ToSet(q) \ {q[i]} /\ Len(RemoveAt(q, i)) = Len(q) - 1
    BY <1>1, <1>2, <1>3, SortedWithout, RemoveAtElements
  <2>2. /\ NewCall(b, accepts, "resolved", q[i])
        /\ queued' = [queued EXCEPT ![b] = RemoveAt(@, i)]
        /\ UNCHANGED waiters
    BY <1>1, <1>3 DEF Expect, i
  <2>3. /\ queued'[b] = RemoveAt(q, i) /\ queued' \in [Boxes -> Seq(Item)]
        /\ \A d \in Boxes : d # b => queued'[d] = queued[d]
    BY <1>2, <2>1, <2>2
  <2>4. q[i] \in UnreadIn(b) /\ UnreadIn(b)' = UnreadIn(b) \ {q[i]}
    BY <1>1, <1>3, <2>1, <2>3 DEF UnreadIn, ToSet
  <2>5. \A x \in UnreadIn(b) : x.kind \in accepts => q[i].n <= x.n
    <3> SUFFICES ASSUME NEW j \in DOMAIN q, q[j].kind \in accepts PROVE q[i].n <= q[j].n
      BY DEF UnreadIn, ToSet
    <3>1. i <= j /\ i \in Nat /\ j \in Nat /\ q[i].n \in Nat /\ q[j].n \in Nat /\ i \in DOMAIN q
      BY <1>1, <1>2, <1>3 DEF Item
    <3> QED BY <1>2, <3>1 DEF Sorted
  <2> QED BY <1>1, <1>3, <2>1, <2>2, <2>3, <2>4, <2>5 DEF Finds
<1>4. CASE ~\E j \in DOMAIN q : q[j].kind \in accepts
  <2>1. \A m \in UnreadIn(b) : m.kind \notin accepts
    BY <1>4 DEF UnreadIn, ToSet
  <2> QED BY <1>1, <1>4, <2>1 DEF Expect, Waits, i
<1> QED BY <1>3, <1>4

\* A call preserves the invariant.
LEMMA ExpectKeeps ==
    ASSUME IInv, NEW b \in Boxes, NEW accepts \in Predicates[b], Expect(b, accepts)
    PROVE  IInv'
<1> DEFINE new == Len(calls) + 1
<1>1. /\ MailInv /\ RequestInv /\ ~fatalError /\ closed \in BOOLEAN
      /\ \A d \in Boxes : WaitersKept(d)
      /\ MaxCalls \in Nat /\ Len(calls) < MaxCalls /\ Len(calls) \in Nat
      /\ DOMAIN calls = 1 .. Len(calls) /\ fatalError \in BOOLEAN /\ Typed
  BY Together, CallNumbers, Basics DEF MailInv, Expect, IInv
<1>2. accepts \subseteq KindsOf[b] /\ accepts \in SUBSET Kinds
  BY Basics
<1>3. UNCHANGED <<requestVars, received, closed, fatalError>>
  BY DEF Expect
<1>4. RequestInv' /\ NobodyAfterFailure' /\ closed' \in BOOLEAN /\ fatalError' \in BOOLEAN
  BY <1>1, <1>3 DEF RequestInv, RequestTyped, RequestsKept, NobodyAfterFailure, requestVars
<1>5. \A d \in Boxes : \A m \in UnreadIn(d) : m \in Item /\ Arrived(m, d)
  BY CallNumbers DEF IInv, QueueInv, UnreadIn, ToSet
<1>6. CASE Finds(b, accepts)
  <2>1. PICK m \in UnreadIn(b) :
          /\ NewCall(b, accepts, "resolved", m)
          /\ UnreadIn(b)' = UnreadIn(b) \ {m}
          /\ Sorted(queued'[b])
          /\ queued' \in [Boxes -> Seq(Item)]
          /\ \A d \in Boxes : d # b => queued'[d] = queued[d]
          /\ UNCHANGED waiters
    BY <1>6 DEF Finds
  <2>2. /\ calls' \in Seq(Call) /\ Len(calls') = new /\ DOMAIN calls' = DOMAIN calls \cup {new}
        /\ new \notin DOMAIN calls
        /\ calls'[new] = [box |-> b, accepts |-> accepts, state |-> "resolved", got |-> m]
        /\ \A c \in DOMAIN calls : calls'[c] = calls[c]
    <3>1. m \in Item \cup {NoItem} /\ "resolved" \in {"waiting", "resolved", "rejected"}
      BY <1>5
    <3>2. NewCall(b, accepts, "resolved", m)
      BY <2>1
    <3>3. ASSUME NEW item \in Item \cup {NoItem}, NewCall(b, accepts, "resolved", item)
          PROVE  /\ calls' \in Seq(Call) /\ Len(calls') = new
                 /\ DOMAIN calls' = DOMAIN calls \cup {new} /\ new \notin DOMAIN calls
                 /\ calls'[new] = [box |-> b, accepts |-> accepts, state |-> "resolved",
                                   got |-> item]
                 /\ \A c \in DOMAIN calls : calls'[c] = calls[c]
      BY <1>1, <1>2, <3>1, <3>3, NewCallIs
    <3> QED BY <3>1, <3>2, <3>3
  <2>3. MailTyped' /\ BoundInv'
    BY <1>1, <1>3, <2>1, <2>2 DEF MailInv, MailTyped, BoundInv
  <2>4. QueueInv'
    <3> SUFFICES ASSUME NEW d \in Boxes
                 PROVE  /\ Sorted(queued'[d])
                        /\ \A i \in DOMAIN queued'[d] : Arrived(queued'[d][i], d)
      BY <1>3 DEF QueueInv, Sorted, Arrived
    <3>1. CASE d = b
      <4>1. \A x \in ToSet(queued'[b]) : Arrived(x, b)
        BY <1>5, <2>1 DEF UnreadIn
      <4> QED BY <2>1, <3>1, <4>1 DEF ToSet
    <3>2. CASE d # b
      BY <1>1, <2>1, <3>2 DEF MailInv, QueueInv
    <3> QED BY <3>1, <3>2
  <2>5. CallInv'
    BY <1>1, <1>2, <1>3, <1>5, <2>2 DEF MailInv, CallInv, Arrived
  <2>6. ASSUME NEW d \in Boxes PROVE WaitersKept(d)'
    <3>1. Waiting(d)' = Waiting(d)
      BY <2>2 DEF Waiting
    <3> QED BY <1>1, <2>1, <3>1, WaitersKeptNext DEF WaitersKept
  <2>7. MailInv'
    BY <2>3, <2>4, <2>5, <2>6 DEF MailInv
  <2> QED BY <1>4, <2>7, TogetherNext
<1>7. CASE Waits(b, accepts)
  <2>1. /\ NewCall(b, accepts, "waiting", NoItem) /\ UNCHANGED queued
        /\ waiters' = [waiters EXCEPT ![b] = Append(@, new)]
    BY <1>7 DEF Waits
  <2>2. /\ calls' \in Seq(Call) /\ Len(calls') = new /\ DOMAIN calls' = DOMAIN calls \cup {new}
        /\ new \notin DOMAIN calls
        /\ calls'[new] = [box |-> b, accepts |-> accepts, state |-> "waiting", got |-> NoItem]
        /\ \A c \in DOMAIN calls : calls'[c] = calls[c]
    <3>1. NoItem \in Item \cup {NoItem} /\ "waiting" \in {"waiting", "resolved", "rejected"}
      OBVIOUS
    <3>2. Typed /\ accepts \in SUBSET Kinds /\ NewCall(b, accepts, "waiting", NoItem)
      BY <1>1, <1>2, <2>1
    <3> QED BY <3>1, <3>2, NewCallIs
  <2>3. /\ waiters[b] \in Seq(Nat) /\ Increasing(waiters[b])
        /\ ToSet(waiters[b]) = Waiting(b) /\ waiters \in [Boxes -> Seq(Nat)]
    BY <1>1 DEF MailInv, MailTyped, WaitersKept
  <2>4. \A c \in ToSet(waiters[b]) : c < new
    BY <1>1, <2>3 DEF Waiting
  <2>5. /\ Append(waiters[b], new) \in Seq(Nat) /\ Increasing(Append(waiters[b], new))
        /\ ToSet(Append(waiters[b], new)) = Waiting(b) \cup {new}
    <3>1. new \in Nat
      BY <1>1
    <3> HIDE DEF new
    <3> QED BY <2>3, <2>4, <3>1, IncreasingAppend
  <2>6. /\ waiters'[b] = Append(waiters[b], new) /\ waiters' \in [Boxes -> Seq(Nat)]
        /\ \A d \in Boxes : d # b => waiters'[d] = waiters[d]
    BY <2>1, <2>3, <2>5
  <2>7. MailTyped' /\ BoundInv' /\ QueueInv'
    BY <1>1, <1>3, <2>1, <2>2, <2>6
       DEF MailInv, MailTyped, BoundInv, QueueInv, Sorted, Arrived
  <2>8. CallInv'
    BY <1>1, <1>2, <1>3, <2>2 DEF MailInv, CallInv, Arrived
  <2>9. ASSUME NEW d \in Boxes PROVE WaitersKept(d)'
    <3>1. Waiting(d)' = IF d = b THEN Waiting(d) \cup {new} ELSE Waiting(d)
      BY <2>2 DEF Waiting
    <3>2. CASE d = b
      BY <2>5, <2>6, <3>1, <3>2, WaitersKeptNext
    <3>3. CASE d # b
      BY <1>1, <2>6, <3>1, <3>3, WaitersKeptNext DEF WaitersKept
    <3> QED BY <3>2, <3>3
  <2>10. MailInv'
    BY <2>7, <2>8, <2>9 DEF MailInv
  <2> QED BY <1>4, <2>10, TogetherNext
<1> QED BY <1>6, <1>7, ExpectIs

\* Every step preserves the invariant.
LEMMA InvNext == IInv /\ [Next]_vars => IInv'
<1> SUFFICES ASSUME IInv, [Next]_vars PROVE IInv'
  OBVIOUS
<1>1. CASE Request
  BY <1>1, RequestSteps
<1>2. CASE \E id \in Ids : SendReturns(id) \/ SendFails(id) \/ RequestTimeout(id)
  BY <1>2, RequestSteps
<1>3. CASE \E b \in Boxes : \E accepts \in Predicates[b] : Expect(b, accepts)
  BY <1>3, ExpectKeeps
<1>4. CASE \E c \in DOMAIN calls : ExpectTimeout(c)
  BY <1>4, ExpectTimeoutKeeps
<1>5. CASE Line \/ TargetFails \/ Close
  BY <1>5, LineSteps
<1>6. CASE UNCHANGED vars
  <2>1. MailInv'
    BY <1>6, MailStays, Together DEF vars, IInv, BoundInv
  <2>2. RequestInv' /\ NobodyAfterFailure' /\ closed' \in BOOLEAN /\ fatalError' \in BOOLEAN
    BY <1>6, Together DEF vars, requestVars, expectVars, RequestInv, RequestTyped,
                          RequestsKept, NobodyAfterFailure
  <2> QED BY <2>1, <2>2, TogetherNext
<1> QED BY <1>1, <1>2, <1>3, <1>4, <1>5, <1>6 DEF Next

\* The strengthened invariant holds in every reachable state: beside the
\* bookkeeping of driver.ts, what lies in a queue or was taken has arrived in
\* that box, and each queue is in the order of arrival.
THEOREM Invariance == Spec => []IInv
BY InvInit, InvNext, PTL DEF Spec

\* A promise that is open stands in the table or, once and in the order of the
\* calls, in the list of waiters of its box, whatever arrives, times out, fails
\* or is closed, for any number of calls; after a fatal error none is open.
THEOREM EveryoneIsRemembered == Spec => []NobodyIsForgotten
<1>1. IInv => NobodyIsForgotten
  BY DEF IInv
<1> QED BY <1>1, Invariance, PTL

-----------------------------------------------------------------------------
(* Each box is a mailbox.                                                  *)

Box(b) == INSTANCE Mailbox WITH
    Kinds <- KindsOf[b], Numbers <- 1 .. MaxReceived + MaxCalls, unread <- UnreadIn(b),
    readers <- ReadersOf(b), taken <- TakenFrom(b)

\* The element that came first is the one with the least number.
LEMMA FirstIs ==
    ASSUME NEW b, NEW S, NEW x \in S, x.n \in Nat,
           \A y \in S : y # x => y.n \in Nat /\ x.n < y.n
    PROVE  Box(b)!First(S) = x
<1>1. \A y \in S : x.n <= y.n
  OBVIOUS
<1>2. \A z \in S : (\A y \in S : z.n <= y.n) => z = x
  OBVIOUS
<1> QED BY <1>1, <1>2 DEF Box!First

\* What the lists hold: waiting calls of the box, and lines that have arrived.
LEMMA Held ==
    ASSUME IInv, NEW b \in Boxes
    PROVE  /\ \A c \in ToSet(waiters[b]) :
                  /\ c \in DOMAIN calls /\ calls[c].box = b /\ calls[c].state = "waiting"
                  /\ calls[c].got = NoItem
           /\ \A c \in DOMAIN calls : /\ c \in Nat /\ c >= 1 /\ c <= Len(calls)
                                      /\ c \in 1 .. MaxReceived + MaxCalls
                                      /\ calls[c].accepts \subseteq KindsOf[calls[c].box]
           /\ \A m \in UnreadIn(b) : m \in Item /\ Arrived(m, b) /\ m # NoItem
           /\ \A m, x \in UnreadIn(b) : m # x => m.n # x.n
           /\ Len(calls) \in Nat /\ Len(calls) <= MaxCalls
           /\ received \in Nat /\ MaxCalls \in Nat /\ MaxReceived \in Nat
           /\ received <= MaxReceived
<1>1. /\ MailInv /\ WaitersKept(b)
      /\ received \in Nat /\ MaxCalls \in Nat /\ MaxReceived \in Nat
      /\ Len(calls) \in Nat /\ Len(calls) <= MaxCalls /\ received <= MaxReceived
  BY Together, CallNumbers, Basics DEF IInv, MailInv, MailTyped, BoundInv
<1>2. \A c \in ToSet(waiters[b]) : c \in Waiting(b)
  BY <1>1 DEF WaitersKept
<1>3. \A c \in ToSet(waiters[b]) :
         /\ c \in DOMAIN calls /\ calls[c].box = b /\ calls[c].state = "waiting"
         /\ calls[c].got = NoItem
  BY <1>1, <1>2 DEF Waiting, MailInv, CallInv
<1>4. \A c \in DOMAIN calls : c \in Nat /\ c >= 1 /\ c <= Len(calls)
  BY CallNumbers DEF IInv
<1>5. \A c \in DOMAIN calls : c \in 1 .. MaxReceived + MaxCalls
  BY <1>1, <1>4
<1>6. \A i \in DOMAIN queued[b] : queued[b][i] \in Item /\ Arrived(queued[b][i], b)
  BY <1>1, CallNumbers DEF IInv, MailInv, QueueInv
<1>7. \A m \in UnreadIn(b) : m \in Item /\ Arrived(m, b)
  BY <1>6 DEF UnreadIn, ToSet
<1>8. \A m : Arrived(m, b) => m # NoItem
  BY <1>1 DEF Arrived, NoItem
<1>9. \A m, x \in UnreadIn(b) : m # x => m.n # x.n
  <2> SUFFICES ASSUME NEW i \in DOMAIN queued[b], NEW j \in DOMAIN queued[b],
                      queued[b][i].n = queued[b][j].n
               PROVE  i = j
    BY DEF UnreadIn, ToSet
  <2>1. Sorted(queued[b]) /\ i \in Nat /\ j \in Nat /\ queued[b][i].n \in Nat
    BY <1>1, <1>6, CallNumbers DEF MailInv, QueueInv, Item, IInv
  <2> QED BY <2>1 DEF Sorted
<1>10. \A c \in DOMAIN calls : calls[c].accepts \subseteq KindsOf[calls[c].box]
  BY <1>1 DEF MailInv, CallInv
<1> QED BY <1>1, <1>3, <1>4, <1>5, <1>7, <1>8, <1>9, <1>10

\* A step that touches no call, queue or list of a box is none of the mailbox.
LEMMA OtherBox ==
    ASSUME IInv, NEW b \in Boxes, DOMAIN calls \subseteq DOMAIN calls',
           \A c \in DOMAIN calls' :
              \/ c \in DOMAIN calls /\ calls'[c] = calls[c]
              \/ calls'[c].box # b /\ (c \in DOMAIN calls => calls[c].box # b),
           queued'[b] = queued[b], waiters'[b] = waiters[b]
    PROVE  UNCHANGED Box(b)!vars
<1>1. UnreadIn(b)' = UnreadIn(b)
  BY DEF UnreadIn, ToSet
<1>2. \A c \in ToSet(waiters[b]) : calls'[c] = calls[c]
  BY Held
<1>3. ReadersOf(b)' = ReadersOf(b)
  BY <1>2 DEF ReadersOf, Reader, ToSet
<1>4. TakenFrom(b)' = TakenFrom(b)
  BY DEF TakenFrom, Reader
<1> QED BY <1>1, <1>3, <1>4 DEF Box!vars

\* Waiters that leave without a line have given up.
LEMMA LeavingIsGivingUp ==
    ASSUME IInv, NEW b \in Boxes, DOMAIN calls' = DOMAIN calls,
           \A c \in DOMAIN calls : /\ calls'[c].box = calls[c].box
                                   /\ calls'[c].accepts = calls[c].accepts
                                   /\ calls'[c].got = calls[c].got,
           queued'[b] = queued[b], ToSet(waiters'[b]) \subseteq ToSet(waiters[b])
    PROVE  Box(b)!Next
<1>1. UnreadIn(b)' = UnreadIn(b)
  BY DEF UnreadIn, ToSet
<1>2. \A c \in DOMAIN calls : Reader(c)' = Reader(c)
  BY DEF Reader
<1>3. ReadersOf(b)' \subseteq ReadersOf(b)
  <2>1. \A c \in ToSet(waiters'[b]) : c \in ToSet(waiters[b]) /\ Reader(c)' = Reader(c)
    BY <1>2, Held
  <2>2. ReadersOf(b)' = {Reader(c)' : c \in ToSet(waiters'[b])}
    BY DEF ReadersOf, ToSet
  <2> QED BY <2>1, <2>2 DEF ReadersOf
<1>4. TakenFrom(b)' = TakenFrom(b)
  BY DEF TakenFrom, Reader
<1> QED BY <1>1, <1>3, <1>4 DEF Box!Next, Box!GiveUp

\* A line that arrives is posted.
LEMMA DeliverIsPost ==
    ASSUME IInv, NEW b \in Boxes, NEW kind \in KindsOf[b], Deliver(b, kind),
           received < MaxReceived
    PROVE  Box(b)!Next
<1> DEFINE m == Arriving(kind)
<1>1. m.n = received + 1 /\ m.kind = kind /\ m # NoItem /\ received \in Nat
  BY Held DEF Arriving, NoItem
<1>2. m \in Box(b)!Message
  <2>1. received + 1 \in 1 .. MaxReceived + MaxCalls
    BY <1>1, Held
  <2> QED BY <2>1 DEF Box!Message, Arriving
<1>3. \A x \in UnreadIn(b) \cup {t[2] : t \in TakenFrom(b)} : x.n < m.n
  <2>1. \A x \in UnreadIn(b) : x.n < m.n
    BY <1>1, Held DEF Arrived
  <2>2. ASSUME NEW c \in DOMAIN calls, calls[c].box = b, calls[c].got # NoItem
        PROVE  calls[c].got.n < m.n
    BY <1>1, <2>2 DEF IInv, CallInv, Arrived
  <2>3. \A t \in TakenFrom(b) : t[2].n < m.n
    BY <2>2 DEF TakenFrom
  <2> QED BY <2>1, <2>3
<1>4. Box(b)!Wanting(m) = {Reader(c) : c \in Wants(b, kind)}
  BY <1>1 DEF Box!Wanting, ReadersOf, Wants, Reader
<1>5. CASE Kept(b, kind)
  <2>1. Box(b)!Wanting(m) = {}
    BY <1>4, <1>5 DEF Kept
  <2>2. queued[b] \in Seq(Item) /\ m \in Item /\ queued \in [Boxes -> Seq(Item)]
    BY <1>1, Basics DEF IInv, Typed, Arriving, Item
  <2>3. UnreadIn(b)' = UnreadIn(b) \cup {m}
    <3>1. queued'[b] = Append(queued[b], m)
      BY <1>5, <2>2 DEF Kept
    <3>2. /\ DOMAIN Append(queued[b], m) = 1 .. Len(queued[b]) + 1
          /\ Append(queued[b], m)[Len(queued[b]) + 1] = m
          /\ \A i \in 1 .. Len(queued[b]) : Append(queued[b], m)[i] = queued[b][i]
          /\ DOMAIN queued[b] = 1 .. Len(queued[b]) /\ Len(queued[b]) \in Nat
      BY <2>2, AppendProperties
    <3> HIDE DEF m
    <3> QED BY <3>1, <3>2 DEF UnreadIn, ToSet
  <2>4. UNCHANGED <<ReadersOf(b), TakenFrom(b)>>
    BY <1>5 DEF Kept, ReadersOf, TakenFrom, Reader, ToSet
  <2>5. Box(b)!Post(m)
    BY <1>3, <2>1, <2>3, <2>4 DEF Box!Post
  <2> QED BY <1>2, <2>5 DEF Box!Next
<1>6. CASE Taken(b, kind)
  <2>1. PICK c \in Wants(b, kind) \cap Waiting(b) :
          /\ \A d \in Wants(b, kind) : c <= d
          /\ DOMAIN calls' = DOMAIN calls
          /\ calls'[c] = [calls[c] EXCEPT !.state = "resolved", !.got = m]
          /\ \A d \in DOMAIN calls : d # c => calls'[d] = calls[d]
          /\ ToSet(waiters'[b]) = ToSet(waiters[b]) \ {c}
          /\ queued' = queued
    BY <1>6, TakenIs
  <2>2. c \in DOMAIN calls /\ calls[c] \in Call /\ calls[c].box = b /\ calls[c].got = NoItem
    BY CallNumbers, Held DEF IInv, Wants
  <2>3. /\ calls'[c].accepts = calls[c].accepts /\ calls'[c].got = m /\ calls'[c].box = b
        /\ \A d \in DOMAIN calls : Reader(d)' = Reader(d)
    BY <2>1, <2>2 DEF Call, Reader
  <2>4. Box(b)!First(Box(b)!Wanting(m)) = Reader(c)
    <3>1. \A d \in Wants(b, kind) : d \in Nat /\ c <= d
      BY <2>1, Held DEF Wants
    <3>2. \A y \in Box(b)!Wanting(m) : y # Reader(c) => y.n \in Nat /\ Reader(c).n < y.n
      BY <1>4, <2>1, <3>1 DEF Reader
    <3>3. Reader(c) \in Box(b)!Wanting(m) /\ Reader(c).n \in Nat
      BY <1>4, <2>1, <3>1 DEF Reader
    <3> QED BY <3>2, <3>3, FirstIs
  <2>5. Box(b)!Wanting(m) # {}
    BY <1>4, <2>1
  <2>6. UnreadIn(b)' = UnreadIn(b)
    BY <2>1 DEF UnreadIn, ToSet
  <2>7. ReadersOf(b)' = ReadersOf(b) \ {Reader(c)}
    <3>1. ReadersOf(b)' = {Reader(d)' : d \in ToSet(waiters'[b])}
      BY DEF ReadersOf, ToSet
    <3>2. \A d \in ToSet(waiters[b]) : Reader(d)' = Reader(d)
      BY <2>3, Held
    <3>3. ReadersOf(b)' = {Reader(d) : d \in ToSet(waiters[b]) \ {c}}
      BY <2>1, <3>1, <3>2
    <3>4. \A d, e : Reader(d) = Reader(e) => d = e
      BY DEF Reader
    <3> QED BY <3>3, <3>4 DEF ReadersOf
  <2>8. TakenFrom(b)' = TakenFrom(b) \cup {<<Reader(c), m>>}
    <3>1. TakenFrom(b)' = {<<Reader(d)', calls'[d].got>> :
             d \in {e \in DOMAIN calls' : calls'[e].box = b /\ calls'[e].got # NoItem}}
      BY DEF TakenFrom
    <3>2. {e \in DOMAIN calls' : calls'[e].box = b /\ calls'[e].got # NoItem}
            = {e \in DOMAIN calls : calls[e].box = b /\ calls[e].got # NoItem} \cup {c}
      BY <1>1, <2>1, <2>2, <2>3
    <3>3. \A d \in {e \in DOMAIN calls : calls[e].box = b /\ calls[e].got # NoItem} :
             Reader(d)' = Reader(d) /\ calls'[d].got = calls[d].got
      BY <2>1, <2>2, <2>3
    <3> HIDE DEF m
    <3> QED BY <2>2, <2>3, <3>1, <3>2, <3>3 DEF TakenFrom
  <2>9. Box(b)!Post(m)
    BY <1>3, <2>4, <2>5, <2>6, <2>7, <2>8 DEF Box!Post
  <2> QED BY <1>2, <2>9 DEF Box!Next
<1> QED BY <1>5, <1>6, DeliverIs

\* A call asks, and takes the oldest line it wants if there is one.
LEMMA ExpectIsAsk ==
    ASSUME IInv, NEW b \in Boxes, NEW accepts \in Predicates[b], Expect(b, accepts)
    PROVE  Box(b)!Next
<1>0. PICK new \in Nat : new = Len(calls) + 1
  BY Held
<1> DEFINE r == [n |-> new, accepts |-> accepts]
<1>1. /\ accepts \in SUBSET Kinds /\ accepts \subseteq KindsOf[b] /\ Typed
      /\ Len(calls) < MaxCalls /\ r.n = new /\ r.accepts = accepts
  BY Basics DEF Expect, IInv
<1>2. r \in Box(b)!Reader
  <2>1. new \in 1 .. MaxReceived + MaxCalls
    BY <1>0, <1>1, Held
  <2> QED BY <1>1, <2>1 DEF Box!Reader
<1>3. \A x \in ReadersOf(b) \cup {t[1] : t \in TakenFrom(b)} : x.n < r.n
  <2>1. \A c \in DOMAIN calls : Reader(c).n < r.n
    BY <1>0, <1>1, Held DEF Reader
  <2>2. \A x \in ReadersOf(b) : x.n < r.n
    BY <2>1, Held DEF ReadersOf
  <2>3. \A t \in TakenFrom(b) : t[1].n < r.n
    BY <2>1 DEF TakenFrom
  <2> QED BY <2>2, <2>3
<1>4. Box(b)!Wanted(r) = {m \in UnreadIn(b) : m.kind \in accepts}
  BY <1>1 DEF Box!Wanted
<1>5. ASSUME NEW state \in {"waiting", "resolved", "rejected"}, NEW item \in Item \cup {NoItem},
             NewCall(b, accepts, state, item)
      PROVE  /\ DOMAIN calls' = DOMAIN calls \cup {new} /\ new \notin DOMAIN calls
             /\ calls'[new].box = b /\ calls'[new].got = item /\ Reader(new)' = r
             /\ \A c \in DOMAIN calls : calls'[c] = calls[c] /\ Reader(c)' = Reader(c)
  <2>1. /\ DOMAIN calls' = DOMAIN calls \cup {new} /\ new \notin DOMAIN calls
        /\ calls'[new] = [box |-> b, accepts |-> accepts, state |-> state, got |-> item]
        /\ \A c \in DOMAIN calls : calls'[c] = calls[c]
    BY <1>0, <1>1, <1>5, NewCallIs DEF NewCall
  <2> QED BY <2>1 DEF Reader
<1> HIDE DEF r
<1>6. CASE Finds(b, accepts)
  <2>1. PICK m \in UnreadIn(b) :
          /\ m.kind \in accepts
          /\ \A x \in UnreadIn(b) : x.kind \in accepts => m.n <= x.n
          /\ NewCall(b, accepts, "resolved", m)
          /\ UnreadIn(b)' = UnreadIn(b) \ {m}
          /\ UNCHANGED waiters
    BY <1>6 DEF Finds
  <2>2. m \in Item \cup {NoItem} /\ m # NoItem /\ NewCall(b, accepts, "resolved", m)
    BY <2>1, Held
  <2>3. /\ DOMAIN calls' = DOMAIN calls \cup {new} /\ new \notin DOMAIN calls
        /\ calls'[new].box = b /\ calls'[new].got = m /\ Reader(new)' = r
        /\ \A c \in DOMAIN calls : calls'[c] = calls[c] /\ Reader(c)' = Reader(c)
    BY <1>5, <2>2
  <2>4. Box(b)!First(Box(b)!Wanted(r)) = m /\ Box(b)!Wanted(r) # {}
    <3>1. m \in Box(b)!Wanted(r) /\ m.n \in Nat
      BY <1>4, <2>1, Held DEF Item
    <3>2. \A y \in Box(b)!Wanted(r) : y # m => y.n \in Nat /\ m.n < y.n
      <4> SUFFICES ASSUME NEW y \in UnreadIn(b), y.kind \in accepts, y # m
                   PROVE  y.n \in Nat /\ m.n < y.n
        BY <1>4
      <4>1. m.n # y.n /\ y.n \in Nat /\ m.n <= y.n
        BY <2>1, Held DEF Item
      <4> QED BY <3>1, <4>1
    <3> QED BY <3>1, <3>2, FirstIs
  <2>5. ReadersOf(b)' = ReadersOf(b)
    <3>1. ReadersOf(b)' = {Reader(c)' : c \in ToSet(waiters[b])}
      BY <2>1 DEF ReadersOf, ToSet
    <3>2. \A c \in ToSet(waiters[b]) : Reader(c)' = Reader(c)
      BY <2>3, Held
    <3> QED BY <3>1, <3>2 DEF ReadersOf
  <2>6. TakenFrom(b)' = TakenFrom(b) \cup {<<r, m>>}
    <3>1. TakenFrom(b)' = {<<Reader(d)', calls'[d].got>> :
             d \in {e \in DOMAIN calls' : calls'[e].box = b /\ calls'[e].got # NoItem}}
      BY DEF TakenFrom
    <3>2. {e \in DOMAIN calls' : calls'[e].box = b /\ calls'[e].got # NoItem}
            = {e \in DOMAIN calls : calls[e].box = b /\ calls[e].got # NoItem} \cup {new}
      BY <2>2, <2>3
    <3>3. \A d \in {e \in DOMAIN calls : calls[e].box = b /\ calls[e].got # NoItem} :
             Reader(d)' = Reader(d) /\ calls'[d].got = calls[d].got
      BY <2>3
    <3>4. Reader(new)' = r /\ calls'[new].got = m
      BY <2>3
    <3> DEFINE D == {e \in DOMAIN calls : calls[e].box = b /\ calls[e].got # NoItem}
    <3>5. TakenFrom(b) = {<<Reader(d), calls[d].got>> : d \in D}
      BY DEF TakenFrom
    <3>6. TakenFrom(b)' = {<<Reader(d)', calls'[d].got>> : d \in D \cup {new}}
      BY <3>1, <3>2
    <3>7. \A d \in D : Reader(d)' = Reader(d) /\ calls'[d].got = calls[d].got
      BY <3>3
    <3> HIDE DEF D
    <3> QED BY <3>4, <3>5, <3>6, <3>7
  <2>7. Box(b)!Ask(r)
    BY <1>3, <2>1, <2>4, <2>5, <2>6 DEF Box!Ask
  <2> QED BY <1>2, <2>7 DEF Box!Next
<1>7. CASE Waits(b, accepts)
  <2>1. /\ NewCall(b, accepts, "waiting", NoItem) /\ UNCHANGED queued
        /\ waiters' = [waiters EXCEPT ![b] = Append(@, new)]
        /\ waiters \in [Boxes -> Seq(Nat)] /\ waiters[b] \in Seq(Nat)
        /\ Increasing(waiters[b])
    BY <1>0, <1>1, <1>7, Parts, Held DEF Waits, IInv, Typed, WaitersKept
  <2>2. /\ DOMAIN calls' = DOMAIN calls \cup {new} /\ new \notin DOMAIN calls
        /\ calls'[new].box = b /\ calls'[new].got = NoItem /\ Reader(new)' = r
        /\ \A c \in DOMAIN calls : calls'[c] = calls[c] /\ Reader(c)' = Reader(c)
    BY <1>5, <2>1
  <2>3. ToSet(waiters'[b]) = ToSet(waiters[b]) \cup {new}
    <3>1. \A c \in ToSet(waiters[b]) : c < new
      BY <1>0, Held
    <3>2. waiters'[b] = Append(waiters[b], new)
      BY <2>1
    <3> QED BY <2>1, <3>1, <3>2, IncreasingAppend
  <2>4. Box(b)!Wanted(r) = {}
    BY <1>4, <1>7 DEF Waits
  <2>5. ReadersOf(b)' = ReadersOf(b) \cup {r}
    <3>1. ReadersOf(b)' = {Reader(c)' : c \in ToSet(waiters'[b])}
      BY DEF ReadersOf, ToSet
    <3>2. \A c \in ToSet(waiters[b]) : Reader(c)' = Reader(c)
      BY <2>2, Held
    <3>3. Reader(new)' = r
      BY <2>2
    <3>4. ReadersOf(b)' = {Reader(c)' : c \in ToSet(waiters[b]) \cup {new}}
      BY <2>3, <3>1
    <3> QED BY <3>2, <3>3, <3>4 DEF ReadersOf
  <2>6. TakenFrom(b)' = TakenFrom(b)
    BY <2>2 DEF TakenFrom
  <2>7. UnreadIn(b)' = UnreadIn(b)
    BY <2>1 DEF UnreadIn, ToSet
  <2>8. Box(b)!Ask(r)
    BY <1>3, <2>4, <2>5, <2>6, <2>7 DEF Box!Ask
  <2> QED BY <1>2, <2>8 DEF Box!Next
<1> QED BY <1>6, <1>7, ExpectIs

\* A step of the harness is a step of each box or none.
LEMMA BoxStep ==
    ASSUME IInv, [Next]_vars, NEW b \in Boxes
    PROVE  [Box(b)!Next]_(Box(b)!vars)
<1>1. /\ DOMAIN calls = 1 .. Len(calls) /\ Typed
      /\ \A c \in DOMAIN calls : calls[c] \in Call
  BY CallNumbers DEF IInv
<1>2. ASSUME UNCHANGED expectVars PROVE UNCHANGED Box(b)!vars
  BY <1>2, OtherBox DEF expectVars
<1>3. ASSUME NEW d \in Boxes, NEW kind \in KindsOf[d], Deliver(d, kind), received < MaxReceived
      PROVE  [Box(b)!Next]_(Box(b)!vars)
  <2>1. CASE d = b
    BY <1>3, <2>1, DeliverIsPost
  <2>2. CASE d # b /\ Kept(d, kind)
    BY <1>1, <2>2, OtherBox DEF Kept, Typed
  <2>3. CASE d # b /\ Taken(d, kind)
    <3>1. PICK c \in Wants(d, kind) \cap Waiting(d) :
            /\ DOMAIN calls' = DOMAIN calls
            /\ calls'[c] = [calls[c] EXCEPT !.state = "resolved", !.got = Arriving(kind)]
            /\ \A e \in DOMAIN calls : e # c => calls'[e] = calls[e]
            /\ \A e \in Boxes : e # d => waiters'[e] = waiters[e]
            /\ queued' = queued
      BY <1>3, <2>3, TakenIs
    <3>2. c \in DOMAIN calls /\ calls[c].box = d /\ calls'[c].box = d
      BY <1>1, <3>1 DEF Waiting, Call
    <3> QED BY <2>3, <3>1, <3>2, OtherBox
  <2> QED BY <1>3, <2>1, <2>2, <2>3, DeliverIs
<1>4. ASSUME RejectAll PROVE Box(b)!Next
  <2>1. DOMAIN calls' = DOMAIN calls /\ queued'[b] = queued[b] /\ waiters'[b] = <<>>
    BY <1>4 DEF RejectAll
  <2>2. \A c \in DOMAIN calls : /\ calls'[c].box = calls[c].box
                                /\ calls'[c].accepts = calls[c].accepts
                                /\ calls'[c].got = calls[c].got
    BY <1>1, <1>4 DEF RejectAll, Call
  <2>3. ToSet(waiters'[b]) \subseteq ToSet(waiters[b])
    BY <2>1 DEF ToSet
  <2> QED BY <2>1, <2>2, <2>3, LeavingIsGivingUp
<1>5. ASSUME NEW c \in DOMAIN calls, ExpectTimeout(c) PROVE [Box(b)!Next]_(Box(b)!vars)
  <2> DEFINE d == calls[c].box
  <2>1. /\ d \in Boxes
        /\ DOMAIN calls' = DOMAIN calls
        /\ calls'[c] = [calls[c] EXCEPT !.state = "rejected"]
        /\ \A e \in DOMAIN calls : e # c => calls'[e] = calls[e]
        /\ ToSet(waiters'[d]) = ToSet(waiters[d]) \ {c}
        /\ \A e \in Boxes : e # d => waiters'[e] = waiters[e]
        /\ queued' = queued
    BY <1>5, ExpectTimeoutIs DEF ExpectTimeout
  <2>2. /\ calls'[c].box = d /\ calls'[c].accepts = calls[c].accepts
        /\ calls'[c].got = calls[c].got
    BY <1>1, <2>1 DEF Call
  <2>3. CASE d = b
    BY <2>1, <2>2, <2>3, LeavingIsGivingUp
  <2>4. CASE d # b
    BY <2>1, <2>2, <2>4, OtherBox
  <2> QED BY <2>3, <2>4
<1>6. ASSUME NEW d \in Boxes, NEW accepts \in Predicates[d], Expect(d, accepts)
      PROVE  [Box(b)!Next]_(Box(b)!vars)
  <2>1. CASE d = b
    BY <1>6, <2>1, ExpectIsAsk
  <2>2. CASE d # b
    <3>1. accepts \in SUBSET Kinds
      BY Basics
    <3>2. \E state \in {"waiting", "resolved", "rejected"}, item \in Item \cup {NoItem} :
             NewCall(d, accepts, state, item)
      <4>1. CASE Finds(d, accepts)
        <5>1. PICK m \in UnreadIn(d) : NewCall(d, accepts, "resolved", m)
          BY <4>1 DEF Finds
        <5>2. m \in Item
          BY Held
        <5> QED BY <5>1, <5>2
      <4>2. CASE Waits(d, accepts)
        BY <4>2 DEF Waits
      <4> QED BY <1>6, <4>1, <4>2, ExpectIs
    <3>3. PICK state \in {"waiting", "resolved", "rejected"}, item \in Item \cup {NoItem} :
             NewCall(d, accepts, state, item)
      BY <3>2
    <3>4. /\ DOMAIN calls' = DOMAIN calls \cup {Len(calls) + 1}
          /\ Len(calls) + 1 \notin DOMAIN calls
          /\ calls'[Len(calls) + 1].box = d
          /\ \A c \in DOMAIN calls : calls'[c] = calls[c]
      BY <1>1, <3>1, <3>3, NewCallIs DEF NewCall
    <3>5. queued'[b] = queued[b] /\ waiters'[b] = waiters[b]
      BY <1>1, <1>6, <2>2, ExpectIs DEF Finds, Waits, Typed
    <3> QED BY <2>2, <3>4, <3>5, OtherBox
  <2> QED BY <2>1, <2>2
<1>7. ASSUME NEW id \in ResponseIds, NEW valid \in BOOLEAN, ResponseLine(id, valid)
      PROVE  [Box(b)!Next]_(Box(b)!vars)
  <2>1. CASE id \in pendingResponses
    BY <1>2, <1>7, <2>1 DEF ResponseLine
  <2>2. CASE id \notin pendingResponses
    BY <1>3, <1>7, <2>2 DEF ResponseLine, Boxes, KindsOf
  <2> QED BY <2>1, <2>2
<1>8. ASSUME NEW kind \in EventKinds, EventLine(kind) PROVE [Box(b)!Next]_(Box(b)!vars)
  BY <1>3, <1>8 DEF EventLine, Boxes, KindsOf
<1>9. CASE \/ UNCHANGED vars \/ Request
           \/ \E id \in Ids : SendReturns(id) \/ SendFails(id) \/ RequestTimeout(id)
  <2>1. UNCHANGED expectVars
    BY <1>9 DEF vars, expectVars, Request, SendReturns, SendFails, RequestTimeout
  <2> QED BY <1>2, <2>1
<1>10. CASE Line \/ TargetFails \/ Close
  BY <1>4, <1>7, <1>8, <1>10 DEF Line, BadLine, TargetFails, FailAll, Close
<1> QED BY <1>5, <1>6, <1>9, <1>10 DEF Next

\* Boxes start empty.
LEMMA BoxInit ==
    ASSUME Init, NEW b \in Boxes
    PROVE  Box(b)!Init
BY DEF Init, Box!Init, UnreadIn, ReadersOf, TakenFrom, ToSet

\* The two mailboxes of the module are the boxes.
LEMMA EventsIsABox ==
    /\ Box("events")!Init => Events!Init
    /\ [Box("events")!Next]_(Box("events")!vars) => [Events!Next]_(Events!vars)
<1>1. KindsOf["events"] = EventKinds
  BY DEF KindsOf
<1> QED BY <1>1 DEF Box!Init, Box!Next, Box!vars, Box!Post, Box!Ask, Box!GiveUp, Box!Message,
    Box!Reader, Box!First, Box!Wanting, Box!Wanted, Events!Init, Events!Next, Events!vars,
    Events!Post, Events!Ask, Events!GiveUp, Events!Message, Events!Reader, Events!First,
    Events!Wanting, Events!Wanted

LEMMA ResponsesIsABox ==
    /\ Box("responses")!Init => Responses!Init
    /\ [Box("responses")!Next]_(Box("responses")!vars) => [Responses!Next]_(Responses!vars)
<1>1. KindsOf["responses"] = ResponseIds
  BY DEF KindsOf
<1> QED BY <1>1 DEF Box!Init, Box!Next, Box!vars, Box!Post, Box!Ask, Box!GiveUp, Box!Message,
    Box!Reader, Box!First, Box!Wanting, Box!Wanted, Responses!Init, Responses!Next,
    Responses!vars, Responses!Post, Responses!Ask, Responses!GiveUp, Responses!Message,
    Responses!Reader, Responses!First, Responses!Wanting, Responses!Wanted

\* The queues and lists of waiters of driver.ts, with timers, failures and close
\* going on around them, are two mailboxes: each line goes to the longest
\* waiting call that wants it, each call gets the oldest line it wants, and no
\* line is lost to a call that gave up.
THEOREM Mail == Spec => ExpectationsAreMail
<1>1. Init => Events!Init /\ Responses!Init
  BY BoxInit, EventsIsABox, ResponsesIsABox DEF Boxes
<1>2. IInv /\ [Next]_vars => [Events!Next]_(Events!vars) /\ [Responses!Next]_(Responses!vars)
  BY BoxStep, EventsIsABox, ResponsesIsABox DEF Boxes
<1> QED BY <1>1, <1>2, Invariance, PTL DEF Spec, ExpectationsAreMail, Events!Spec, Responses!Spec

-----------------------------------------------------------------------------
(* Each line is in one place.                                              *)

Answers == {id \in Ids : answeredBy[id] # 0}
Takers  == {c \in DOMAIN calls : calls[c].got # NoItem}
Lying   == Len(queued["events"]) + Len(queued["responses"])
Placed  == {answeredBy[id] : id \in Answers} \cup {calls[c].got.n : c \in Takers}
               \cup {m.n : m \in UnreadIn("events")} \cup {m.n : m \in UnreadIn("responses")}
Total   == Cardinality(Answers) + Cardinality(Takers) + Lying

\* An id is used once: until its answer comes, no line is booked for it.
AnswerInv ==
    \A id \in Ids : /\ id >= nextId => response[id] = "none"
                    /\ response[id] \in {"none", "waiting"} => answeredBy[id] = 0
LineInv == Placed = 1 .. received /\ Total = received

\* The sets that are counted are finite.
LEMMA Counted ==
    ASSUME IInv
    PROVE  /\ IsFiniteSet(Answers) /\ Cardinality(Answers) \in Nat
           /\ IsFiniteSet(Takers) /\ Cardinality(Takers) \in Nat
           /\ Lying \in Nat
<1>1. IsFiniteSet(Ids) /\ IsFiniteSet(DOMAIN calls)
  BY CallNumbers, Basics, FS_Interval DEF IInv, Ids
<1>2. IsFiniteSet(Answers) /\ IsFiniteSet(Takers)
  BY <1>1, FS_Subset DEF Answers, Takers
<1>3. Lying \in Nat
  BY DEF Lying, IInv, Typed, Boxes
<1> QED BY <1>2, <1>3, FS_CardinalityType

\* A queue has as many places as its length.
LEMMA PlacesOf ==
    ASSUME NEW n \in Nat, NEW b
    PROVE  LET P == {<<b, i>> : i \in 1 .. n} IN IsFiniteSet(P) /\ Cardinality(P) = n
<1> DEFINE P == {<<b, i>> : i \in 1 .. n}
           f == [i \in 1 .. n |-> <<b, i>>]
<1>1. f \in Bijection(1 .. n, P)
  <2>1. f \in [1 .. n -> P] /\ \A i, j \in 1 .. n : f[i] = f[j] => i = j
    OBVIOUS
  <2>2. \A p \in P : \E i \in 1 .. n : f[i] = p
    OBVIOUS
  <2> QED BY <2>1, <2>2, Fun_IsBij
<1>2. ExistsBijection(1 .. n, P)
  BY <1>1 DEF ExistsBijection
<1>3. IsFiniteSet(1 .. n) /\ Cardinality(1 .. n) = n
  BY FS_Interval
<1> QED BY <1>2, <1>3, FS_Bijection

\* The property, in the terms of LineInv.
LEMMA OncePlaced == IInv /\ LineInv => EachLineOnce
<1> SUFFICES ASSUME IInv, LineInv PROVE EachLineOnce
  OBVIOUS
<1> DEFINE lying == UNION {{<<b, i>> : i \in DOMAIN queued[b]} : b \in Boxes}
           E == {<<"events", i>> : i \in DOMAIN queued["events"]}
           R == {<<"responses", i>> : i \in DOMAIN queued["responses"]}
           line(x) == queued[x[1]][x[2]].n
<1>1. lying = E \cup R
  BY DEF Boxes
<1>2. /\ DOMAIN queued["events"] = 1 .. Len(queued["events"]) /\ Len(queued["events"]) \in Nat
      /\ DOMAIN queued["responses"] = 1 .. Len(queued["responses"])
      /\ Len(queued["responses"]) \in Nat
  BY DEF IInv, Typed, Boxes
<1>3. /\ IsFiniteSet(E) /\ Cardinality(E) = Len(queued["events"])
      /\ IsFiniteSet(R) /\ Cardinality(R) = Len(queued["responses"])
  BY <1>2, PlacesOf
<1>4. E \cap R = {}
  OBVIOUS
<1>5. Cardinality(lying) = Lying
  <2>1. Cardinality(E \cup R) = Cardinality(E) + Cardinality(R) - Cardinality(E \cap R)
    BY <1>3, FS_Union
  <2>2. Cardinality(E \cap R) = 0
    BY <1>4, FS_EmptySet
  <2> HIDE DEF E, R, lying
  <2> QED BY <1>1, <1>2, <1>3, <2>1, <2>2 DEF Lying
<1>6. {line(x) : x \in E} = {m.n : m \in UnreadIn("events")}
  <2>1. {line(x) : x \in E} = {queued["events"][i].n : i \in DOMAIN queued["events"]}
    <3>1. \A i : line(<<"events", i>>) = queued["events"][i].n
      OBVIOUS
    <3> HIDE DEF line
    <3>2. {line(x) : x \in E} = {line(<<"events", i>>) : i \in DOMAIN queued["events"]}
      OBVIOUS
    <3> QED BY <3>1, <3>2
  <2>2. {m.n : m \in UnreadIn("events")} = {queued["events"][i].n : i \in DOMAIN queued["events"]}
    BY DEF UnreadIn, ToSet
  <2> QED BY <2>1, <2>2
<1>7. {line(x) : x \in R} = {m.n : m \in UnreadIn("responses")}
  <2>1. {line(x) : x \in R} = {queued["responses"][i].n : i \in DOMAIN queued["responses"]}
    <3>1. \A i : line(<<"responses", i>>) = queued["responses"][i].n
      OBVIOUS
    <3> HIDE DEF line
    <3>2. {line(x) : x \in R} = {line(<<"responses", i>>) : i \in DOMAIN queued["responses"]}
      OBVIOUS
    <3> QED BY <3>1, <3>2
  <2>2. {m.n : m \in UnreadIn("responses")}
           = {queued["responses"][i].n : i \in DOMAIN queued["responses"]}
    BY DEF UnreadIn, ToSet
  <2> QED BY <2>1, <2>2
<1>8. {line(x) : x \in lying} = {line(x) : x \in E} \cup {line(x) : x \in R}
  BY <1>1
<1>9. {answeredBy[id] : id \in Answers} \cup {calls[c].got.n : c \in Takers}
          \cup {line(x) : x \in lying} = 1 .. received
  <2> HIDE DEF line, lying, E, R
  <2> QED BY <1>6, <1>7, <1>8 DEF LineInv, Placed
<1>10. Cardinality(Answers) + Cardinality(Takers) + Cardinality(lying) = received
  <2> HIDE DEF lying
  <2> QED BY <1>5 DEF LineInv, Total
<1> QED BY <1>9, <1>10 DEF EachLineOnce, Answers, Takers

\* A step that books no line moves none.
LEMMA LinesStay ==
    ASSUME IInv, LineInv, UNCHANGED <<answeredBy, queued, received>>,
           Takers' = Takers, \A c \in Takers : calls'[c].got = calls[c].got
    PROVE  LineInv'
<1>1. /\ Answers' = Answers /\ Lying' = Lying
      /\ UnreadIn("events")' = UnreadIn("events")
      /\ UnreadIn("responses")' = UnreadIn("responses")
  BY DEF Answers, Lying, UnreadIn, ToSet
<1>2. {answeredBy'[id] : id \in Answers'} = {answeredBy[id] : id \in Answers}
  BY <1>1
<1>3. {calls'[c].got.n : c \in Takers'} = {calls[c].got.n : c \in Takers}
  OBVIOUS
<1>4. Placed' = Placed
  BY <1>1, <1>2, <1>3 DEF Placed
<1>5. Total' = Total
  BY <1>1 DEF Total
<1> QED BY <1>4, <1>5 DEF LineInv

\* Calls keep what they got, and those that end without a line got nothing.
LEMMA TakersStay ==
    ASSUME IInv, DOMAIN calls' = DOMAIN calls, \A c \in DOMAIN calls : calls'[c].got = calls[c].got
    PROVE  Takers' = Takers /\ \A c \in Takers : calls'[c].got = calls[c].got
BY DEF Takers

\* An answer to a pending request is booked for it.
LEMMA LineAnswers ==
    ASSUME IInv, LineInv, AnswerInv, NEW id \in pendingResponses,
           answeredBy' = [answeredBy EXCEPT ![id] = received + 1],
           UNCHANGED <<queued, calls>>, received' = received + 1
    PROVE  LineInv'
<1>1. /\ id \in Ids /\ received \in Nat /\ response[id] = "waiting"
      /\ answeredBy \in [Ids -> Nat]
  BY Together DEF IInv, Typed, RequestInv, RequestsKept
<1>2. id \notin Answers
  BY <1>1 DEF AnswerInv, Answers
<1>3. /\ Answers' = Answers \cup {id}
      /\ answeredBy'[id] = received + 1
      /\ \A i \in Answers : answeredBy'[i] = answeredBy[i]
  BY <1>1, <1>2 DEF Answers
<1>4. UNCHANGED <<Takers, Lying, UnreadIn("events"), UnreadIn("responses")>>
  BY DEF Takers, Lying, UnreadIn, ToSet
<1>5. {answeredBy'[i] : i \in Answers'} = {answeredBy[i] : i \in Answers} \cup {received + 1}
  <2>1. {answeredBy'[i] : i \in Answers \cup {id}}
           = {answeredBy'[i] : i \in Answers} \cup {answeredBy'[id]}
    OBVIOUS
  <2>2. {answeredBy'[i] : i \in Answers} = {answeredBy[i] : i \in Answers}
    BY <1>3
  <2>3. Answers' = Answers \cup {id} /\ answeredBy'[id] = received + 1
    BY <1>3
  <2> QED BY <2>1, <2>2, <2>3
<1>6. Placed' = Placed \cup {received + 1}
  BY <1>4, <1>5 DEF Placed
<1>7. Cardinality(Answers') = Cardinality(Answers) + 1
  BY <1>2, <1>3, Counted, FS_AddElement
<1>8. Total' = Total + 1
  BY <1>4, <1>7, Counted DEF Total
<1> QED BY <1>1, <1>6, <1>8 DEF LineInv

\* A line for a box is booked for the waiter that takes it, or for the queue.
LEMMA LineDelivered ==
    ASSUME IInv, LineInv, NEW b \in Boxes, NEW kind \in KindsOf[b], Deliver(b, kind),
           received' = received + 1, UNCHANGED answeredBy
    PROVE  LineInv'
<1>1. received \in Nat /\ Arriving(kind).n = received + 1 /\ Arriving(kind) # NoItem
  BY DEF IInv, Typed, Arriving, NoItem
<1>2. Answers' = Answers /\ {answeredBy'[i] : i \in Answers'} = {answeredBy[i] : i \in Answers}
  BY DEF Answers
<1>3. CASE Taken(b, kind)
  <2>1. PICK c \in Wants(b, kind) \cap Waiting(b) :
          /\ DOMAIN calls' = DOMAIN calls
          /\ calls'[c] = [calls[c] EXCEPT !.state = "resolved", !.got = Arriving(kind)]
          /\ \A d \in DOMAIN calls : d # c => calls'[d] = calls[d]
          /\ queued' = queued
    BY <1>3, TakenIs
  <2>2. /\ c \in DOMAIN calls /\ calls'[c].got = Arriving(kind) /\ calls[c].got = NoItem
    BY <2>1, CallNumbers, Held DEF IInv, Call, Wants
  <2>3. /\ Takers' = Takers \cup {c} /\ c \notin Takers
        /\ \A d \in Takers : calls'[d].got = calls[d].got
    BY <1>1, <2>1, <2>2 DEF Takers
  <2>4. {calls'[d].got.n : d \in Takers'} = {calls[d].got.n : d \in Takers} \cup {received + 1}
    BY <1>1, <2>2, <2>3
  <2>5. UNCHANGED <<Lying, UnreadIn("events"), UnreadIn("responses")>>
    BY <2>1 DEF Lying, UnreadIn, ToSet
  <2>6. Placed' = Placed \cup {received + 1}
    BY <1>2, <2>4, <2>5 DEF Placed
  <2>7. Cardinality(Takers') = Cardinality(Takers) + 1
    BY <2>3, Counted, FS_AddElement
  <2>8. Total' = Total + 1
    BY <1>2, <2>5, <2>7, Counted DEF Total
  <2> QED BY <1>1, <2>6, <2>8 DEF LineInv
<1>4. CASE Kept(b, kind)
  <2>1. /\ ToSet(queued'[b]) = ToSet(queued[b]) \cup {Arriving(kind)}
        /\ Len(queued'[b]) = Len(queued[b]) + 1
        /\ \A d \in Boxes : d # b => queued'[d] = queued[d]
    BY <1>4, KeptIs
  <2>2. UNCHANGED Takers /\ UNCHANGED calls
    BY <1>4 DEF Kept, Takers
  <2>3. /\ UnreadIn(b)' = UnreadIn(b) \cup {Arriving(kind)}
        /\ \A d \in Boxes : d # b => UnreadIn(d)' = UnreadIn(d)
    BY <2>1 DEF UnreadIn, ToSet
  <2>4. {m.n : m \in UnreadIn(b)'} = {m.n : m \in UnreadIn(b)} \cup {received + 1}
    BY <1>1, <2>3
  <2>5. Placed' = Placed \cup {received + 1}
    BY <1>2, <2>2, <2>3, <2>4 DEF Placed, Boxes
  <2>6. Lying' = Lying + 1
    <3> DEFINE e == Len(queued["events"])
               r == Len(queued["responses"])
    <3>1. e \in Nat /\ r \in Nat
      BY DEF IInv, Typed, Boxes
    <3>2. Lying = e + r /\ Lying' = e' + r'
      BY DEF Lying
    <3>3. e' + r' = (e + 1) + r \/ e' + r' = e + (r + 1)
      <4>1. CASE b = "events"
        BY <2>1, <4>1 DEF Boxes
      <4>2. CASE b = "responses"
        BY <2>1, <4>2 DEF Boxes
      <4> QED BY <4>1, <4>2 DEF Boxes
    <3> HIDE DEF e, r
    <3> QED BY <3>1, <3>2, <3>3
  <2>7. Total' = Total + 1
    BY <1>2, <2>2, <2>6, Counted DEF Total
  <2> QED BY <1>1, <2>5, <2>7 DEF LineInv
<1> QED BY <1>3, <1>4, DeliverIs

\* A call that finds a line moves it from the queue to itself.
LEMMA LineTaken ==
    ASSUME IInv, LineInv, NEW b \in Boxes, NEW accepts \in Predicates[b], Expect(b, accepts)
    PROVE  LineInv'
<1>1. UNCHANGED <<answeredBy, received>>
  BY DEF Expect, requestVars
<1>2. PICK new \in Nat : new = Len(calls) + 1
  BY Held
<1>3. Typed /\ accepts \in SUBSET Kinds
  BY Basics DEF IInv
<1>4. CASE Finds(b, accepts)
  <2>1. PICK m \in UnreadIn(b) :
          /\ NewCall(b, accepts, "resolved", m)
          /\ UnreadIn(b)' = UnreadIn(b) \ {m}
          /\ Len(queued'[b]) = Len(queued[b]) - 1
          /\ \A d \in Boxes : d # b => queued'[d] = queued[d]
    BY <1>4 DEF Finds
  <2>2. m \in Item \cup {NoItem} /\ m # NoItem
    BY Held
  <2>3. /\ DOMAIN calls' = DOMAIN calls \cup {new} /\ new \notin DOMAIN calls
        /\ calls'[new].got = m
        /\ \A c \in DOMAIN calls : calls'[c] = calls[c]
    BY <1>2, <1>3, <2>1, <2>2, NewCallIs DEF NewCall
  <2>4. /\ Takers' = Takers \cup {new} /\ new \notin Takers
        /\ \A d \in Takers : calls'[d].got = calls[d].got
    BY <2>2, <2>3 DEF Takers
  <2>5. {calls'[d].got.n : d \in Takers'} = {calls[d].got.n : d \in Takers} \cup {m.n}
    BY <2>3, <2>4
  <2>6. \A d \in Boxes : d # b => UnreadIn(d)' = UnreadIn(d)
    BY <2>1 DEF UnreadIn, ToSet
  <2>7. {x.n : x \in UnreadIn(b)} = {x.n : x \in UnreadIn(b)'} \cup {m.n}
    BY <2>1
  <2>8. Answers' = Answers /\ {answeredBy'[i] : i \in Answers'} = {answeredBy[i] : i \in Answers}
    BY <1>1 DEF Answers
  <2>9. Placed' = Placed
    BY <2>5, <2>6, <2>7, <2>8 DEF Placed, Boxes
  <2>10. Cardinality(Takers') = Cardinality(Takers) + 1
    BY <2>4, Counted, FS_AddElement
  <2>11. Lying' = Lying - 1
    <3>1. Len(queued["events"]) \in Nat /\ Len(queued["responses"]) \in Nat
      BY DEF IInv, Typed, Boxes
    <3>2. CASE b = "events"
      <4>1. queued'["responses"] = queued["responses"]
        BY <2>1, <3>2 DEF Boxes
      <4>2. Len(queued'["events"]) = Len(queued["events"]) - 1
        BY <2>1, <3>2
      <4> QED BY <3>1, <4>1, <4>2 DEF Lying
    <3>3. CASE b = "responses"
      <4>1. queued'["events"] = queued["events"]
        BY <2>1, <3>3 DEF Boxes
      <4>2. Len(queued'["responses"]) = Len(queued["responses"]) - 1
        BY <2>1, <3>3
      <4> QED BY <3>1, <4>1, <4>2 DEF Lying
    <3> QED BY <3>2, <3>3 DEF Boxes
  <2>12. Total' = Total
    BY <2>8, <2>10, <2>11, Counted DEF Total
  <2> QED BY <1>1, <2>9, <2>12 DEF LineInv
<1>5. CASE Waits(b, accepts)
  <2>1. NewCall(b, accepts, "waiting", NoItem) /\ UNCHANGED queued
    BY <1>5 DEF Waits
  <2>2. /\ DOMAIN calls' = DOMAIN calls \cup {new} /\ new \notin DOMAIN calls
        /\ calls'[new].got = NoItem
        /\ \A c \in DOMAIN calls : calls'[c] = calls[c]
    BY <1>2, <1>3, <2>1, NewCallIs DEF NewCall
  <2>3. Takers' = Takers /\ \A c \in Takers : calls'[c].got = calls[c].got
    BY <2>2 DEF Takers
  <2> QED BY <1>1, <2>1, <2>3, LinesStay
<1> QED BY <1>4, <1>5, ExpectIs

\* Ids are booked once.
LEMMA AnswersNext ==
    ASSUME IInv, AnswerInv, [Next]_vars
    PROVE  AnswerInv'
<1>1. /\ pendingResponses = {id \in Ids : response[id] = "waiting"}
      /\ response \in [Ids -> {"none", "waiting", "resolved", "rejected"}]
      /\ answeredBy \in [Ids -> Nat] /\ nextId \in Nat \ {0} /\ Ids \subseteq Nat
  BY Together DEF IInv, Typed, RequestInv, RequestsKept, Ids
<1>2. CASE Request
  BY <1>1, <1>2 DEF Request, AnswerInv
<1>3. ASSUME NEW id \in pendingResponses, NEW how \in {"resolved", "rejected"}, Settle(id, how),
             nextId' = nextId, \A i \in Ids : i # id => answeredBy'[i] = answeredBy[i]
      PROVE  AnswerInv'
  BY <1>1, <1>3 DEF Settle, AnswerInv
<1>4. ASSUME UNCHANGED <<nextId, response, answeredBy>> PROVE AnswerInv'
  BY <1>4 DEF AnswerInv
<1>5. ASSUME RejectAll PROVE AnswerInv'
  BY <1>1, <1>5 DEF RejectAll, AnswerInv
<1>6. ASSUME NEW id \in Ids, SendReturns(id) \/ SendFails(id) \/ RequestTimeout(id)
      PROVE  AnswerInv'
  BY <1>3, <1>4, <1>6 DEF SendReturns, SendFails, RequestTimeout
<1>7. ASSUME NEW id \in ResponseIds, NEW valid \in BOOLEAN, ResponseLine(id, valid)
      PROVE  AnswerInv'
  BY <1>1, <1>3, <1>4, <1>7 DEF ResponseLine, requestVars
<1>8. CASE \/ UNCHANGED vars
           \/ \E kind \in EventKinds : EventLine(kind)
           \/ \E b \in Boxes : \E accepts \in Predicates[b] : Expect(b, accepts)
           \/ \E c \in DOMAIN calls : ExpectTimeout(c)
  BY <1>4, <1>8 DEF vars, requestVars, EventLine, Expect, ExpectTimeout
<1> QED BY <1>2, <1>5, <1>6, <1>7, <1>8 DEF Next, Line, BadLine, TargetFails, FailAll, Close

\* Every step books each line once.
LEMMA LinesNext ==
    ASSUME IInv, AnswerInv, LineInv, [Next]_vars
    PROVE  LineInv'
<1>1. ASSUME UNCHANGED <<answeredBy, queued, received, calls>> PROVE LineInv'
  <2>1. Takers' = Takers /\ \A c \in Takers : calls'[c].got = calls[c].got
    BY <1>1 DEF Takers
  <2> QED BY <1>1, <2>1, LinesStay
<1>2. ASSUME UNCHANGED <<answeredBy, queued, received>>, DOMAIN calls' = DOMAIN calls,
             \A c \in DOMAIN calls : calls'[c].got = calls[c].got
      PROVE  LineInv'
  BY <1>2, TakersStay, LinesStay
<1>3. ASSUME RejectAll PROVE LineInv'
  <2>1. \A c \in DOMAIN calls : calls[c] \in Call
    BY CallNumbers DEF IInv
  <2>2. DOMAIN calls' = DOMAIN calls /\ \A c \in DOMAIN calls : calls'[c].got = calls[c].got
    BY <1>3, <2>1 DEF RejectAll, Call
  <2> QED BY <1>2, <1>3, <2>2 DEF RejectAll
<1>4. ASSUME NEW c \in DOMAIN calls, ExpectTimeout(c) PROVE LineInv'
  <2>1. calls[c] \in Call
    BY CallNumbers DEF IInv
  <2>2. DOMAIN calls' = DOMAIN calls /\ \A d \in DOMAIN calls : calls'[d].got = calls[d].got
    BY <1>4, <2>1 DEF ExpectTimeout, Call
  <2> QED BY <1>2, <1>4, <2>2 DEF ExpectTimeout, requestVars
<1>5. ASSUME NEW id \in ResponseIds, NEW valid \in BOOLEAN, ResponseLine(id, valid)
      PROVE  LineInv'
  <2>1. CASE id \in pendingResponses
    BY <1>5, <2>1, LineAnswers DEF ResponseLine, expectVars
  <2>2. CASE id \notin pendingResponses
    BY <1>5, <2>2, LineDelivered DEF ResponseLine, requestVars, Boxes, KindsOf
  <2> QED BY <2>1, <2>2
<1>6. ASSUME NEW kind \in EventKinds, EventLine(kind) PROVE LineInv'
  BY <1>6, LineDelivered DEF EventLine, requestVars, Boxes, KindsOf
<1>7. CASE \/ UNCHANGED vars \/ Request
           \/ \E id \in Ids : SendReturns(id) \/ SendFails(id) \/ RequestTimeout(id)
  BY <1>1, <1>7 DEF vars, requestVars, expectVars, Request, SendReturns, SendFails,
                    RequestTimeout
<1>8. CASE \E b \in Boxes : \E accepts \in Predicates[b] : Expect(b, accepts)
  BY <1>8, LineTaken
<1> QED BY <1>3, <1>4, <1>5, <1>6, <1>7, <1>8
        DEF Next, Line, BadLine, TargetFails, FailAll, Close

\* No line is booked initially.
LEMMA LinesInit == Init => AnswerInv /\ LineInv
<1> SUFFICES ASSUME Init PROVE AnswerInv /\ LineInv
  OBVIOUS
<1>1. AnswerInv
  BY DEF Init, AnswerInv
<1>2. Answers = {} /\ Takers = {}
  BY DEF Init, Answers, Takers
<1>3. UnreadIn("events") = {} /\ UnreadIn("responses") = {} /\ Lying = 0
  BY DEF Init, UnreadIn, ToSet, Lying, Boxes
<1>4. received = 0 /\ 1 .. 0 = {}
  BY DEF Init
<1>5. Placed = 1 .. received /\ Total = received
  BY <1>2, <1>3, <1>4, FS_EmptySet DEF Placed, Total
<1> QED BY <1>1, <1>5 DEF LineInv

\* Every valid line that driver.ts handled is in one place: it answered one
\* request, was taken by one expectation, or lies once in one queue.  No answer
\* reaches two requests, and none is dropped.
THEOREM EachLineHasOnePlace == Spec => []EachLineOnce
<1>1. AnswerInv /\ LineInv /\ IInv /\ [Next]_vars => (AnswerInv /\ LineInv)'
  BY AnswersNext, LinesNext
<1> QED BY <1>1, LinesInit, OncePlaced, Invariance, PTL DEF Spec

=============================================================================
