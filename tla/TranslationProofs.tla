--------------------------- MODULE TranslationProofs ---------------------------
(***************************************************************************)
(* Proofs about Translation: whatever an agent of either version sends, for  *)
(* any calls, messages and bounds, clients of both versions show the same,   *)
(* and what is relayed there and back is what was sent.                      *)
(***************************************************************************)
EXTENDS Translation, SequenceTheorems, WellFoundedInduction, TLAPS

-----------------------------------------------------------------------------
(* Folds of a client's updates.                                            *)

\* A set of naturals that is not empty has a least member.
LEMMA LeastNatural ==
    ASSUME NEW T, T \subseteq Nat, T # {}
    PROVE  \E x \in T : \A y \in T : ~(y < x)
<1>1. \E x \in T : \A y \in T : ~(<<y, x>> \in OpToRel(<, Nat))
  BY NatLessThanWellFounded, WFMin
<1> QED BY <1>1 DEF OpToRel

\* The greatest member of a set of integers is what Max chooses.
LEMMA MaxIs ==
    ASSUME NEW S \in SUBSET Int, NEW k \in S, \A i \in S : i <= k
    PROVE  Max(S) = k
<1>1. \A x, y \in S : (\A i \in S : i <= x) /\ (\A i \in S : i <= y) => x = y
  OBVIOUS
<1> QED BY <1>1 DEF Max

\* The fold of V1Apply is a recursive function of the sets of places.
IterV1(view, us, it, n) ==
    it = [s \in SUBSET (1 .. n) |->
            IF s = {} THEN view
            ELSE V1Apply(it[s \ {Max(s)}], us[Max(s)])]

\* There is such a function: what holds up to k - 1 places holds up to k.
LEMMA IterV1Exists ==
    ASSUME NEW view, NEW us, NEW n \in Nat
    PROVE  \E it : IterV1(view, us, it, n)
<1> DEFINE Bad == {k \in 0 .. n : ~ \E it : IterV1(view, us, it, k)}
<1>1. SUFFICES ASSUME Bad # {} PROVE FALSE
  OBVIOUS
<1>2. PICK k \in Bad : \A j \in Bad : ~(j < k)
  <2>1. Bad \subseteq Nat
    OBVIOUS
  <2> HIDE DEF Bad
  <2> QED BY <1>1, <2>1, LeastNatural
<1>3. CASE k = 0
  <2> DEFINE it == [s \in SUBSET (1 .. 0) |-> view]
  <2>1. IterV1(view, us, it, 0)
    BY DEF IterV1
  <2> QED BY <1>2, <1>3, <2>1
<1>4. CASE k # 0
  <2>1. k - 1 \in 0 .. n /\ k - 1 < k /\ k \in 1 .. n
    BY <1>2, <1>4
  <2>2. PICK g : IterV1(view, us, g, k - 1)
    BY <1>2, <2>1
  <2> DEFINE it == [s \in SUBSET (1 .. k) |->
                       IF k \in s THEN V1Apply(g[s \ {k}], us[k]) ELSE g[s]]
  <2>3. ASSUME NEW s \in SUBSET (1 .. k)
        PROVE  it[s] = IF s = {} THEN view
                       ELSE V1Apply(it[s \ {Max(s)}], us[Max(s)])
    <3>1. CASE k \in s
      <4>1. Max(s) = k
        BY <3>1, <2>1, MaxIs
      <4>2. it[s \ {k}] = g[s \ {k}] /\ s # {}
        BY <3>1
      <4> QED BY <3>1, <4>1, <4>2
    <3>2. CASE k \notin s
      <4>1. s \in SUBSET (1 .. k - 1) /\ it[s] = g[s]
        BY <3>2, <2>1
      <4>2. g[s] = IF s = {} THEN view
                   ELSE V1Apply(g[s \ {Max(s)}], us[Max(s)])
        BY <4>1, <2>2 DEF IterV1
      <4>3. it[s \ {Max(s)}] = g[s \ {Max(s)}]
        BY <3>2
      <4> QED BY <4>1, <4>2, <4>3
    <3> QED BY <3>1, <3>2
  <2>4. IterV1(view, us, it, k)
    <3> HIDE DEF it
    <3>1. it = [s \in SUBSET (1 .. k) |-> it[s]]
      BY DEF it
    <3>2. [s \in SUBSET (1 .. k) |-> it[s]] =
            [s \in SUBSET (1 .. k) |->
                IF s = {} THEN view ELSE V1Apply(it[s \ {Max(s)}], us[Max(s)])]
      BY <2>3
    <3> QED BY <3>1, <3>2 DEF IterV1
  <2> QED BY <1>2, <2>4
<1> QED BY <1>3, <1>4

\* The fold is the value of that function at the set of all places.
LEMMA FoldV1Is ==
    ASSUME NEW view, NEW us, NEW n \in Nat, DOMAIN us = 1 .. n
    PROVE  \E it : /\ IterV1(view, us, it, n)
                   /\ FoldLeft(V1Apply, view, us) = it[1 .. n]
<1> DEFINE it == CHOOSE f : IterV1(view, us, f, n)
<1>1. IterV1(view, us, it, n)
  BY IterV1Exists
<1>2. FoldLeft(V1Apply, view, us) = it[1 .. n]
  BY DEF FoldLeft, MapThenFoldSet, IterV1
<1> QED BY <1>1, <1>2

\* One by one: the fold after k updates is V1Apply of the fold after k - 1.
LEMMA FoldV1Steps ==
    ASSUME NEW view, NEW us, NEW it, NEW n \in Nat, IterV1(view, us, it, n)
    PROVE  /\ it[1 .. 0] = view
           /\ \A k \in 1 .. n : it[1 .. k] = V1Apply(it[1 .. k - 1], us[k])
<1>1. 1 .. 0 = {} /\ {} \in SUBSET (1 .. n)
  OBVIOUS
<1>2. it[{}] = view
  BY <1>1 DEF IterV1
<1>3. ASSUME NEW k \in 1 .. n
      PROVE  it[1 .. k] = V1Apply(it[1 .. k - 1], us[k])
  <2>1. 1 .. k \in SUBSET (1 .. n) /\ 1 .. k # {} /\ k \in 1 .. k
    OBVIOUS
  <2>2. Max(1 .. k) = k
    <3>1. 1 .. k \in SUBSET Int /\ \A i \in 1 .. k : i <= k
      OBVIOUS
    <3> QED BY <2>1, <3>1, MaxIs
  <2>3. (1 .. k) \ {k} = 1 .. k - 1
    OBVIOUS
  <2>4. it[1 .. k] = V1Apply(it[(1 .. k) \ {Max(1 .. k)}], us[Max(1 .. k)])
    BY <2>1 DEF IterV1
  <2> QED BY <2>2, <2>3, <2>4
<1> QED BY <1>1, <1>2, <1>3

\* No update: the view stays.
LEMMA FoldV1OfNone ==
    ASSUME NEW view
    PROVE  FoldLeft(V1Apply, view, <<>>) = view
<1>1. DOMAIN <<>> = 1 .. 0
  OBVIOUS
<1>2. PICK it : IterV1(view, <<>>, it, 0) /\ FoldLeft(V1Apply, view, <<>>) = it[1 .. 0]
  BY <1>1, FoldV1Is
<1> QED BY <1>2, FoldV1Steps

\* One update: the view it makes.
LEMMA FoldV1OfOne ==
    ASSUME NEW view, NEW u
    PROVE  FoldLeft(V1Apply, view, <<u>>) = V1Apply(view, u)
<1>1. PICK n \in Nat : n = 1
  OBVIOUS
<1>2. PICK us : us = <<u>>
  OBVIOUS
<1>3. DOMAIN us = 1 .. n /\ us[n] = u /\ n \in 1 .. n /\ 1 .. n - 1 = 1 .. 0
  BY <1>1, <1>2
<1>4. PICK it : IterV1(view, us, it, n) /\ FoldLeft(V1Apply, view, us) = it[1 .. n]
  BY <1>3, FoldV1Is
<1>5. it[1 .. 0] = view /\ \A k \in 1 .. n : it[1 .. k] = V1Apply(it[1 .. k - 1], us[k])
  BY <1>4, FoldV1Steps
<1>6. it[1 .. n] = V1Apply(it[1 .. n - 1], us[n])
  BY <1>3, <1>5
<1> QED BY <1>2, <1>3, <1>4, <1>5, <1>6

\* A v1 update becomes at most one of v2.
LEMMA FoldV2OfNone ==
    ASSUME NEW view
    PROVE  FoldLeft(V2Apply, view, <<>>) = view
<1> DEFINE Is(it) == it = [s \in SUBSET (DOMAIN <<>>) |->
                     IF s = {} THEN view
                     ELSE V2Apply(it[s \ {Max(s)}], <<>>[Max(s)])]
           It == CHOOSE f : Is(f)
<1>1. \E it : Is(it)
  <2> DEFINE w == [s \in SUBSET (DOMAIN <<>>) |-> view]
  <2>1. \A s \in SUBSET (DOMAIN <<>>) : s = {}
    OBVIOUS
  <2>2. Is(w)
    BY <2>1
  <2> QED BY <2>2
<1>2. Is(It)
  BY <1>1
<1>3. FoldLeft(V2Apply, view, <<>>) = It[DOMAIN <<>>]
  BY DEF FoldLeft, MapThenFoldSet
<1>4. DOMAIN <<>> = {}
  OBVIOUS
<1> HIDE DEF It
<1>5. It[DOMAIN <<>>] = view
  BY <1>2, <1>4
<1> QED BY <1>3, <1>5

\* One update of v2.
LEMMA FoldV2OfOne ==
    ASSUME NEW view, NEW u
    PROVE  FoldLeft(V2Apply, view, <<u>>) = V2Apply(view, u)
<1> DEFINE Is(it) == it = [s \in SUBSET (DOMAIN <<u>>) |->
                     IF s = {} THEN view
                     ELSE V2Apply(it[s \ {Max(s)}], <<u>>[Max(s)])]
           It == CHOOSE f : Is(f)
<1>1. DOMAIN <<u>> = {1} /\ <<u>>[1] = u
  OBVIOUS
<1>2. Max({1}) = 1 /\ {1} \ {1} = {}
  BY MaxIs
<1>3. \E it : Is(it)
  <2> DEFINE w == [s \in SUBSET (DOMAIN <<u>>) |->
                     IF s = {} THEN view ELSE V2Apply(view, u)]
  <2>1. \A s \in SUBSET (DOMAIN <<u>>) : s = {} \/ s = {1}
    BY <1>1
  <2>2. w[{}] = view
    BY <1>1
  <2>3. ASSUME NEW s \in SUBSET (DOMAIN <<u>>)
        PROVE  w[s] = IF s = {} THEN view
                      ELSE V2Apply(w[s \ {Max(s)}], <<u>>[Max(s)])
    <3>1. CASE s = {}
      BY <3>1, <2>2
    <3>2. CASE s = {1}
      BY <3>2, <1>1, <1>2, <2>2
    <3> QED BY <2>1, <3>1, <3>2
  <2>4. w = [s \in SUBSET (DOMAIN <<u>>) |-> w[s]]
    OBVIOUS
  <2> HIDE DEF w
  <2>5. Is(w)
    BY <2>3, <2>4
  <2> QED BY <2>5
<1>4. Is(It)
  BY <1>3
<1>5. FoldLeft(V2Apply, view, <<u>>) = It[DOMAIN <<u>>]
  BY DEF FoldLeft, MapThenFoldSet
<1> HIDE DEF It
<1>6. It[{}] = view /\ It[{1}] = V2Apply(It[{1} \ {Max({1})}], <<u>>[Max({1})])
  BY <1>1, <1>4
<1> QED BY <1>1, <1>2, <1>5, <1>6

-----------------------------------------------------------------------------
(* Views.                                                                  *)

IsView(v) == v = [calls |-> v.calls, messages |-> v.messages, plans |-> v.plans]

\* With changes one entry of one part.
LEMMA WithIs ==
    ASSUME NEW v, IsView(v), NEW id, NEW x
    PROVE  /\ With(v, "calls", id, x) =
                [calls |-> Put(v.calls, id, x), messages |-> v.messages, plans |-> v.plans]
           /\ With(v, "messages", id, x) =
                [calls |-> v.calls, messages |-> Put(v.messages, id, x), plans |-> v.plans]
           /\ With(v, "plans", id, x) =
                [calls |-> v.calls, messages |-> v.messages, plans |-> Put(v.plans, id, x)]
<1>1. PICK c, m, p : v = [calls |-> c, messages |-> m, plans |-> p]
  BY DEF IsView
<1>2. v.calls = c /\ v.messages = m /\ v.plans = p
  BY <1>1
<1>3. With(v, "calls", id, x) = [calls |-> Put(c, id, x), messages |-> m, plans |-> p]
  BY <1>1 DEF With
<1>4. With(v, "messages", id, x) = [calls |-> c, messages |-> Put(m, id, x), plans |-> p]
  BY <1>1 DEF With
<1>5. With(v, "plans", id, x) = [calls |-> c, messages |-> m, plans |-> Put(p, id, x)]
  BY <1>1 DEF With
<1> QED BY <1>2, <1>3, <1>4, <1>5

\* Put changes one entry.
LEMMA EntryIs ==
    ASSUME NEW fun, NEW id, NEW x
    PROVE  /\ DOMAIN Put(fun, id, x) = {id} \cup DOMAIN fun
           /\ Put(fun, id, x)[id] = x
           /\ \A y \in DOMAIN fun : y # id => Put(fun, id, x)[y] = fun[y]
BY DEF Put

\* A call is shown by a v1 client as it is by a v2 client.
Alike(call1, call2) ==
    [f \in Fields |-> InV2(f, call1[f])] = [f \in Fields |-> Shown(call2[f], f)]

\* What v1 takes for granted is the same in v2.
LEMMA DefaultsStay ==
    ASSUME NEW f \in Fields
    PROVE  InV2(f, Default[f]) = Default[f]
<1>1. CASE f = "content"
  <2>1. Default[f] = <<>>
    BY <1>1 DEF Default
  <2>2. Patched(<<>>) = <<>>
    BY DEF Patched
  <2> QED BY <1>1, <2>1, <2>2 DEF InV2
<1>2. CASE f # "content"
  BY <1>2 DEF InV2
<1> QED BY <1>1, <1>2

\* try_v1_to_v2 of an update that a v1 client applies.
LEMMA PatchesAgree ==
    ASSUME NEW fields, NEW call1, NEW call2, Alike(call1, call2)
    PROVE  Alike(Updated(call1, fields),
                 Merged(call2, [f \in Fields |-> Patch(f, fields[f])]))
<1> DEFINE patches == [f \in Fields |-> Patch(f, fields[f])]
<1>1. ASSUME NEW f \in Fields
      PROVE  InV2(f, Updated(call1, fields)[f]) = Shown(Merged(call2, patches)[f], f)
  <2>1. CASE fields[f] = None
    BY <1>1, <2>1 DEF Updated, Merged, Patch, Has, Alike
  <2>2. CASE fields[f] # None
    <3>1. patches[f] = Value(InV2(f, fields[f].of)) /\ patches[f] # Undefined
      BY <1>1, <2>2 DEF Patch, Value, Undefined
    <3>2. Merged(call2, patches)[f] = Value(InV2(f, fields[f].of))
      BY <1>1, <3>1 DEF Merged
    <3>3. Updated(call1, fields)[f] = fields[f].of
      BY <1>1, <2>2 DEF Updated, Has
    <3> QED BY <3>2, <3>3 DEF Shown, Value
  <2> QED BY <2>1, <2>2
<1> QED BY <1>1 DEF Alike

\* The same of a call neither client knew.
LEMMA NewCallsAgree ==
    ASSUME NEW fields
    PROVE  Alike(Constructed(fields), [f \in Fields |-> Patch(f, fields[f])])
<1> DEFINE patches == [f \in Fields |-> Patch(f, fields[f])]
<1>1. ASSUME NEW f \in Fields
      PROVE  InV2(f, Constructed(fields)[f]) = Shown(patches[f], f)
  <2>1. CASE fields[f] = None
    <3>1. Constructed(fields)[f] = Default[f] /\ patches[f] = Undefined
      BY <1>1, <2>1 DEF Constructed, Updated, Patch, Has
    <3> QED BY <3>1, DefaultsStay DEF Shown, Undefined
  <2>2. CASE fields[f] # None
    <3>1. /\ Constructed(fields)[f] = fields[f].of
          /\ patches[f] = Value(InV2(f, fields[f].of))
      BY <1>1, <2>2 DEF Constructed, Updated, Patch, Has
    <3> QED BY <3>1 DEF Shown, Value
  <2> QED BY <2>1, <2>2
<1> QED BY <1>1 DEF Alike

\* A v1 announcement leaves unsaid what is the default.
Announced(fields) ==
    [f \in Fields |-> IF f # "title" /\ fields[f] = Default[f] THEN Undefined
                      ELSE Value(InV2(f, fields[f]))]

\* An announced call is shown alike.
LEMMA AnnouncementsAgree ==
    ASSUME NEW fields
    PROVE  Alike(fields, Announced(fields))
<1>1. ASSUME NEW f \in Fields
      PROVE  InV2(f, fields[f]) = Shown(Announced(fields)[f], f)
  <2>1. CASE f # "title" /\ fields[f] = Default[f]
    <3>1. Announced(fields)[f] = Undefined
      BY <1>1, <2>1 DEF Announced
    <3> QED BY <2>1, <3>1, DefaultsStay DEF Shown, Undefined
  <2>2. CASE ~(f # "title" /\ fields[f] = Default[f])
    <3>1. Announced(fields)[f] = Value(InV2(f, fields[f]))
      BY <1>1, <2>2 DEF Announced
    <3> QED BY <3>1 DEF Shown, Value
  <2> QED BY <2>1, <2>2
<1> QED BY <1>1 DEF Alike

\* What fits v1 means the same there.
Fits(fields) ==
    \A f \in Fields : /\ FitsV1(f, fields[f])
                      /\ fields[f] # Undefined => InV2(f, fields[f].of) = fields[f].of

\* try_v2_to_v1 of an update of a call that both know.
LEMMA OptionsAgree ==
    ASSUME NEW fields, Fits(fields), NEW call1, NEW call2, Alike(call1, call2)
    PROVE  Alike(Updated(call1, [f \in Fields |-> Option(fields[f])]),
                 Merged(call2, fields))
<1> DEFINE options == [f \in Fields |-> Option(fields[f])]
<1>1. ASSUME NEW f \in Fields
      PROVE  InV2(f, Updated(call1, options)[f]) = Shown(Merged(call2, fields)[f], f)
  <2>1. CASE fields[f] = Undefined
    <3>1. Updated(call1, options)[f] = call1[f] /\ Merged(call2, fields)[f] = call2[f]
      BY <1>1, <2>1 DEF Updated, Merged, Option, Has
    <3> QED BY <3>1 DEF Alike
  <2>2. CASE fields[f] # Undefined
    <3>1. options[f] = Some(fields[f].of) /\ options[f] # None
      BY <1>1, <2>2 DEF Option, Some, None
    <3>2. Updated(call1, options)[f] = fields[f].of /\ Merged(call2, fields)[f] = fields[f]
      BY <1>1, <2>2, <3>1 DEF Updated, Merged, Has, Some
    <3>3. fields[f].is = "value"
      BY <1>1, <2>2 DEF Fits, FitsV1
    <3> QED BY <2>2, <3>2, <3>3 DEF Shown, Fits
  <2> QED BY <2>1, <2>2
<1> QED BY <1>1 DEF Alike

\* The same of a call neither client knew.
LEMMA NewOptionsAgree ==
    ASSUME NEW fields, Fits(fields)
    PROVE  Alike(Constructed([f \in Fields |-> Option(fields[f])]), fields)
<1> DEFINE options == [f \in Fields |-> Option(fields[f])]
<1>1. ASSUME NEW f \in Fields
      PROVE  InV2(f, Constructed(options)[f]) = Shown(fields[f], f)
  <2>1. CASE fields[f] = Undefined
    <3>1. Constructed(options)[f] = Default[f]
      BY <1>1, <2>1 DEF Constructed, Updated, Option, Has
    <3> QED BY <2>1, <3>1, DefaultsStay DEF Shown, Undefined
  <2>2. CASE fields[f] # Undefined
    <3>1. options[f] = Some(fields[f].of) /\ options[f] # None
      BY <1>1, <2>2 DEF Option, Some, None
    <3>2. Constructed(options)[f] = fields[f].of
      BY <1>1, <3>1 DEF Constructed, Updated, Has, Some
    <3>3. fields[f].is = "value"
      BY <1>1, <2>2 DEF Fits, FitsV1
    <3> QED BY <2>2, <3>2, <3>3 DEF Shown, Fits
  <2> QED BY <2>1, <2>2
<1> QED BY <1>1 DEF Alike

-----------------------------------------------------------------------------
(* The updates, by what they are.                                          *)

CallUpdate(id, fields) == [is |-> "tool_call_update", id |-> id, fields |-> fields]
Chunk(m, block)        == [is |-> "chunk", message |-> m, block |-> block]
NewCalls == [title : {"run"}, kind : {"other", "edit"},
             status : {"pending", "completed"}, content : V1Contents,
             raw_input : {"none", "args"}]

\* What an agent of v1 sends.
LEMMA KindsOfV1 ==
    ASSUME NEW u \in V1Updates
    PROVE  \/ \E id \in ToolCalls, fields \in V1Fields : u = CallUpdate(id, fields)
           \/ \E id \in ToolCalls : \E fields :
                 /\ u = [is |-> "tool_call", id |-> id, fields |-> fields]
                 /\ fields \in NewCalls
           \/ \E m \in Options(Messages), block \in V1Blocks : u = Chunk(m, block)
           \/ \E meta \in Options({"m"}) :
                 u = [is |-> "plan", entry |-> "pending", meta |-> meta]
           \/ \E id \in ToolCalls, fields \in V1Fields :
                 u = [is |-> "permission", call |-> CallUpdate(id, fields)]
           \/ u = [is |-> "current_mode"]
<1>1. CASE u \in CallUpdates(V1Fields)
  BY <1>1 DEF CallUpdates, CallUpdate
<1>2. CASE u \in [is : {"tool_call"}, id : ToolCalls, fields : NewCalls]
  <2>1. u.id \in ToolCalls /\ u.fields \in NewCalls
        /\ u = [is |-> "tool_call", id |-> u.id, fields |-> u.fields]
    BY <1>2
  <2> QED BY <2>1
<1>3. CASE u \in [is : {"chunk"}, message : Options(Messages), block : V1Blocks]
  BY <1>3 DEF Chunk
<1>4. CASE u \in [is : {"plan"}, entry : {"pending"}, meta : Options({"m"})]
  BY <1>4
<1>5. CASE u \in [is : {"permission"}, call : CallUpdates(V1Fields)]
  <2>1. u.call \in CallUpdates(V1Fields) /\ u = [is |-> "permission", call |-> u.call]
    BY <1>5
  <2>2. \E id \in ToolCalls, fields \in V1Fields : u.call = CallUpdate(id, fields)
    BY <2>1 DEF CallUpdates, CallUpdate
  <2> QED BY <2>1, <2>2
<1>6. CASE u \in [is : {"current_mode"}]
  BY <1>6
<1> QED BY <1>1, <1>2, <1>3, <1>4, <1>5, <1>6 DEF V1Updates, NewCalls

\* What an agent of v2 sends.
LEMMA KindsOfV2 ==
    ASSUME NEW u \in V2Updates
    PROVE  \/ \E id \in ToolCalls, fields \in V2Fields : u = CallUpdate(id, fields)
           \/ u.is = "content_chunk"
           \/ \E m \in Messages, content \in Patches(SeqOf(V2Blocks, MaxContent)) :
                 u = [is |-> "message", message |-> m, content |-> content]
           \/ \E m \in Messages, block \in V2Blocks : u = Chunk(m, block)
           \/ \E plan \in {LegacyPlan, "second"}, entry \in {"pending", "cancelled"},
                 meta \in Options({"m"}), itemsMeta \in Options({"m", "n"}) :
                 u = [is |-> "plan", plan |-> plan, entry |-> entry, meta |-> meta,
                      itemsMeta |-> itemsMeta]
           \/ \E title \in {"run", "Run it?"}, description \in Options({"why"}),
                 subject \in {"tool_call", "command", "other", "none"},
                 id \in ToolCalls, fields \in V2Fields :
                 u = [is |-> "permission", title |-> title, description |-> description,
                      subject |-> subject, call |-> CallUpdate(id, fields)]
           \/ u.is = "only_v2"
<1>1. CASE u \in CallUpdates(V2Fields)
  BY <1>1 DEF CallUpdates, CallUpdate
<1>2. CASE u \in [is : {"content_chunk"}, id : ToolCalls, item : {"text"}]
  BY <1>2
<1>3. CASE u \in [is : {"message"}, message : Messages,
                  content : Patches(SeqOf(V2Blocks, MaxContent))]
  BY <1>3
<1>4. CASE u \in [is : {"chunk"}, message : Messages, block : V2Blocks]
  BY <1>4 DEF Chunk
<1>5. CASE u \in [is : {"plan"}, plan : {LegacyPlan, "second"},
                  entry : {"pending", "cancelled"},
                  meta : Options({"m"}), itemsMeta : Options({"m", "n"})]
  <2>1. /\ u.plan \in {LegacyPlan, "second"} /\ u.entry \in {"pending", "cancelled"}
        /\ u.meta \in Options({"m"}) /\ u.itemsMeta \in Options({"m", "n"})
        /\ u = [is |-> "plan", plan |-> u.plan, entry |-> u.entry, meta |-> u.meta,
                itemsMeta |-> u.itemsMeta]
    BY <1>5
  <2> QED BY <2>1
<1>6. CASE u \in [is : {"permission"}, title : {"run", "Run it?"},
                  description : Options({"why"}),
                  subject : {"tool_call", "command", "other", "none"},
                  call : CallUpdates(V2Fields)]
  <2>1. /\ u.call \in CallUpdates(V2Fields)
        /\ u.title \in {"run", "Run it?"} /\ u.description \in Options({"why"})
        /\ u.subject \in {"tool_call", "command", "other", "none"}
        /\ u = [is |-> "permission", title |-> u.title, description |-> u.description,
                subject |-> u.subject, call |-> u.call]
    BY <1>6
  <2>2. \E id \in ToolCalls, fields \in V2Fields : u.call = CallUpdate(id, fields)
    BY <2>1 DEF CallUpdates, CallUpdate
  <2> QED BY <2>1, <2>2
<1>7. CASE u \in [is : {"only_v2"}]
  BY <1>7
<1> QED BY <1>1, <1>2, <1>3, <1>4, <1>5, <1>6, <1>7 DEF V2Updates

-----------------------------------------------------------------------------
(* Blocks.                                                                 *)

\* An entry of the messages changes the blocks of that message alone.
LEMMA BlocksAre ==
    ASSUME NEW v, IsView(v), NEW m, NEW x
    PROVE  /\ IsView(With(v, "messages", m, x))
           /\ With(v, "messages", m, x).calls = v.calls
           /\ With(v, "messages", m, x).plans = v.plans
           /\ \A y : Blocks(With(v, "messages", m, x), y) =
                        IF y = m THEN x ELSE Blocks(v, y)
<1> DEFINE w == With(v, "messages", m, x)
<1>1. w = [calls |-> v.calls, messages |-> Put(v.messages, m, x), plans |-> v.plans]
  BY WithIs
<1> HIDE DEF w
<1>2. w.messages = Put(v.messages, m, x) /\ w.calls = v.calls /\ w.plans = v.plans
      /\ IsView(w)
  BY <1>1 DEF IsView
<1>3. ASSUME NEW y
      PROVE  Blocks(w, y) = IF y = m THEN x ELSE Blocks(v, y)
  <2>1. /\ DOMAIN w.messages = {m} \cup DOMAIN v.messages
        /\ w.messages[m] = x
        /\ y \in DOMAIN v.messages /\ y # m => w.messages[y] = v.messages[y]
    BY <1>2 DEF Put
  <2>2. CASE y = m
    BY <2>1, <2>2 DEF Blocks
  <2>3. CASE y # m
    BY <2>1, <2>3 DEF Blocks
  <2> QED BY <2>2, <2>3
<1> QED BY <1>2, <1>3 DEF w

\* The chunks of a message amount to its blocks, where nothing was shown of it.
LEMMA ChunksMakeTheMessage ==
    ASSUME NEW v, IsView(v), NEW m, NEW bs, NEW n \in Nat, DOMAIN bs = 1 .. n,
           bs \in Seq(V1Blocks), Len(bs) = n
    PROVE  LET us == [i \in DOMAIN bs |-> Chunk(Some(m), bs[i])]
               w  == FoldLeft(V1Apply, v, us)
           IN  /\ IsView(w) /\ w.calls = v.calls /\ w.plans = v.plans
               /\ \A y : y # m => Blocks(w, y) = Blocks(v, y)
               /\ Blocks(v, m) = <<>> => Blocks(w, m) = bs
<1> DEFINE us == [i \in DOMAIN bs |-> Chunk(Some(m), bs[i])]
<1>1. DOMAIN us = 1 .. n
  OBVIOUS
<1>a. \A i \in 1 .. n : us[i] = Chunk(Some(m), bs[i])
  OBVIOUS
<1> HIDE DEF us
<1>2. PICK it : IterV1(v, us, it, n) /\ FoldLeft(V1Apply, v, us) = it[1 .. n]
  BY <1>1, FoldV1Is
<1>3. /\ it[1 .. 0] = v
      /\ \A k \in 1 .. n : it[1 .. k] = V1Apply(it[1 .. k - 1], us[k])
  BY <1>2, FoldV1Steps
<1> DEFINE Shows(w, k) ==
              /\ IsView(w) /\ w.calls = v.calls /\ w.plans = v.plans
              /\ \A y : y # m => Blocks(w, y) = Blocks(v, y)
              /\ Blocks(v, m) = <<>> => Blocks(w, m) = SubSeq(bs, 1, k)
           Bad == {k \in 0 .. n : ~Shows(it[1 .. k], k)}
<1>4. Shows(it[1 .. 0], 0)
  <2>1. SubSeq(bs, 1, 0) = <<>>
    OBVIOUS
  <2> QED BY <1>3, <2>1
<1>5. ASSUME NEW k \in 1 .. n, Shows(it[1 .. k - 1], k - 1)
      PROVE  Shows(it[1 .. k], k)
  <2> DEFINE w == it[1 .. k - 1]
  <2> HIDE DEF w
  <2>1. it[1 .. k] = V1Apply(w, Chunk(Some(m), bs[k]))
    BY <1>a, <1>3 DEF w
  <2>2. V1Apply(w, Chunk(Some(m), bs[k])) = With(w, "messages", m, Append(Blocks(w, m), bs[k]))
    BY DEF V1Apply, WithBlock, Chunk, Some
  <2>3. Append(SubSeq(bs, 1, k - 1), bs[k]) = SubSeq(bs, 1, k)
    OBVIOUS
  <2>4. Shows(w, k - 1)
    BY <1>5 DEF w
  <2>5. it[1 .. k] = With(w, "messages", m, Append(Blocks(w, m), bs[k]))
    BY <2>1, <2>2
  <2>6. /\ IsView(it[1 .. k])
        /\ it[1 .. k].calls = w.calls /\ it[1 .. k].plans = w.plans
        /\ \A y : Blocks(it[1 .. k], y) =
                     IF y = m THEN Append(Blocks(w, m), bs[k]) ELSE Blocks(w, y)
    <3> DEFINE x == Append(Blocks(w, m), bs[k])
    <3>1. IsView(w)
      BY <2>4
    <3> HIDE DEF x
    <3>2. /\ IsView(With(w, "messages", m, x))
          /\ With(w, "messages", m, x).calls = w.calls
          /\ With(w, "messages", m, x).plans = w.plans
          /\ \A y : Blocks(With(w, "messages", m, x), y) = IF y = m THEN x ELSE Blocks(w, y)
      BY <3>1, BlocksAre
    <3> QED BY <2>5, <3>2 DEF x
  <2>7. \A y : y # m => Blocks(it[1 .. k], y) = Blocks(v, y)
    BY <2>4, <2>6
  <2>8. Blocks(v, m) = <<>> => Blocks(it[1 .. k], m) = SubSeq(bs, 1, k)
    BY <2>3, <2>4, <2>6
  <2> QED BY <2>4, <2>6, <2>7, <2>8
<1> HIDE DEF Shows
<1>6. Bad = {}
  <2>1. SUFFICES ASSUME Bad # {} PROVE FALSE
    OBVIOUS
  <2>2. PICK k \in Bad : \A j \in Bad : ~(j < k)
    <3>1. Bad \subseteq Nat
      OBVIOUS
    <3> HIDE DEF Bad
    <3> QED BY <2>1, <3>1, LeastNatural
  <2>3. k # 0
    BY <2>2, <1>4
  <2>4. k \in 1 .. n /\ k - 1 \in 0 .. n /\ k - 1 < k
    BY <2>2, <2>3
  <2>5. Shows(it[1 .. k - 1], k - 1)
    BY <2>2, <2>4
  <2> QED BY <2>2, <2>4, <2>5, <1>5
<1>7. Shows(it[1 .. n], n)
  BY <1>6
<1>8. SubSeq(bs, 1, n) = bs
  OBVIOUS
<1>9. FoldLeft(V1Apply, v, us) = it[1 .. n]
  BY <1>2
<1> QED BY <1>7, <1>8, <1>9 DEF Shows, us

-----------------------------------------------------------------------------
(* Two clients that show the same, but for the ids that are gone.           *)

CallsSame(v1, v2, gone) == \A c \in ToolCalls \ gone :
    /\ c \in DOMAIN v1.calls <=> c \in DOMAIN v2.calls
    /\ c \in DOMAIN v1.calls => Alike(v1.calls[c], v2.calls[c])
TextsSame(v1, v2, gone) ==
    /\ \A m \in Messages \ gone : Blocks(v1, m) = Blocks(v2, m)
    /\ v1.plans = v2.plans
Same(v1, v2, gone) ==
    /\ IsView(v1) /\ IsView(v2)
    /\ CallsSame(v1, v2, gone) /\ TextsSame(v1, v2, gone)

\* Views that are the same show the same.
LEMMA SameIs ==
    ASSUME Same(v1View, v2View, strayed)
    PROVE  ToolCallsAgree /\ TextsAgree
BY DEF Same, CallsSame, TextsSame, Alike, ToolCallsAgree, TextsAgree, ShowsV1, ShowsV2

\* The fewer ids it is claimed of, the more views are the same.
LEMMA MoreGone ==
    ASSUME NEW v1, NEW v2, NEW gone, NEW more, Same(v1, v2, gone)
    PROVE  Same(v1, v2, gone \cup more)
BY DEF Same, CallsSame, TextsSame

\* An entry of each view's calls.
LEMMA CallsChange ==
    ASSUME NEW v1, NEW v2, NEW gone, NEW id, NEW x1, NEW x2,
           Same(v1, v2, gone), id \in gone \/ Alike(x1, x2)
    PROVE  Same(With(v1, "calls", id, x1), With(v2, "calls", id, x2), gone)
<1> DEFINE w1 == With(v1, "calls", id, x1)
           w2 == With(v2, "calls", id, x2)
<1>1. /\ w1 = [calls |-> Put(v1.calls, id, x1), messages |-> v1.messages,
               plans |-> v1.plans]
      /\ w2 = [calls |-> Put(v2.calls, id, x2), messages |-> v2.messages,
               plans |-> v2.plans]
  BY WithIs DEF Same
<1> HIDE DEF w1, w2
<1>2. IsView(w1) /\ IsView(w2)
  BY <1>1 DEF IsView
<1>3. w1.calls = Put(v1.calls, id, x1) /\ w2.calls = Put(v2.calls, id, x2)
  BY <1>1
<1>4. CallsSame(w1, w2, gone)
  <2>1. ASSUME NEW c \in ToolCalls \ gone
        PROVE  /\ c \in DOMAIN w1.calls <=> c \in DOMAIN w2.calls
               /\ c \in DOMAIN w1.calls => Alike(w1.calls[c], w2.calls[c])
    <3>1. /\ DOMAIN w1.calls = {id} \cup DOMAIN v1.calls
          /\ DOMAIN w2.calls = {id} \cup DOMAIN v2.calls
          /\ w1.calls[id] = x1 /\ w2.calls[id] = x2
          /\ c \in DOMAIN v1.calls /\ c # id => w1.calls[c] = v1.calls[c]
          /\ c \in DOMAIN v2.calls /\ c # id => w2.calls[c] = v2.calls[c]
      BY <1>3 DEF Put
    <3>2. CASE c = id
      BY <2>1, <3>1, <3>2
    <3>3. CASE c # id
      BY <2>1, <3>1, <3>3 DEF Same, CallsSame
    <3> QED BY <3>2, <3>3
  <2> QED BY <2>1 DEF CallsSame
<1>5. TextsSame(w1, w2, gone)
  <2>1. /\ w1.messages = v1.messages /\ w2.messages = v2.messages
        /\ w1.plans = v1.plans /\ w2.plans = v2.plans
    BY <1>1
  <2> QED BY <2>1 DEF Same, TextsSame, Blocks
<1> QED BY <1>2, <1>4, <1>5 DEF Same, w1, w2

\* Both clients apply an update of a call whose fields say the same.
LEMMA CallStep ==
    ASSUME NEW v1, NEW v2, NEW gone, NEW id, NEW fields1, NEW fields2,
           Same(v1, v2, gone), id \in ToolCalls,
           \A call1, call2 : Alike(call1, call2) =>
                Alike(Updated(call1, fields1), Merged(call2, fields2)),
           Alike(Constructed(fields1), fields2),
           NEW u1, u1.id = id, u1.fields = fields1,
           NEW u2, u2.id = id, u2.fields = fields2,
           NEW more, id \notin DOMAIN v1.calls /\ ~Has(fields1.title) => id \in more
    PROVE  Same(V1Update(v1, u1), V2Update(v2, u2), gone \cup more)
<1> DEFINE x2 == IF id \in DOMAIN v2.calls THEN Merged(v2.calls[id], fields2) ELSE fields2
<1>1. V2Update(v2, u2) = With(v2, "calls", id, x2)
  BY DEF V2Update
<1>2. Same(v1, v2, gone \cup more)
  BY MoreGone
<1>3. CASE id \in DOMAIN v1.calls
  <2>1. V1Update(v1, u1) = With(v1, "calls", id, Updated(v1.calls[id], fields1))
    BY <1>3 DEF V1Update
  <2>2. id \in gone \cup more \/ Alike(Updated(v1.calls[id], fields1), x2)
    BY <1>3 DEF Same, CallsSame
  <2> HIDE DEF x2
  <2> QED BY <1>1, <1>2, <2>1, <2>2, CallsChange
<1>4. CASE id \notin DOMAIN v1.calls /\ Has(fields1.title)
  <2>1. V1Update(v1, u1) = With(v1, "calls", id, Constructed(fields1))
    BY <1>4 DEF V1Update
  <2>2. id \in gone \cup more \/ Alike(Constructed(fields1), x2)
    BY <1>4 DEF Same, CallsSame
  <2> HIDE DEF x2
  <2> QED BY <1>1, <1>2, <2>1, <2>2, CallsChange
<1>5. CASE id \notin DOMAIN v1.calls /\ ~Has(fields1.title)
  <2>1. V1Update(v1, u1) = v1 /\ id \in gone \cup more
    BY <1>5 DEF V1Update
  <2> HIDE DEF x2
  <2>2. Same(v1, With(v2, "calls", id, x2), gone \cup more)
    <3> DEFINE w2 == With(v2, "calls", id, x2)
    <3>1. w2 = [calls |-> Put(v2.calls, id, x2), messages |-> v2.messages,
                plans |-> v2.plans]
      BY WithIs DEF Same
    <3> HIDE DEF w2
    <3>2. /\ IsView(w2) /\ w2.messages = v2.messages /\ w2.plans = v2.plans
          /\ w2.calls = Put(v2.calls, id, x2)
      BY <3>1 DEF IsView
    <3>3. \A c : c # id => /\ c \in DOMAIN w2.calls <=> c \in DOMAIN v2.calls
                           /\ c \in DOMAIN v2.calls => w2.calls[c] = v2.calls[c]
      BY <3>2 DEF Put
    <3>4. CallsSame(v1, w2, gone \cup more)
      BY <1>2, <2>1, <3>3 DEF Same, CallsSame
    <3>5. TextsSame(v1, w2, gone \cup more)
      BY <1>2, <3>2 DEF Same, TextsSame, Blocks
    <3> QED BY <1>2, <3>2, <3>4, <3>5 DEF Same, w2
  <2> QED BY <1>1, <2>1, <2>2
<1> QED BY <1>3, <1>4, <1>5

\* An entry of each view's messages.
LEMMA TextsChange ==
    ASSUME NEW v1, NEW v2, NEW gone, NEW m, NEW w1, NEW w2, NEW x1, NEW x2,
           Same(v1, v2, gone), IsView(w1), IsView(w2),
           w1.calls = v1.calls, w2.calls = v2.calls,
           w1.plans = v1.plans, w2.plans = v2.plans,
           \A y : Blocks(w1, y) = IF y = m THEN x1 ELSE Blocks(v1, y),
           \A y : Blocks(w2, y) = IF y = m THEN x2 ELSE Blocks(v2, y),
           m \in gone \/ x1 = x2 \/ m \notin Messages
    PROVE  Same(w1, w2, gone)
<1>1. CallsSame(w1, w2, gone)
  BY DEF Same, CallsSame
<1>2. TextsSame(w1, w2, gone)
  BY DEF Same, TextsSame
<1> QED BY <1>1, <1>2 DEF Same

\* The same entry in both views' plans.
LEMMA PlansChange ==
    ASSUME NEW v1, NEW v2, NEW gone, NEW plan, NEW entry, Same(v1, v2, gone)
    PROVE  Same(With(v1, "plans", plan, entry), With(v2, "plans", plan, entry), gone)
<1> DEFINE w1 == With(v1, "plans", plan, entry)
           w2 == With(v2, "plans", plan, entry)
<1>1. /\ w1 = [calls |-> v1.calls, messages |-> v1.messages,
               plans |-> Put(v1.plans, plan, entry)]
      /\ w2 = [calls |-> v2.calls, messages |-> v2.messages,
               plans |-> Put(v2.plans, plan, entry)]
  BY WithIs DEF Same
<1> HIDE DEF w1, w2
<1>2. IsView(w1) /\ IsView(w2)
  BY <1>1 DEF IsView
<1>3. /\ w1.calls = v1.calls /\ w2.calls = v2.calls
      /\ w1.messages = v1.messages /\ w2.messages = v2.messages
      /\ w1.plans = Put(v1.plans, plan, entry) /\ w2.plans = Put(v2.plans, plan, entry)
  BY <1>1
<1>4. CallsSame(w1, w2, gone)
  BY <1>3 DEF Same, CallsSame
<1>5. TextsSame(w1, w2, gone)
  BY <1>3 DEF Same, TextsSame, Blocks
<1> QED BY <1>2, <1>4, <1>5 DEF Same, w1, w2

-----------------------------------------------------------------------------
(* What the converters give.                                               *)

Patches2(fields) == [f \in Fields |-> Patch(f, fields[f])]
Options1(fields) == [f \in Fields |-> Option(fields[f])]

\* An update of a call becomes one update of the call, or is refused.
LEMMA UpdateToV2Is ==
    ASSUME NEW id, NEW fields
    PROVE  \/ UpdateToV2(CallUpdate(id, fields)) = Refused
           \/ UpdateToV2(CallUpdate(id, fields)) = <<CallUpdate(id, Patches2(fields))>>
BY DEF UpdateToV2, CallUpdate, Patches2

\* The same towards v1, and what is not refused fits v1.
LEMMA CallToV1Is ==
    ASSUME NEW id, NEW fields
    PROVE  \/ CallToV1(CallUpdate(id, fields)) = Refused
           \/ /\ CallToV1(CallUpdate(id, fields)) = <<CallUpdate(id, Options1(fields))>>
              /\ \A f \in Fields : FitsV1(f, fields[f])
BY DEF CallToV1, CallUpdate, Options1

\* What an agent of v2 sends and v1 can say, v1 says in the same words.
LEMMA FittingIsSame ==
    ASSUME NEW fields \in V2Fields, \A f \in Fields : FitsV1(f, fields[f])
    PROVE  Fits(fields)
<1>1. fields["content"] \in Patches(V2Contents)
  BY DEF V2Fields, AtMostNamed
<1>2. ASSUME NEW f \in Fields, fields[f] # Undefined
      PROVE  InV2(f, fields[f].of) = fields[f].of
  <2>1. CASE f # "content"
    BY <2>1 DEF InV2
  <2>2. CASE f = "content"
    <3>1. fields[f].is = "value" /\ Range(fields[f].of) \subseteq {"text"}
      BY <1>2, <2>2 DEF FitsV1, V1Has
    <3>2. fields[f] \in Patches(V2Contents)
      BY <1>1, <2>2
    <3>3. PICK x \in V2Contents : fields[f] = Value(x)
      BY <3>1, <3>2 DEF Patches, Undefined, Null
    <3>4. fields[f].of = x
      BY <3>3 DEF Value
    <3>5. CASE x = <<>>
      BY <2>2, <3>4, <3>5 DEF InV2, Patched
    <3>6. CASE x = <<"text">>
      <4>1. Patched(<<"text">>) = <<"text">>
        BY DEF Patched
      <4> QED BY <2>2, <3>4, <3>6, <4>1 DEF InV2
    <3>7. CASE x = <<"patch">>
      <4>1. "patch" \in Range(x)
        BY <3>7 DEF Range
      <4> QED BY <3>1, <3>4, <4>1
    <3> QED BY <3>3, <3>5, <3>6, <3>7 DEF V2Contents
  <2> QED BY <2>1, <2>2
<1> QED BY <1>2 DEF Fits

-----------------------------------------------------------------------------
(* A v1 agent and its v2 client.                                           *)

\* An update of a call is relayed to a v2 client.
LEMMA UpdateForV2 ==
    ASSUME Same(v1View, v2View, strayed), NEW id \in ToolCalls, NEW fields,
           NEW more, id \notin DOMAIN v1View.calls /\ ~Has(fields.title) => id \in more
    PROVE  Same(V1Update(v1View, CallUpdate(id, fields)),
                V2Update(v2View, CallUpdate(id, Patches2(fields))), strayed \cup more)
<1>1. \A call1, call2 : Alike(call1, call2) =>
            Alike(Updated(call1, fields), Merged(call2, Patches2(fields)))
  BY PatchesAgree DEF Patches2
<1>2. Alike(Constructed(fields), Patches2(fields))
  BY NewCallsAgree DEF Patches2
<1>3. /\ CallUpdate(id, fields).id = id /\ CallUpdate(id, fields).fields = fields
      /\ CallUpdate(id, Patches2(fields)).id = id
      /\ CallUpdate(id, Patches2(fields)).fields = Patches2(fields)
  BY DEF CallUpdate
<1> QED BY <1>1, <1>2, <1>3, CallStep

KeptForV2(u) ==
    Same(V1Apply(v1View, u), FoldLeft(V2Apply, v2View, ToV2(u)), strayed \cup Strays(u))

\* Whatever a v1 agent sends and is relayed leaves the views the same.
LEMMA StepForV2 ==
    ASSUME Same(v1View, v2View, strayed), NEW u \in V1Updates, ToV2(u) # Refused
    PROVE  KeptForV2(u)
<1>1. ASSUME NEW id \in ToolCalls, NEW fields \in V1Fields, u = CallUpdate(id, fields)
      PROVE  KeptForV2(u)
  <2>1. u.is = "tool_call_update" /\ u.id = id /\ u.fields = fields
    BY <1>1 DEF CallUpdate
  <2>2. ToV2(u) = <<CallUpdate(id, Patches2(fields))>>
    BY <1>1, <2>1, UpdateToV2Is DEF ToV2
  <2>3. V1Apply(v1View, u) = V1Update(v1View, u)
    BY <2>1 DEF V1Apply
  <2>4. FoldLeft(V2Apply, v2View, ToV2(u)) = V2Update(v2View, CallUpdate(id, Patches2(fields)))
    <3> DEFINE v2 == CallUpdate(id, Patches2(fields))
    <3>1. V2Apply(v2View, v2) = V2Update(v2View, v2)
      BY DEF V2Apply, CallUpdate
    <3> HIDE DEF v2
    <3>2. FoldLeft(V2Apply, v2View, <<v2>>) = V2Apply(v2View, v2)
      BY FoldV2OfOne
    <3> QED BY <2>2, <3>1, <3>2 DEF v2
  <2>5. id \notin DOMAIN v1View.calls /\ ~Has(fields.title) => id \in Strays(u)
    BY <2>1 DEF Strays, Untitled, Call, Has
  <2> QED BY <1>1, <2>3, <2>4, <2>5, UpdateForV2 DEF KeptForV2
<1>2. ASSUME NEW id \in ToolCalls, NEW fields,
             u = [is |-> "tool_call", id |-> id, fields |-> fields]
      PROVE  KeptForV2(u)
  <2> DEFINE v2 == CallUpdate(id, Announced(fields))
             x2 == IF id \in DOMAIN v2View.calls
                   THEN Merged(v2View.calls[id], Announced(fields)) ELSE Announced(fields)
  <2>1. u.is = "tool_call" /\ u.id = id /\ u.fields = fields
    BY <1>2
  <2>2. ToV2(u) = <<v2>>
    <3>1. ToV2(u) = ToolCallToV2(u)
      BY <2>1 DEF ToV2
    <3>2. ToolCallToV2(u) \in {Refused, <<CallUpdate(u.id, Announced(u.fields))>>}
      BY DEF ToolCallToV2, Announced, CallUpdate
    <3> QED BY <2>1, <3>1, <3>2
  <2>3. V1Apply(v1View, u) = With(v1View, "calls", id, fields)
    BY <2>1 DEF V1Apply
  <2>4. V2Apply(v2View, v2) = With(v2View, "calls", id, x2)
    BY DEF V2Apply, V2Update, CallUpdate
  <2>5. FoldLeft(V2Apply, v2View, ToV2(u)) = With(v2View, "calls", id, x2)
    BY <2>2, <2>4, FoldV2OfOne
  <2>6. id \in DOMAIN v1View.calls => id \in Strays(u)
    BY <2>1 DEF Strays, Restated, Call
  <2>7. id \in strayed \cup Strays(u) \/ Alike(fields, x2)
    BY <2>6, AnnouncementsAgree DEF Same, CallsSame
  <2>8. Same(v1View, v2View, strayed \cup Strays(u))
    BY MoreGone
  <2> HIDE DEF x2
  <2> QED BY <2>3, <2>5, <2>7, <2>8, CallsChange DEF KeptForV2
<1>3. ASSUME NEW m \in Options(Messages), NEW block \in V1Blocks, u = Chunk(m, block)
      PROVE  KeptForV2(u)
  <2>1. u.is = "chunk" /\ u.message = m /\ u.block = block
    BY <1>3 DEF Chunk
  <2>2. m # None
    BY <2>1 DEF ToV2
  <2>3. PICK mm \in Messages : m = Some(mm)
    BY <2>2 DEF Options
  <2>4. ToV2(u) = <<Chunk(mm, block)>>
    BY <1>3, <2>1, <2>2, <2>3 DEF ToV2, Chunk, Some
  <2> DEFINE x1 == Append(Blocks(v1View, mm), block)
             x2 == Append(Blocks(v2View, mm), block)
             w1 == With(v1View, "messages", mm, x1)
             w2 == With(v2View, "messages", mm, x2)
  <2>5. V1Apply(v1View, u) = w1
    BY <2>1, <2>3 DEF V1Apply, WithBlock, Some
  <2>6. FoldLeft(V2Apply, v2View, ToV2(u)) = w2
    <3>1. V2Apply(v2View, Chunk(mm, block)) = w2
      BY DEF V2Apply, WithBlock, Chunk
    <3>2. FoldLeft(V2Apply, v2View, <<Chunk(mm, block)>>) = V2Apply(v2View, Chunk(mm, block))
      BY FoldV2OfOne
    <3> QED BY <2>4, <3>1, <3>2
  <2>7. Same(v1View, v2View, strayed \cup Strays(u))
    BY MoreGone
  <2>8. mm \in strayed \cup Strays(u) \/ x1 = x2
    BY DEF Same, TextsSame
  <2> HIDE DEF x1, x2
  <2>9. /\ IsView(w1) /\ w1.calls = v1View.calls /\ w1.plans = v1View.plans
        /\ \A y : Blocks(w1, y) = IF y = mm THEN x1 ELSE Blocks(v1View, y)
        /\ IsView(w2) /\ w2.calls = v2View.calls /\ w2.plans = v2View.plans
        /\ \A y : Blocks(w2, y) = IF y = mm THEN x2 ELSE Blocks(v2View, y)
    BY BlocksAre DEF Same
  <2> HIDE DEF w1, w2
  <2> QED BY <2>5, <2>6, <2>7, <2>8, <2>9, TextsChange DEF KeptForV2
<1>4. ASSUME NEW meta, u = [is |-> "plan", entry |-> "pending", meta |-> meta]
      PROVE  KeptForV2(u)
  <2> DEFINE v2 == [is |-> "plan", plan |-> LegacyPlan, entry |-> "pending",
                    meta |-> meta, itemsMeta |-> None]
  <2>1. ToV2(u) = <<v2>>
    BY <1>4 DEF ToV2
  <2>2. V1Apply(v1View, u) = With(v1View, "plans", LegacyPlan, "pending")
    BY <1>4 DEF V1Apply
  <2>3. V2Apply(v2View, v2) = With(v2View, "plans", LegacyPlan, "pending")
    BY DEF V2Apply
  <2>4. FoldLeft(V2Apply, v2View, ToV2(u)) = With(v2View, "plans", LegacyPlan, "pending")
    BY <2>1, <2>3, FoldV2OfOne
  <2>5. Same(v1View, v2View, strayed \cup Strays(u))
    BY MoreGone
  <2> QED BY <2>2, <2>4, <2>5, PlansChange DEF KeptForV2
<1>5. ASSUME NEW id \in ToolCalls, NEW fields \in V1Fields,
             u = [is |-> "permission", call |-> CallUpdate(id, fields)]
      PROVE  KeptForV2(u)
  <2> DEFINE call == CallUpdate(id, Patches2(fields))
             v2   == [is |-> "permission", title |-> fields.title.of,
                      description |-> None, subject |-> "tool_call", call |-> call]
  <2>1. u.is = "permission" /\ u.call = CallUpdate(id, fields) /\ u.call.fields = fields
        /\ u.call.id = id
    BY <1>5 DEF CallUpdate
  <2>2. ToV2(u) = PermissionToV2(u) /\ fields.title \notin {None, Some("empty")}
    BY <2>1 DEF ToV2, PermissionToV2
  <2>3. UpdateToV2(u.call) = <<call>>
    <3>1. UpdateToV2(u.call) # Refused
      BY <2>1, <2>2 DEF PermissionToV2, Refused
    <3> QED BY <2>1, <3>1, UpdateToV2Is
  <2>4. ToV2(u) = <<v2>>
    <3> HIDE DEF call
    <3> QED BY <2>1, <2>2, <2>3 DEF PermissionToV2
  <2>5. V1Apply(v1View, u) = V1Update(v1View, CallUpdate(id, fields))
    BY <2>1 DEF V1Apply
  <2>6. V2Apply(v2View, v2) = V2Update(v2View, call)
    BY DEF V2Apply
  <2>7. FoldLeft(V2Apply, v2View, ToV2(u)) = V2Update(v2View, call)
    BY <2>4, <2>6, FoldV2OfOne
  <2>8. id \notin DOMAIN v1View.calls /\ ~Has(fields.title) => id \in Strays(u)
    BY <2>1 DEF Strays, Untitled, Call, Has
  <2> QED BY <2>5, <2>7, <2>8, UpdateForV2 DEF KeptForV2
<1>6. u # [is |-> "current_mode"]
  BY DEF ToV2
<1> QED BY <1>1, <1>2, <1>3, <1>4, <1>5, <1>6, KindsOfV1

-----------------------------------------------------------------------------
(* A v2 agent and its v1 client.                                           *)

\* An update of a call is relayed to a v1 client.
LEMMA UpdateForV1 ==
    ASSUME Same(v1View, v2View, strayed), NEW id \in ToolCalls, NEW fields, Fits(fields),
           NEW more, id \notin DOMAIN v1View.calls /\ fields["title"] = Undefined => id \in more
    PROVE  Same(V1Update(v1View, CallUpdate(id, Options1(fields))),
                V2Update(v2View, CallUpdate(id, fields)), strayed \cup more)
<1>1. \A call1, call2 : Alike(call1, call2) =>
            Alike(Updated(call1, Options1(fields)), Merged(call2, fields))
  BY OptionsAgree DEF Options1
<1>2. Alike(Constructed(Options1(fields)), fields)
  BY NewOptionsAgree DEF Options1
<1>3. /\ CallUpdate(id, fields).id = id /\ CallUpdate(id, fields).fields = fields
      /\ CallUpdate(id, Options1(fields)).id = id
      /\ CallUpdate(id, Options1(fields)).fields = Options1(fields)
  BY DEF CallUpdate
<1>4. ~Has(Options1(fields).title) => fields["title"] = Undefined
  BY DEF Options1, Option, Has, Fields, Some, None
<1> QED BY <1>1, <1>2, <1>3, <1>4, CallStep

KeptForV1(u) ==
    Same(FoldLeft(V1Apply, v1View, ToV1(u)), V2Apply(v2View, u), strayed \cup Strays(u))

\* Whatever a v2 agent sends and is relayed leaves the views the same.
LEMMA StepForV1 ==
    ASSUME Same(v1View, v2View, strayed), NEW u \in V2Updates, ToV1(u) # Refused
    PROVE  KeptForV1(u)
<1>0. Same(v1View, v2View, strayed \cup Strays(u))
  BY MoreGone
<1>1. ASSUME NEW id \in ToolCalls, NEW fields \in V2Fields, u = CallUpdate(id, fields)
      PROVE  KeptForV1(u)
  <2> DEFINE v1 == CallUpdate(id, Options1(fields))
  <2>1. u.is = "tool_call_update" /\ u.id = id /\ u.fields = fields
    BY <1>1 DEF CallUpdate
  <2>2. ToV1(u) = CallToV1(u)
    BY <2>1 DEF ToV1
  <2>3. ToV1(u) = <<v1>> /\ Fits(fields)
    BY <1>1, <2>2, CallToV1Is, FittingIsSame
  <2>4. V1Apply(v1View, v1) = V1Update(v1View, v1)
    BY DEF V1Apply, CallUpdate
  <2>5. FoldLeft(V1Apply, v1View, <<v1>>) = V1Apply(v1View, v1)
    BY FoldV1OfOne
  <2>6. V2Apply(v2View, u) = V2Update(v2View, u)
    BY <2>1 DEF V2Apply
  <2>7. id \notin DOMAIN v1View.calls /\ fields["title"] = Undefined => id \in Strays(u)
    BY <2>1 DEF Strays, Untitled, Call
  <2> QED BY <1>1, <2>3, <2>4, <2>5, <2>6, <2>7, UpdateForV1 DEF KeptForV1
<1>2. ASSUME NEW m \in Messages, NEW content \in Patches(SeqOf(V2Blocks, MaxContent)),
             u = [is |-> "message", message |-> m, content |-> content]
      PROVE  KeptForV1(u)
  <2>1. u.is = "message" /\ u.message = m /\ u.content = content
    BY <1>2
  <2>2. ToV1(u) = MessageToV1(u)
    BY <2>1 DEF ToV1
  <2> DEFINE bs == content.of
  <2>3. content.is = "value" /\ Range(bs) \subseteq V1Blocks
    BY <2>1, <2>2 DEF MessageToV1
  <2>4. PICK n \in 0 .. MaxContent : bs \in [1 .. n -> V2Blocks]
    <3>1. PICK x \in SeqOf(V2Blocks, MaxContent) : content = Value(x)
      BY <2>3 DEF Patches, Undefined, Null
    <3>2. x = bs
      BY <3>1 DEF Value
    <3> QED BY <3>1, <3>2 DEF SeqOf
  <2>5. ToV1(u) = [i \in DOMAIN bs |-> Chunk(Some(m), bs[i])]
    BY <2>1, <2>2, <2>3 DEF MessageToV1, Chunk
  <2> HIDE DEF bs
  <2>6. bs \in Seq(V1Blocks) /\ Len(bs) = n /\ DOMAIN bs = 1 .. n /\ n \in Nat
    <3>1. \A i \in 1 .. n : bs[i] \in V1Blocks
      BY <2>3, <2>4 DEF Range
    <3>2. bs \in [1 .. n -> V1Blocks]
      BY <2>4, <3>1
    <3> QED BY <2>4, <3>2
  <2> DEFINE w1 == FoldLeft(V1Apply, v1View, ToV1(u))
             w2 == With(v2View, "messages", m, bs)
  <2>7. IsView(v1View) /\ IsView(v2View)
    BY DEF Same
  <2>8. /\ IsView(w1) /\ w1.calls = v1View.calls /\ w1.plans = v1View.plans
        /\ \A y : y # m => Blocks(w1, y) = Blocks(v1View, y)
        /\ Blocks(v1View, m) = <<>> => Blocks(w1, m) = bs
    <3> DEFINE us == [i \in DOMAIN bs |-> Chunk(Some(m), bs[i])]
               w  == FoldLeft(V1Apply, v1View, us)
    <3>1. /\ IsView(w) /\ w.calls = v1View.calls /\ w.plans = v1View.plans
          /\ \A y : y # m => Blocks(w, y) = Blocks(v1View, y)
          /\ Blocks(v1View, m) = <<>> => Blocks(w, m) = bs
      BY <2>6, <2>7, ChunksMakeTheMessage
    <3>2. w1 = w
      BY <2>5
    <3> HIDE DEF w1, w
    <3> QED BY <3>1, <3>2
  <2>9. /\ IsView(w2) /\ w2.calls = v2View.calls /\ w2.plans = v2View.plans
        /\ \A y : Blocks(w2, y) = IF y = m THEN bs ELSE Blocks(v2View, y)
    BY <2>7, BlocksAre
  <2>10. V2Apply(v2View, u) = w2
    BY <2>1 DEF V2Apply, bs
  <2>11. Blocks(v1View, m) # <<>> => m \in Strays(u)
    BY <2>1 DEF Strays, Restated
  <2> HIDE DEF w1, w2
  <2>12. m \in strayed \cup Strays(u) \/ Blocks(w1, m) = bs
    BY <2>8, <2>11
  <2>13. PICK x1 : x1 = Blocks(w1, m)
    OBVIOUS
  <2>14. \A y : Blocks(w1, y) = IF y = m THEN x1 ELSE Blocks(v1View, y)
    BY <2>8, <2>13
  <2>15. Same(w1, w2, strayed \cup Strays(u))
    <3>1. m \in strayed \cup Strays(u) \/ x1 = bs
      BY <2>12, <2>13
    <3>2. IsView(w1) /\ w1.calls = v1View.calls /\ w1.plans = v1View.plans
      BY <2>8
    <3> QED BY <1>0, <2>9, <2>14, <3>1, <3>2, TextsChange
  <2> QED BY <2>10, <2>15 DEF w1, KeptForV1
<1>3. ASSUME NEW m \in Messages, NEW block \in V2Blocks, u = Chunk(m, block)
      PROVE  KeptForV1(u)
  <2>1. u.is = "chunk" /\ u.message = m /\ u.block = block
    BY <1>3 DEF Chunk
  <2>2. ToV1(u) = <<Chunk(Some(m), block)>>
    BY <1>3, <2>1 DEF ToV1, Chunk
  <2> DEFINE x1 == Append(Blocks(v1View, m), block)
             x2 == Append(Blocks(v2View, m), block)
             w1 == With(v1View, "messages", m, x1)
             w2 == With(v2View, "messages", m, x2)
  <2>3. V2Apply(v2View, u) = w2
    BY <2>1 DEF V2Apply, WithBlock
  <2>4. FoldLeft(V1Apply, v1View, ToV1(u)) = w1
    <3>1. V1Apply(v1View, Chunk(Some(m), block)) = w1
      BY DEF V1Apply, WithBlock, Chunk, Some
    <3>2. FoldLeft(V1Apply, v1View, <<Chunk(Some(m), block)>>)
            = V1Apply(v1View, Chunk(Some(m), block))
      BY FoldV1OfOne
    <3> QED BY <2>2, <3>1, <3>2
  <2>5. m \in strayed \cup Strays(u) \/ x1 = x2
    BY DEF Same, TextsSame
  <2> HIDE DEF x1, x2
  <2>6. /\ IsView(w1) /\ w1.calls = v1View.calls /\ w1.plans = v1View.plans
        /\ \A y : Blocks(w1, y) = IF y = m THEN x1 ELSE Blocks(v1View, y)
        /\ IsView(w2) /\ w2.calls = v2View.calls /\ w2.plans = v2View.plans
        /\ \A y : Blocks(w2, y) = IF y = m THEN x2 ELSE Blocks(v2View, y)
    BY BlocksAre DEF Same
  <2> HIDE DEF w1, w2
  <2> QED BY <1>0, <2>3, <2>4, <2>5, <2>6, TextsChange DEF KeptForV1
<1>4. ASSUME NEW plan, NEW entry, NEW meta, NEW itemsMeta,
             u = [is |-> "plan", plan |-> plan, entry |-> entry, meta |-> meta,
                  itemsMeta |-> itemsMeta]
      PROVE  KeptForV1(u)
  <2>1. u.is = "plan" /\ u.plan = plan /\ u.entry = entry
    BY <1>4
  <2>2. ToV1(u) = PlanToV1(u)
    BY <2>1 DEF ToV1
  <2>3. plan = LegacyPlan /\ \E x : ToV1(u) = <<[is |-> "plan", entry |-> entry, meta |-> x]>>
    BY <2>1, <2>2 DEF PlanToV1
  <2>4. PICK x : ToV1(u) = <<[is |-> "plan", entry |-> entry, meta |-> x]>>
    BY <2>3
  <2> DEFINE v1 == [is |-> "plan", entry |-> entry, meta |-> x]
  <2>5. V1Apply(v1View, v1) = With(v1View, "plans", LegacyPlan, entry)
    BY DEF V1Apply
  <2>6. V2Apply(v2View, u) = With(v2View, "plans", LegacyPlan, entry)
    BY <2>1, <2>3 DEF V2Apply
  <2>7. ToV1(u) = <<v1>>
    BY <2>4
  <2> HIDE DEF v1
  <2>8. FoldLeft(V1Apply, v1View, <<v1>>) = V1Apply(v1View, v1)
    BY FoldV1OfOne
  <2> QED BY <1>0, <2>5, <2>6, <2>7, <2>8, PlansChange DEF KeptForV1
<1>5. ASSUME NEW id \in ToolCalls, NEW fields \in V2Fields, NEW title, NEW description,
             NEW subject,
             u = [is |-> "permission", title |-> title, description |-> description,
                  subject |-> subject, call |-> CallUpdate(id, fields)]
      PROVE  KeptForV1(u)
  <2> DEFINE call == CallUpdate(id, Options1(fields))
             v1   == [is |-> "permission", call |-> call]
  <2>1. u.is = "permission" /\ u.call = CallUpdate(id, fields) /\ u.title = title
        /\ u.call.fields = fields
    BY <1>5 DEF CallUpdate
  <2>2. ToV1(u) = PermissionToV1(u)
    BY <2>1 DEF ToV1
  <2>3. /\ fields.title = Value(title)
        /\ ToV1(u) = [i \in DOMAIN CallToV1(u.call) |->
                        [is |-> "permission", call |-> CallToV1(u.call)[i]]]
    BY <2>1, <2>2 DEF PermissionToV1
  <2>4. CallToV1(u.call) # Refused
    BY <2>3 DEF Refused
  <2>5. CallToV1(u.call) = <<call>> /\ Fits(fields)
    BY <2>1, <2>4, CallToV1Is, FittingIsSame
  <2> HIDE DEF call
  <2>6. ToV1(u) = <<v1>>
    BY <2>3, <2>5
  <2>7. V1Apply(v1View, v1) = V1Update(v1View, call)
    BY DEF V1Apply
  <2>8. V2Apply(v2View, u) = V2Update(v2View, CallUpdate(id, fields))
    BY <2>1 DEF V2Apply
  <2> HIDE DEF v1
  <2>9. FoldLeft(V1Apply, v1View, <<v1>>) = V1Apply(v1View, v1)
    BY FoldV1OfOne
  <2>10. fields["title"] # Undefined
    BY <2>3 DEF Value, Undefined
  <2>11. Same(V1Update(v1View, call), V2Update(v2View, CallUpdate(id, fields)),
              strayed \cup Strays(u))
    BY <2>5, <2>10, UpdateForV1 DEF call
  <2> QED BY <2>6, <2>7, <2>8, <2>9, <2>11 DEF KeptForV1
<1>6. u.is # "content_chunk" /\ u.is # "only_v2"
  BY DEF ToV1
<1>7. CASE \E plan \in {LegacyPlan, "second"}, entry \in {"pending", "cancelled"},
              meta \in Options({"m"}), itemsMeta \in Options({"m", "n"}) :
              u = [is |-> "plan", plan |-> plan, entry |-> entry, meta |-> meta,
                   itemsMeta |-> itemsMeta]
  BY <1>4, <1>7
<1>8. CASE \E title \in {"run", "Run it?"}, description \in Options({"why"}),
              subject \in {"tool_call", "command", "other", "none"},
              id \in ToolCalls, fields \in V2Fields :
              u = [is |-> "permission", title |-> title, description |-> description,
                   subject |-> subject, call |-> CallUpdate(id, fields)]
  BY <1>5, <1>8
<1> QED BY <1>1, <1>2, <1>3, <1>6, <1>7, <1>8, KindsOfV2

-----------------------------------------------------------------------------
(* The invariant.                                                          *)

WireIsSent == wire = Nothing \/ wire \in IF speaks = 1 THEN V1Updates ELSE V2Updates

TranslationInv ==
    /\ speaks \in {1, 2}
    /\ WireIsSent
    /\ Same(v1View, v2View, strayed)

\* A session begins with two empty views.
LEMMA Begins == TranslationInit => TranslationInv
<1> SUFFICES ASSUME TranslationInit PROVE TranslationInv
  OBVIOUS
<1>1. IsView(EmptyView)
  BY DEF IsView, EmptyView
<1>2. DOMAIN EmptyView.calls = {} /\ DOMAIN EmptyView.messages = {}
  BY DEF EmptyView
<1>3. Same(v1View, v2View, strayed)
  BY <1>1, <1>2 DEF TranslationInit, Same, CallsSame, TextsSame
<1> QED BY <1>3 DEF TranslationInit, TranslationInv, WireIsSent

\* Every step keeps the invariant.
LEMMA Goes == TranslationInv /\ [TranslationNext]_translationVars => TranslationInv'
<1> SUFFICES ASSUME TranslationInv, [TranslationNext]_translationVars PROVE TranslationInv'
  OBVIOUS
<1>1. CASE Send
  <2>1. /\ wire' \in (IF speaks = 1 THEN V1Updates ELSE V2Updates)
        /\ UNCHANGED <<speaks, v1View, v2View, strayed>>
    BY <1>1 DEF Send
  <2> QED BY <2>1 DEF TranslationInv, WireIsSent
<1>2. CASE ToV2Client
  <2>1. /\ speaks = 1 /\ speaks' = 1 /\ wire \in V1Updates /\ wire' = Nothing
        /\ strayed' = IF ToV2(wire) = Refused THEN strayed ELSE strayed \cup Strays(wire)
        /\ v1View' = IF ToV2(wire) = Refused THEN v1View ELSE V1Apply(v1View, wire)
        /\ v2View' = FoldLeft(V2Apply, v2View, ToV2(wire))
    BY <1>2 DEF ToV2Client, Relay, There, TranslationInv, WireIsSent
  <2>2. CASE ToV2(wire) = Refused
    <3>1. v2View' = v2View
      BY <2>1, <2>2, FoldV2OfNone DEF Refused
    <3> QED BY <2>1, <2>2, <3>1 DEF TranslationInv, WireIsSent
  <2>3. CASE ToV2(wire) # Refused
    <3>1. Same(v1View, v2View, strayed)'
      BY <2>1, <2>3, StepForV2 DEF TranslationInv, KeptForV2
    <3> QED BY <2>1, <3>1 DEF TranslationInv, WireIsSent
  <2> QED BY <2>2, <2>3
<1>3. CASE ToV1Client
  <2>1. /\ speaks = 2 /\ speaks' = 2 /\ wire \in V2Updates /\ wire' = Nothing
        /\ strayed' = IF ToV1(wire) = Refused THEN strayed ELSE strayed \cup Strays(wire)
        /\ v1View' = FoldLeft(V1Apply, v1View, ToV1(wire))
        /\ v2View' = IF ToV1(wire) = Refused THEN v2View ELSE V2Apply(v2View, wire)
    BY <1>3 DEF ToV1Client, Relay, There, TranslationInv, WireIsSent
  <2>2. CASE ToV1(wire) = Refused
    <3>1. v1View' = v1View
      BY <2>1, <2>2, FoldV1OfNone DEF Refused
    <3> QED BY <2>1, <2>2, <3>1 DEF TranslationInv, WireIsSent
  <2>3. CASE ToV1(wire) # Refused
    <3>1. Same(v1View, v2View, strayed)'
      BY <2>1, <2>3, StepForV1 DEF TranslationInv, KeptForV1
    <3> QED BY <2>1, <3>1 DEF TranslationInv, WireIsSent
  <2> QED BY <2>2, <2>3
<1>4. CASE UNCHANGED translationVars
  BY <1>4 DEF translationVars, TranslationInv, WireIsSent
<1> QED BY <1>1, <1>2, <1>3, <1>4 DEF TranslationNext

\* What is on its way was sent by the agent, and the two clients show the same.
THEOREM Invariance == TranslationSpec => []TranslationInv
<1> QED BY Begins, Goes, PTL DEF TranslationSpec

\* However an agent patches its tool calls, by updates, announcements and
\* permission requests, clients of both versions show the same call.
THEOREM ClientsShowTheSameCalls == TranslationSpec => []ToolCallsAgree
<1>1. TranslationInv => ToolCallsAgree
  BY SameIs DEF TranslationInv
<1> QED BY Invariance, <1>1, PTL

\* Chunks and whole messages, fanned out to chunks, amount to the same blocks in
\* both versions, for messages of any length, and the plan is the same
\* (conversion.rs:1231-1266 and :1753-1799).
THEOREM ClientsShowTheSameTexts == TranslationSpec => []TextsAgree
<1>1. TranslationInv => TextsAgree
  BY SameIs DEF TranslationInv
<1> QED BY Invariance, <1>1, PTL
-----------------------------------------------------------------------------
(* There and back.                                                         *)

\* FlattenSeq is a recursive function of the places.
Flattened(seqs, it) ==
    it = [i \in 1 .. Len(seqs) |-> IF i = 1 THEN seqs[i] ELSE it[i - 1] \o seqs[i]]

\* FlattenSeq is the last value of that function.
LEMMA FlattenIs ==
    ASSUME NEW seqs, Len(seqs) # 0, \E it : Flattened(seqs, it)
    PROVE  \E it : Flattened(seqs, it) /\ FlattenSeq(seqs) = it[Len(seqs)]
<1> DEFINE it == CHOOSE f : Flattened(seqs, f)
<1>1. Flattened(seqs, it)
  OBVIOUS
<1>2. FlattenSeq(seqs) = it[Len(seqs)]
  BY DEF FlattenSeq, Flattened
<1> QED BY <1>1, <1>2

\* A sequence of one sequence.
LEMMA FlattenOfOne ==
    ASSUME NEW x
    PROVE  FlattenSeq(<<x>>) = x
<1>1. PICK seqs : seqs = <<x>>
  OBVIOUS
<1>2. Len(seqs) = 1 /\ seqs[1] = x
  BY <1>1
<1> DEFINE w == [i \in 1 .. 1 |-> x]
<1>3. Flattened(seqs, w)
  BY <1>2 DEF Flattened
<1> HIDE DEF w
<1>4. PICK it : Flattened(seqs, it) /\ FlattenSeq(seqs) = it[Len(seqs)]
  BY <1>2, <1>3, FlattenIs
<1>5. it[1] = x
  BY <1>2, <1>4 DEF Flattened
<1> QED BY <1>1, <1>2, <1>4, <1>5

\* Sequences of one element, one after the other.
LEMMA FlattenOfSingles ==
    ASSUME NEW S, NEW s \in Seq(S), s # <<>>,
           NEW seqs, DOMAIN seqs = 1 .. Len(s), Len(seqs) = Len(s),
           \A i \in 1 .. Len(s) : seqs[i] = <<s[i]>>
    PROVE  FlattenSeq(seqs) = s
<1> DEFINE n == Len(s)
           w == [i \in 1 .. n |-> SubSeq(s, 1, i)]
<1>1. n \in Nat \ {0} /\ \A i \in 1 .. n : s[i] \in S
  OBVIOUS
<1>2. \A i \in 1 .. n : i # 1 => SubSeq(s, 1, i) = SubSeq(s, 1, i - 1) \o <<s[i]>>
  <2>1. ASSUME NEW i \in 1 .. n, i # 1
        PROVE  SubSeq(s, 1, i) = SubSeq(s, 1, i - 1) \o <<s[i]>>
    <3>1. 1 \in 1 .. Len(s) /\ i \in 1 .. Len(s) /\ i - 1 \in Nat
      BY <1>1, <2>1
    <3> QED BY <3>1, SubSeqRecursiveSecond
  <2> QED BY <2>1
<1>3. SubSeq(s, 1, 1) = <<s[1]>>
  <2>1. SubSeq(s, 1, 1) = SubSeq(s, 1, 0) \o <<s[1]>>
    <3>1. 1 \in 1 .. Len(s) /\ 1 - 1 = 0
      BY <1>1
    <3> QED BY <3>1, SubSeqRecursiveSecond
  <2>2. SubSeq(s, 1, 0) = <<>>
    OBVIOUS
  <2>3. <<s[1]>> \in Seq(S)
    BY <1>1
  <2>4. \A q \in Seq(S) : <<>> \o q = q
    OBVIOUS
  <2> QED BY <2>1, <2>2, <2>3, <2>4
<1>4. ASSUME NEW i \in 1 .. n
      PROVE  w[i] = IF i = 1 THEN seqs[i] ELSE w[i - 1] \o seqs[i]
  <2>1. CASE i = 1
    BY <1>3, <2>1
  <2>2. CASE i # 1
    <3>1. i - 1 \in 1 .. n /\ w[i - 1] = SubSeq(s, 1, i - 1) /\ w[i] = SubSeq(s, 1, i)
      BY <1>1, <2>2
    <3>2. seqs[i] = <<s[i]>>
      OBVIOUS
    <3> HIDE DEF w
    <3> QED BY <1>2, <2>2, <3>1, <3>2
  <2> QED BY <2>1, <2>2
<1>5. Flattened(seqs, w)
  <2>1. w = [i \in 1 .. n |-> w[i]] /\ n = Len(seqs)
    OBVIOUS
  <2> HIDE DEF w, n
  <2> QED BY <1>4, <2>1 DEF Flattened
<1>6. PICK it : Flattened(seqs, it) /\ FlattenSeq(seqs) = it[n]
  BY <1>1, <1>5, FlattenIs
<1>7. \A i \in 1 .. n : it[i] = IF i = 1 THEN seqs[i] ELSE it[i - 1] \o seqs[i]
  BY <1>6 DEF Flattened
<1> DEFINE Bad == {k \in 1 .. n : it[k] # SubSeq(s, 1, k)}
<1>8. Bad = {}
  <2>1. SUFFICES ASSUME Bad # {} PROVE FALSE
    OBVIOUS
  <2>2. PICK k \in Bad : \A j \in Bad : ~(j < k)
    <3>1. Bad \subseteq Nat
      OBVIOUS
    <3> HIDE DEF Bad
    <3> QED BY <2>1, <3>1, LeastNatural
  <2>3. k # 1
    BY <1>3, <1>7, <2>2
  <2>4. k \in 1 .. n /\ k - 1 \in 1 .. n /\ k - 1 < k
    BY <1>1, <2>2, <2>3
  <2>5. it[k - 1] = SubSeq(s, 1, k - 1)
    BY <2>2, <2>4
  <2>6. it[k] = SubSeq(s, 1, k - 1) \o <<s[k]>>
    BY <1>7, <2>3, <2>4, <2>5
  <2> QED BY <1>2, <2>2, <2>3, <2>4, <2>6
<1>9. it[n] = SubSeq(s, 1, n)
  BY <1>1, <1>8
<1>10. SubSeq(s, 1, n) = s
  BY SubSeqFull
<1> QED BY <1>6, <1>9, <1>10

\* What v1 can say of the content of a v1 call is not a diff.
LEMMA DiffsDoNotComeBack ==
    ASSUME NEW f \in Fields, NEW x, f = "content" => x \in V1Contents,
           V1Has(f, InV2(f, x))
    PROVE  InV2(f, x) = x
<1>1. CASE f # "content"
  BY <1>1 DEF InV2
<1>2. CASE f = "content"
  <2>1. Range(Patched(x)) \subseteq {"text"} /\ x \in V1Contents
    BY <1>2 DEF InV2, V1Has
  <2>2. CASE x = <<>>
    BY <1>2, <2>2 DEF InV2, Patched
  <2>3. CASE x = <<"text">>
    <3>1. Patched(<<"text">>) = <<"text">>
      BY DEF Patched
    <3> QED BY <1>2, <2>3, <3>1 DEF InV2
  <2>4. CASE x \in {<<"diff">>, <<"terminal">>}
    <3>1. 1 \in DOMAIN x /\ x[1] # "text"
      BY <2>4
    <3>2. 1 \in DOMAIN Patched(x) /\ Patched(x)[1] # "text"
      BY <3>1 DEF Patched
    <3>3. Patched(x)[1] \in Range(Patched(x))
      BY <3>2 DEF Range
    <3> QED BY <2>1, <3>2, <3>3
  <2> QED BY <2>1, <2>2, <2>3, <2>4 DEF V1Contents
<1> QED BY <1>1, <1>2

\* The fields a v1 agent names.
LEMMA V1FieldsAre ==
    ASSUME NEW fields \in V1Fields, NEW f \in Fields
    PROVE  /\ fields = [g \in Fields |-> fields[g]]
           /\ fields[f] # None => fields[f] = Some(fields[f].of)
           /\ fields[f] # None /\ f = "content" => fields[f].of \in V1Contents
<1>1. fields \in [title : Options({"empty", "run"}), kind : Options({"other", "edit"}),
                  status : Options({"pending", "completed"}),
                  content : Options(V1Contents), raw_input : Options({"args"})]
  BY DEF V1Fields, AtMostNamed
<1>2. fields = [g \in Fields |-> fields[g]]
  BY <1>1 DEF Fields
<1>3. \A values : \A x \in Options(values) :
          x # None => x = Some(x.of) /\ x.of \in values
  BY DEF Options, Some
<1>4. /\ fields["title"] \in Options({"empty", "run"})
      /\ fields["kind"] \in Options({"other", "edit"})
      /\ fields["status"] \in Options({"pending", "completed"})
      /\ fields["content"] \in Options(V1Contents)
      /\ fields["raw_input"] \in Options({"args"})
  BY <1>1
<1>5. \E values : /\ fields[f] \in Options(values)
                  /\ f = "content" => values = V1Contents
  BY <1>4 DEF Fields
<1> QED BY <1>2, <1>3, <1>5

\* The fields a v2 agent names.
LEMMA V2FieldsAre ==
    ASSUME NEW fields \in V2Fields, NEW f \in Fields
    PROVE  /\ fields = [g \in Fields |-> fields[g]]
           /\ fields[f] \notin {Undefined, Null} => fields[f] = Value(fields[f].of)
<1>1. fields \in [title : Patches({"run"}), kind : Patches({"other", "edit", "new_kind"}),
                  status : Patches({"pending", "completed", "cancelled"}),
                  content : Patches(V2Contents), raw_input : Patches({"args"})]
  BY DEF V2Fields, AtMostNamed
<1>2. fields = [g \in Fields |-> fields[g]]
  BY <1>1 DEF Fields
<1>3. \A values : \A x \in Patches(values) :
          x \notin {Undefined, Null} => x = Value(x.of)
  BY DEF Patches, Value
<1>4. /\ fields["title"] \in Patches({"run"})
      /\ fields["kind"] \in Patches({"other", "edit", "new_kind"})
      /\ fields["status"] \in Patches({"pending", "completed", "cancelled"})
      /\ fields["content"] \in Patches(V2Contents)
      /\ fields["raw_input"] \in Patches({"args"})
  BY <1>1
<1>5. \E values : fields[f] \in Patches(values)
  BY <1>4 DEF Fields
<1> QED BY <1>2, <1>3, <1>5

\* The fields of an update come back as they were.
LEMMA FieldsComeBackToV1 ==
    ASSUME NEW fields \in V1Fields,
           \A f \in Fields : FitsV1(f, Patches2(fields)[f])
    PROVE  Options1(Patches2(fields)) = fields
<1>1. ASSUME NEW f \in Fields
      PROVE  Options1(Patches2(fields))[f] = fields[f]
  <2>1. CASE fields[f] = None
    <3>1. Patches2(fields)[f] = Undefined
      BY <2>1 DEF Patches2, Patch
    <3> QED BY <2>1, <3>1 DEF Options1, Option
  <2>2. CASE fields[f] # None
    <3>1. Patches2(fields)[f] = Value(InV2(f, fields[f].of))
      BY <2>2 DEF Patches2, Patch
    <3>2. Options1(Patches2(fields))[f] = Some(InV2(f, fields[f].of))
      BY <3>1 DEF Options1, Option, Value, Undefined
    <3>3. V1Has(f, InV2(f, fields[f].of))
      BY <3>1 DEF FitsV1, Value, Undefined
    <3>4. f = "content" => fields[f].of \in V1Contents
      BY <2>2, V1FieldsAre
    <3>5. InV2(f, fields[f].of) = fields[f].of
      BY <3>3, <3>4, DiffsDoNotComeBack
    <3> QED BY <2>2, <3>2, <3>5, V1FieldsAre
  <2> QED BY <2>1, <2>2
<1>2. fields = [g \in Fields |-> fields[g]]
  BY V1FieldsAre DEF Fields
<1> QED BY <1>1, <1>2 DEF Options1

\* The same of an agent of v2.
LEMMA FieldsComeBackToV2 ==
    ASSUME NEW fields \in V2Fields, Fits(fields)
    PROVE  Patches2(Options1(fields)) = fields
<1>1. ASSUME NEW f \in Fields
      PROVE  Patches2(Options1(fields))[f] = fields[f]
  <2>1. CASE fields[f] = Undefined
    <3>1. Options1(fields)[f] = None
      BY <2>1 DEF Options1, Option
    <3> QED BY <2>1, <3>1 DEF Patches2, Patch
  <2>2. CASE fields[f] # Undefined
    <3>1. Options1(fields)[f] = Some(fields[f].of)
      BY <2>2 DEF Options1, Option
    <3>2. Patches2(Options1(fields))[f] = Value(InV2(f, fields[f].of))
      BY <3>1 DEF Patches2, Patch, Some, None
    <3>3. fields[f].is = "value" /\ InV2(f, fields[f].of) = fields[f].of
      BY <2>2 DEF Fits, FitsV1
    <3>4. fields[f] = Value(fields[f].of)
      BY <2>2, <3>3, V2FieldsAre DEF Null
    <3> QED BY <3>2, <3>3, <3>4
  <2> QED BY <2>1, <2>2
<1>2. fields = [g \in Fields |-> fields[g]]
  BY V2FieldsAre DEF Fields
<1> QED BY <1>1, <1>2 DEF Patches2

IsLost(u) == There(u) # Refused /\ Back(u) # Refused /\ ~IsBack(u, Back(u))

RoundTrip1(u) == ToV1(ToV2(u)[1])

\* An update of a v1 agent, to v2 and back.
LEMMA NothingIsLostToV2 ==
    ASSUME speaks = 1, NEW u \in V1Updates
    PROVE  ~IsLost(u)
<1> DEFINE back == RoundTrip1(u)
<1> SUFFICES ASSUME ToV2(u) # Refused, back # Refused
             PROVE  IsBack(u, back)
  BY DEF IsLost, There, Back, RoundTrip1
<1>0. back = ToV1(ToV2(u)[1])
  BY DEF RoundTrip1
<1> HIDE DEF back
<1>1. ASSUME NEW id \in ToolCalls, NEW fields \in V1Fields, u = CallUpdate(id, fields)
      PROVE  IsBack(u, back)
  <2>1. u.is = "tool_call_update"
    BY <1>1 DEF CallUpdate
  <2> DEFINE v2 == CallUpdate(id, Patches2(fields))
  <2>2. ToV2(u)[1] = v2
    BY <1>1, <2>1, UpdateToV2Is DEF ToV2
  <2>3. ToV1(v2) = CallToV1(v2)
    BY DEF ToV1, CallUpdate
  <2>4. /\ CallToV1(v2) = <<CallUpdate(id, Options1(Patches2(fields)))>>
        /\ \A f \in Fields : FitsV1(f, Patches2(fields)[f])
    BY <1>0, <2>2, <2>3, CallToV1Is
  <2>5. back = <<u>>
    BY <1>0, <1>1, <2>2, <2>3, <2>4, FieldsComeBackToV1
  <2> QED BY <2>1, <2>5 DEF IsBack
<1>2. ASSUME NEW id \in ToolCalls, NEW fields,
             fields \in NewCalls,
             u = [is |-> "tool_call", id |-> id, fields |-> fields]
      PROVE  IsBack(u, back)
  <2>1. u.is = "tool_call" /\ u.id = id /\ u.fields = fields
    BY <1>2
  <2> DEFINE v2 == CallUpdate(id, Announced(fields))
  <2>2. ToV2(u)[1] = v2
    <3>1. ToV2(u) = ToolCallToV2(u)
      BY <2>1 DEF ToV2
    <3>2. ToolCallToV2(u) \in {Refused, <<CallUpdate(u.id, Announced(u.fields))>>}
      BY DEF ToolCallToV2, Announced, CallUpdate
    <3> QED BY <2>1, <3>1, <3>2
  <2>3. ToV1(v2) = CallToV1(v2)
    BY DEF ToV1, CallUpdate
  <2>4. /\ back = <<CallUpdate(id, Options1(Announced(fields)))>>
        /\ \A f \in Fields : FitsV1(f, Announced(fields)[f])
    BY <1>0, <2>2, <2>3, CallToV1Is
  <2>5. back[1].fields = Options1(Announced(fields))
    BY <2>4 DEF CallUpdate
  <2>6. ASSUME NEW f \in Fields
        PROVE  Constructed(Options1(Announced(fields)))[f] = fields[f]
    <3>1. CASE f # "title" /\ fields[f] = Default[f]
      <4>1. Announced(fields)[f] = Undefined
        BY <3>1 DEF Announced
      <4>2. Options1(Announced(fields))[f] = None
        BY <4>1 DEF Options1, Option
      <4> QED BY <3>1, <4>2 DEF Constructed, Updated, Has
    <3>2. CASE ~(f # "title" /\ fields[f] = Default[f])
      <4>1. Announced(fields)[f] = Value(InV2(f, fields[f]))
        BY <3>2 DEF Announced
      <4>2. Options1(Announced(fields))[f] = Some(InV2(f, fields[f]))
        BY <4>1 DEF Options1, Option, Value, Undefined
      <4>3. V1Has(f, InV2(f, fields[f]))
        BY <2>4, <4>1 DEF FitsV1, Value, Undefined
      <4>4. f = "content" => fields[f] \in V1Contents
        BY <1>2 DEF NewCalls
      <4>5. InV2(f, fields[f]) = fields[f]
        BY <4>3, <4>4, DiffsDoNotComeBack
      <4> QED BY <4>2, <4>5 DEF Constructed, Updated, Has, Some, None
    <3> QED BY <3>1, <3>2
  <2>7. fields = [f \in Fields |-> fields[f]]
    BY <1>2 DEF Fields, NewCalls
  <2>8. Constructed(back[1].fields) = fields
    BY <2>5, <2>6, <2>7 DEF Constructed, Updated
  <2> QED BY <2>1, <2>8 DEF IsBack
<1>3. ASSUME NEW m \in Options(Messages), NEW block \in V1Blocks, u = Chunk(m, block)
      PROVE  IsBack(u, back)
  <2>1. u.is = "chunk" /\ u.message = m
    BY <1>3 DEF Chunk
  <2>2. m # None
    BY <2>1 DEF ToV2
  <2>3. PICK mm \in Messages : m = Some(mm)
    BY <2>2 DEF Options
  <2>4. ToV2(u) = <<Chunk(mm, block)>>
    BY <1>3, <2>1, <2>2, <2>3 DEF ToV2, Chunk, Some
  <2>5. ToV1(Chunk(mm, block)) = <<Chunk(Some(mm), block)>>
    BY <1>3 DEF ToV1, Chunk
  <2>6. back = <<u>>
    BY <1>0, <1>3, <2>3, <2>4, <2>5
  <2> QED BY <2>1, <2>6 DEF IsBack
<1>4. ASSUME NEW meta, u = [is |-> "plan", entry |-> "pending", meta |-> meta]
      PROVE  IsBack(u, back)
  <2> DEFINE v2 == [is |-> "plan", plan |-> LegacyPlan, entry |-> "pending",
                    meta |-> meta, itemsMeta |-> None]
  <2>1. ToV2(u)[1] = v2
    BY <1>4 DEF ToV2
  <2>2. ToV1(v2) = PlanToV1(v2)
    BY DEF ToV1
  <2>3. PlanToV1(v2) = <<u>>
    BY <1>4 DEF PlanToV1
  <2>4. back = <<u>>
    BY <1>0, <2>1, <2>2, <2>3
  <2>5. u.is = "plan"
    BY <1>4
  <2> QED BY <2>4, <2>5 DEF IsBack
<1>5. ASSUME NEW id \in ToolCalls, NEW fields \in V1Fields,
             u = [is |-> "permission", call |-> CallUpdate(id, fields)]
      PROVE  IsBack(u, back)
  <2> DEFINE call == CallUpdate(id, Patches2(fields))
             v2   == [is |-> "permission", title |-> fields.title.of,
                      description |-> None, subject |-> "tool_call", call |-> call]
  <2>1. u.is = "permission" /\ u.call = CallUpdate(id, fields) /\ u.call.fields = fields
    BY <1>5 DEF CallUpdate
  <2>2. ToV2(u) = PermissionToV2(u) /\ fields.title \notin {None, Some("empty")}
    BY <2>1 DEF ToV2, PermissionToV2
  <2>3. UpdateToV2(u.call) = <<call>>
    <3>1. UpdateToV2(u.call) # Refused
      BY <2>1, <2>2 DEF PermissionToV2, Refused
    <3> QED BY <2>1, <3>1, UpdateToV2Is
  <2> HIDE DEF call
  <2>4. ToV2(u)[1] = v2
    BY <2>1, <2>2, <2>3 DEF PermissionToV2
  <2>5. ToV1(v2) = PermissionToV1(v2)
    BY DEF ToV1
  <2>6. /\ CallToV1(call) # Refused
        /\ back = [i \in DOMAIN CallToV1(call) |->
                     [is |-> "permission", call |-> CallToV1(call)[i]]]
    BY <1>0, <2>4, <2>5 DEF PermissionToV1, Refused
  <2>7. CallToV1(call) = <<CallUpdate(id, fields)>>
    BY <2>6, CallToV1Is, FieldsComeBackToV1 DEF call
  <2>8. back = <<u>>
    BY <1>5, <2>6, <2>7
  <2> QED BY <2>1, <2>8 DEF IsBack
<1>6. u # [is |-> "current_mode"]
  BY DEF ToV2
<1>7. CASE \E id \in ToolCalls : \E fields :
              /\ u = [is |-> "tool_call", id |-> id, fields |-> fields]
              /\ fields \in NewCalls
  <2>1. PICK id \in ToolCalls : \E fields :
              /\ u = [is |-> "tool_call", id |-> id, fields |-> fields]
              /\ fields \in NewCalls
    BY <1>7
  <2>2. PICK fields : /\ u = [is |-> "tool_call", id |-> id, fields |-> fields]
                      /\ fields \in NewCalls
    BY <2>1
  <2> QED BY <1>2, <2>2
<1> QED BY <1>1, <1>3, <1>4, <1>5, <1>6, <1>7, KindsOfV1

RoundTrip2(u) == FlattenSeq([i \in DOMAIN ToV1(u) |-> ToV2(ToV1(u)[i])])

\* An update of a v2 agent, to v1 and back: a message comes back as its chunks.
LEMMA NothingIsLostToV1 ==
    ASSUME speaks = 2, NEW u \in V2Updates
    PROVE  ~IsLost(u)
<1> DEFINE back == RoundTrip2(u)
<1> SUFFICES ASSUME ToV1(u) # Refused, back # Refused
             PROVE  IsBack(u, back)
  BY DEF IsLost, There, Back, RoundTrip2
<1>0. ASSUME NEW v1, ToV1(u) = <<v1>> PROVE back = ToV2(v1)
  <2>1. [i \in DOMAIN <<v1>> |-> ToV2(<<v1>>[i])] = <<ToV2(v1)>>
    OBVIOUS
  <2>2. FlattenSeq(<<ToV2(v1)>>) = ToV2(v1)
    BY FlattenOfOne
  <2> QED BY <1>0, <2>1, <2>2 DEF RoundTrip2
<1>a. back = FlattenSeq([i \in DOMAIN ToV1(u) |-> ToV2(ToV1(u)[i])])
  BY DEF RoundTrip2
<1> HIDE DEF back
<1>1. ASSUME NEW id \in ToolCalls, NEW fields \in V2Fields, u = CallUpdate(id, fields)
      PROVE  IsBack(u, back)
  <2> DEFINE v1 == CallUpdate(id, Options1(fields))
  <2>1. u.is = "tool_call_update"
    BY <1>1 DEF CallUpdate
  <2>2. ToV1(u) = CallToV1(u)
    BY <2>1 DEF ToV1
  <2>3. ToV1(u) = <<v1>> /\ Fits(fields)
    BY <1>1, <2>2, CallToV1Is, FittingIsSame
  <2>4. ToV2(v1) = UpdateToV2(v1)
    BY DEF ToV2, CallUpdate
  <2>5. back = UpdateToV2(v1)
    BY <1>0, <2>3, <2>4
  <2>6. back = <<CallUpdate(id, Patches2(Options1(fields)))>>
    BY <2>5, UpdateToV2Is
  <2>7. back = <<u>>
    BY <1>1, <2>3, <2>6, FieldsComeBackToV2
  <2> QED BY <2>1, <2>7 DEF IsBack
<1>2. ASSUME NEW m \in Messages, NEW content \in Patches(SeqOf(V2Blocks, MaxContent)),
             u = [is |-> "message", message |-> m, content |-> content]
      PROVE  IsBack(u, back)
  <2>1. u.is = "message" /\ u.message = m /\ u.content = content
    BY <1>2
  <2>2. ToV1(u) = MessageToV1(u)
    BY <2>1 DEF ToV1
  <2> DEFINE bs == content.of
  <2>3. content.is = "value"
    BY <2>1, <2>2 DEF MessageToV1
  <2>4. PICK n \in 0 .. MaxContent : bs \in [1 .. n -> V2Blocks]
    <3>1. PICK x \in SeqOf(V2Blocks, MaxContent) : content = Value(x)
      BY <2>3 DEF Patches, Undefined, Null
    <3>2. x = bs
      BY <3>1 DEF Value
    <3> QED BY <3>1, <3>2 DEF SeqOf
  <2>5. ToV1(u) = [i \in DOMAIN bs |-> Chunk(Some(m), bs[i])]
    BY <2>1, <2>2, <2>3 DEF MessageToV1, Chunk
  <2> HIDE DEF bs
  <2> DEFINE s    == [i \in 1 .. n |-> Chunk(m, bs[i])]
             seqs == [i \in 1 .. n |-> <<Chunk(m, bs[i])>>]
             S    == {Chunk(m, b) : b \in V2Blocks}
  <2>6. n \in Nat /\ DOMAIN bs = 1 .. n /\ n # 0
    <3>1. n \in Nat /\ DOMAIN bs = 1 .. n
      BY <2>4
    <3>2. n = 0 => ToV1(u) = <<>>
      BY <2>5, <3>1
    <3> QED BY <3>1, <3>2 DEF Refused
  <2>7. \A b : ToV2(Chunk(Some(m), b)) = <<Chunk(m, b)>>
    <3>1. ASSUME NEW b PROVE ToV2(Chunk(Some(m), b)) = <<Chunk(m, b)>>
      BY DEF ToV2, Chunk, Some, None
    <3> QED BY <3>1
  <2>8. [i \in DOMAIN ToV1(u) |-> ToV2(ToV1(u)[i])] = seqs
    <3>1. DOMAIN ToV1(u) = 1 .. n /\ \A i \in 1 .. n : ToV1(u)[i] = Chunk(Some(m), bs[i])
      BY <2>5, <2>6
    <3> QED BY <2>7, <3>1
  <2>9. s \in Seq(S) /\ Len(s) = n /\ s # <<>>
    <3>1. \A i \in 1 .. n : Chunk(m, bs[i]) \in S
      BY <2>4
    <3> HIDE DEF S
    <3>2. s \in [1 .. n -> S]
      BY <3>1
    <3>3. s \in Seq(S) /\ Len(s) = n
      BY <2>6, <3>2
    <3> QED BY <2>6, <3>3
  <2>10. /\ DOMAIN seqs = 1 .. n /\ Len(seqs) = n
         /\ \A i \in 1 .. n : seqs[i] = <<s[i]>>
    BY <2>6
  <2>11. \A i \in 1 .. n : s[i].block = bs[i]
    BY DEF Chunk
  <2>12. DOMAIN s = 1 .. n
    OBVIOUS
  <2> HIDE DEF s, seqs, S
  <2>13. FlattenSeq(seqs) = s
    BY <2>9, <2>10, FlattenOfSingles
  <2>14. back = s
    BY <1>a, <2>8, <2>13
  <2>15. bs = [i \in 1 .. n |-> bs[i]]
    BY <2>4
  <2>16. [i \in DOMAIN back |-> back[i].block] = bs
    BY <2>11, <2>12, <2>14, <2>15
  <2>17. u.content.of = bs
    BY <2>1 DEF bs
  <2> QED BY <2>1, <2>16, <2>17 DEF IsBack
<1>3. ASSUME NEW m \in Messages, NEW block \in V2Blocks, u = Chunk(m, block)
      PROVE  IsBack(u, back)
  <2>1. u.is = "chunk" /\ u.message = m /\ u.block = block
    BY <1>3 DEF Chunk
  <2>2. ToV1(u) = <<Chunk(Some(m), block)>>
    BY <1>3, <2>1 DEF ToV1, Chunk
  <2>3. ToV2(Chunk(Some(m), block)) = <<Chunk(m, block)>>
    BY DEF ToV2, Chunk, Some, None
  <2>4. back = <<u>>
    BY <1>0, <1>3, <2>2, <2>3
  <2> QED BY <2>1, <2>4 DEF IsBack
<1>4. ASSUME NEW plan, NEW entry, NEW meta, NEW itemsMeta,
             u = [is |-> "plan", plan |-> plan, entry |-> entry, meta |-> meta,
                  itemsMeta |-> itemsMeta]
      PROVE  IsBack(u, back)
  <2>1. u.is = "plan" /\ u.entry = entry /\ u.meta = meta /\ u.itemsMeta = itemsMeta
    BY <1>4
  <2>2. ToV1(u) = PlanToV1(u)
    BY <2>1 DEF ToV1
  <2> DEFINE x  == IF meta = None THEN itemsMeta ELSE meta
             v1 == [is |-> "plan", entry |-> entry, meta |-> x]
             v2 == [is |-> "plan", plan |-> LegacyPlan, entry |-> entry, meta |-> x,
                    itemsMeta |-> None]
  <2>3. meta = None \/ itemsMeta \in {None, meta}
    BY <2>1, <2>2 DEF PlanToV1
  <2>4. ToV1(u) = <<v1>>
    BY <2>1, <2>2 DEF PlanToV1
  <2>5. ToV2(v1) = <<v2>>
    BY DEF ToV2
  <2>6. back = <<v2>>
    BY <1>0, <2>4, <2>5
  <2>7. back[1].entry = entry /\ back[1].meta = x
    BY <2>6
  <2>8. x \in {meta, itemsMeta} /\ {meta, itemsMeta} \subseteq {None, x}
    BY <2>3
  <2> HIDE DEF x
  <2> QED BY <2>1, <2>7, <2>8 DEF IsBack
<1>5. ASSUME NEW id \in ToolCalls, NEW fields \in V2Fields, NEW title, NEW description,
             NEW subject,
             u = [is |-> "permission", title |-> title, description |-> description,
                  subject |-> subject, call |-> CallUpdate(id, fields)]
      PROVE  IsBack(u, back)
  <2> DEFINE call == CallUpdate(id, Options1(fields))
             v1   == [is |-> "permission", call |-> call]
  <2>1. u.is = "permission" /\ u.call = CallUpdate(id, fields) /\ u.title = title
        /\ u.call.fields = fields /\ u.description = description /\ u.subject = subject
    BY <1>5 DEF CallUpdate
  <2>2. ToV1(u) = PermissionToV1(u)
    BY <2>1 DEF ToV1
  <2>3. /\ fields.title = Value(title) /\ description = None /\ subject = "tool_call"
        /\ ToV1(u) = [i \in DOMAIN CallToV1(u.call) |->
                        [is |-> "permission", call |-> CallToV1(u.call)[i]]]
    BY <2>1, <2>2 DEF PermissionToV1
  <2>4. CallToV1(u.call) # Refused
    BY <2>3 DEF Refused
  <2>5. CallToV1(u.call) = <<call>> /\ Fits(fields)
    BY <2>1, <2>4, CallToV1Is, FittingIsSame
  <2>6. call.fields.title = Some(title)
    BY <2>3 DEF CallUpdate, Options1, Option, Value, Undefined, Fields
  <2>7. UpdateToV2(call) \in {Refused, <<CallUpdate(id, fields)>>}
    BY <2>5, UpdateToV2Is, FieldsComeBackToV2
  <2> HIDE DEF call
  <2>8. ToV1(u) = <<v1>>
    BY <2>3, <2>5
  <2>9. ToV2(v1) = PermissionToV2(v1)
    BY DEF ToV2
  <2>10. /\ UpdateToV2(call) # Refused
         /\ back = [i \in DOMAIN UpdateToV2(call) |->
                      [is |-> "permission", title |-> title, description |-> None,
                       subject |-> "tool_call", call |-> UpdateToV2(call)[i]]]
    <3>1. back = PermissionToV2(v1)
      BY <1>0, <2>8, <2>9
    <3>2. v1.call = call
      OBVIOUS
    <3> HIDE DEF v1
    <3> QED BY <2>6, <3>1, <3>2 DEF PermissionToV2, Refused, Some
  <2>11. back = <<u>>
    BY <1>5, <2>3, <2>7, <2>10
  <2> QED BY <2>1, <2>11 DEF IsBack
<1>6. u.is # "content_chunk" /\ u.is # "only_v2"
  BY DEF ToV1
<1>7. CASE \E plan \in {LegacyPlan, "second"}, entry \in {"pending", "cancelled"},
              meta \in Options({"m"}), itemsMeta \in Options({"m", "n"}) :
              u = [is |-> "plan", plan |-> plan, entry |-> entry, meta |-> meta,
                   itemsMeta |-> itemsMeta]
  BY <1>4, <1>7
<1>8. CASE \E title \in {"run", "Run it?"}, description \in Options({"why"}),
              subject \in {"tool_call", "command", "other", "none"},
              id \in ToolCalls, fields \in V2Fields :
              u = [is |-> "permission", title |-> title, description |-> description,
                   subject |-> subject, call |-> CallUpdate(id, fields)]
  BY <1>5, <1>8
<1> QED BY <1>1, <1>2, <1>3, <1>6, <1>7, <1>8, KindsOfV2

\* What was relayed and can be relayed back is what was sent: nothing is guessed,
\* dropped or defaulted on the way (conversion.rs:5-8).
THEOREM RoundTripsLoseNothing == TranslationSpec => []NothingIsLost
<1>1. ASSUME TranslationInv PROVE NothingIsLost
  <2>1. wire # Nothing => ~IsLost(wire)
    BY <1>1, NothingIsLostToV1, NothingIsLostToV2 DEF TranslationInv, WireIsSent
  <2> QED BY <2>1 DEF NothingIsLost, IsLost
<1> QED BY Invariance, <1>1, PTL

=============================================================================
