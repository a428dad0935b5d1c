------------------------------ MODULE Translation ------------------------------
(***************************************************************************)
(* The session updates and permission requests of an agent of one protocol  *)
(* version, converted for a client of the other (v2/conversion.rs), and what *)
(* that client shows, next to what a client of the agent's version shows.    *)
(*                                                                          *)
(* The converters are stateless and refuse what the other version cannot     *)
(* say.  An update that is refused reaches neither client.                   *)
(*                                                                          *)
(* Values keep their names across versions.  A tool call's locations are     *)
(* left out (they convert like its content), and so is its _meta, which a v1 *)
(* client does not update.  The user's, the agent's and the thought messages *)
(* are one kind.  The features that are off by default are left out.         *)
(***************************************************************************)
EXTENDS Integers, SequencesExt

CONSTANTS
    ToolCalls,      \* tool call ids
    Messages,       \* message ids
    Named,          \* bound: fields that one tool-call update names
    MaxContent      \* bound: blocks of a message

VARIABLES
    speaks,         \* the agent's version
    topic,          \* bound: "calls" or "texts"; a view's parts never meet
    wire,           \* the update that is on its way
    v1View, v2View, \* what a client of each version shows
    strayed         \* ids whose views the converters cannot keep alike

translationVars == <<speaks, topic, wire, v1View, v2View, strayed>>

-----------------------------------------------------------------------------
(* Option, MaybeUndefined, and the fields of a tool call.                   *)

None      == [is |-> "none"]
Some(x)   == [is |-> "some", of |-> x]
Undefined == [is |-> "undefined"]
Null      == [is |-> "null"]
Value(x)  == [is |-> "value", of |-> x]

Fields == {"title", "kind", "status", "content", "raw_input"}

\* What v1 can say; v2's kinds and statuses are open, and v2 adds "cancelled".
V1Has(field, x) ==
    CASE field = "kind"    -> x \in {"other", "edit"}
      [] field = "status"  -> x \in {"pending", "completed"}
      [] field = "content" -> Range(x) \subseteq {"text"}
      [] OTHER -> TRUE

V1Blocks == {"text", "image"}

\* v1's terminal item names a terminal of the client; v2 has none.
V2Has(field, x) == field = "content" => "terminal" \notin Range(x)

\* A v1 diff becomes a patch, which does not come back.
Patched(items) == [i \in DOMAIN items |-> IF items[i] = "diff" THEN "patch" ELSE items[i]]
InV2(field, x) == IF field = "content" THEN Patched(x) ELSE x

\* The defaults of v1's serde, and of a v2 client for what it was not told.
Default == [title |-> "untitled", kind |-> "other", status |-> "pending",
            content |-> <<>>, raw_input |-> "none"]

-----------------------------------------------------------------------------
(* v2 to v1.  A conversion gives the updates that stand for one; none of     *)
(* them: it is refused.                                                      *)

Refused == <<>>

FitsV1(field, patch) ==
    \/ patch = Undefined
    \/ patch.is = "value" /\ V1Has(field, patch.of)
Option(patch) == IF patch = Undefined THEN None ELSE Some(patch.of)

CallToV1(u) ==
    IF \A f \in Fields : FitsV1(f, u.fields[f])
    THEN <<[u EXCEPT !.fields = [f \in Fields |-> Option(u.fields[f])]]>>
    ELSE Refused

\* mutant: blocks that do not fit are dropped
MessageInParts(u) ==
    LET fitting == SelectSeq(u.content.of, LAMBDA b : b \in V1Blocks) IN
    IF u.content.is = "value"
    THEN [i \in DOMAIN fitting |->
            [is |-> "chunk", message |-> Some(u.message), block |-> fitting[i]]]
    ELSE Refused

\* v2_message_update_into_v1_chunks: one chunk for a block, none without one.
MessageToV1(u) ==
    IF u.content.is = "value" /\ Range(u.content.of) \subseteq V1Blocks
    THEN [i \in DOMAIN u.content.of |->
            [is |-> "chunk", message |-> Some(u.message), block |-> u.content.of[i]]]
    ELSE Refused

LegacyPlan == "main"

PlanToV1(u) ==
    IF /\ u.plan = LegacyPlan
       /\ u.entry = "pending"
       /\ u.meta = None \/ u.itemsMeta \in {None, u.meta}
    THEN <<[is |-> "plan", entry |-> u.entry,
            meta |-> IF u.meta = None THEN u.itemsMeta ELSE u.meta]>>
    ELSE Refused

\* mutant: the description is left behind
PermissionUndescribed(u) ==
    IF u.subject = "tool_call" /\ u.call.fields.title = Value(u.title)
    THEN [i \in DOMAIN CallToV1(u.call) |->
            [is |-> "permission", call |-> CallToV1(u.call)[i]]]
    ELSE Refused

PermissionToV1(u) ==
    IF /\ u.description = None
       /\ u.subject = "tool_call"
       /\ u.call.fields.title = Value(u.title)
    THEN [i \in DOMAIN CallToV1(u.call) |->
            [is |-> "permission", call |-> CallToV1(u.call)[i]]]
    ELSE Refused

ToV1(u) ==
    CASE u.is = "tool_call_update" -> CallToV1(u)
      [] u.is = "message"          -> MessageToV1(u)
      [] u.is = "chunk" -> IF u.block \in V1Blocks THEN <<[u EXCEPT !.message = Some(@)]>>
                           ELSE Refused
      [] u.is = "plan"             -> PlanToV1(u)
      [] u.is = "permission"       -> PermissionToV1(u)
      [] u.is = "only_v2"          -> Refused
      [] u.is = "content_chunk"    -> Refused

-----------------------------------------------------------------------------
(* v1 to v2.                                                                *)

\* mutant: an empty collection is not said
PatchUnlessEmpty(field, option) ==
    IF option = None THEN Undefined
    ELSE IF field = "content" /\ option.of = <<>> THEN Undefined
    ELSE Value(InV2(field, option.of))

Patch(field, option) ==
    IF option = None THEN Undefined ELSE Value(InV2(field, option.of))

UpdateToV2(u) ==
    IF \A f \in Fields : u.fields[f] = None \/ V2Has(f, u.fields[f].of)
    THEN <<[u EXCEPT !.fields = [f \in Fields |-> Patch(f, u.fields[f])]]>>
    ELSE Refused

\* A new tool call: what is the default is not said.
ToolCallToV2(u) ==
    IF \A f \in Fields : V2Has(f, u.fields[f])
    THEN <<[is |-> "tool_call_update", id |-> u.id,
            fields |-> [f \in Fields |->
                IF f # "title" /\ u.fields[f] = Default[f] THEN Undefined
                ELSE Value(InV2(f, u.fields[f]))]]>>
    ELSE Refused

PermissionToV2(u) ==
    LET title == u.call.fields.title IN
    IF title \in {None, Some("empty")} THEN Refused
    ELSE [i \in DOMAIN UpdateToV2(u.call) |->
            [is |-> "permission", title |-> title.of, description |-> None,
             subject |-> "tool_call", call |-> UpdateToV2(u.call)[i]]]

ToV2(u) ==
    CASE u.is = "tool_call"        -> ToolCallToV2(u)
      [] u.is = "tool_call_update" -> UpdateToV2(u)
      [] u.is = "chunk" -> IF u.message = None THEN Refused
                           ELSE <<[u EXCEPT !.message = @.of]>>
      [] u.is = "plan" ->
            <<[is |-> "plan", plan |-> LegacyPlan, entry |-> u.entry,
               meta |-> u.meta, itemsMeta |-> None]>>
      [] u.is = "permission"       -> PermissionToV2(u)
      [] u.is = "current_mode"     -> Refused

-----------------------------------------------------------------------------
(* What a client shows.  Partial functions from ids: a call of v1 is its     *)
(* fields, a call of v2 the patches merged so far.                          *)

EmptyView == [calls |-> <<>>, messages |-> <<>>, plans |-> <<>>]

Has(option)     == option # None
Put(fun, id, x) == [i \in DOMAIN fun \cup {id} |-> IF i = id THEN x ELSE fun[i]]
With(view, part, id, x) == [view EXCEPT ![part] = Put(@, id, x)]
Blocks(view, m) == IF m \in DOMAIN view.messages THEN view.messages[m] ELSE <<>>
WithBlock(view, m, block) == With(view, "messages", m, Append(Blocks(view, m), block))

\* ToolCall::update, and TryFrom<ToolCallUpdate> for a call not seen before.
Updated(call, fields) ==
    [f \in Fields |-> IF Has(fields[f]) THEN fields[f].of ELSE call[f]]
Constructed(fields) == Updated(Default, fields)

V1Update(view, u) ==
    IF u.id \in DOMAIN view.calls
    THEN With(view, "calls", u.id, Updated(view.calls[u.id], u.fields))
    ELSE IF Has(u.fields.title) THEN With(view, "calls", u.id, Constructed(u.fields))
    ELSE view

V1Apply(view, u) ==
    CASE u.is = "tool_call"        -> With(view, "calls", u.id, u.fields)
      [] u.is = "tool_call_update" -> V1Update(view, u)
      [] u.is = "permission"       -> V1Update(view, u.call)
      [] u.is = "chunk"            -> WithBlock(view, u.message.of, u.block)
      [] u.is = "plan"             -> With(view, "plans", LegacyPlan, u.entry)

\* apply_update; a field that is null stays null.
Merged(call, fields) ==
    [f \in Fields |-> IF fields[f] = Undefined THEN call[f] ELSE fields[f]]

V2Update(view, u) ==
    With(view, "calls", u.id,
         IF u.id \in DOMAIN view.calls THEN Merged(view.calls[u.id], u.fields)
         ELSE u.fields)

V2Apply(view, u) ==
    CASE u.is = "tool_call_update" -> V2Update(view, u)
      [] u.is = "permission"       -> V2Update(view, u.call)
      [] u.is = "chunk"            -> WithBlock(view, u.message, u.block)
      [] u.is = "message" -> With(view, "messages", u.message, u.content.of)
      [] u.is = "plan"             -> With(view, "plans", u.plan, u.entry)

-----------------------------------------------------------------------------
(* The agent's updates, within the bounds.                                   *)

AtMostNamed(patches, absent) ==
    {p \in patches : Cardinality({f \in Fields : p[f] # absent}) <= Named}

Options(values)  == {None} \cup {Some(x) : x \in values}
Patches(values)  == {Undefined, Null} \cup {Value(x) : x \in values}

V1Contents == {<<>>, <<"text">>, <<"diff">>, <<"terminal">>}
V2Contents == {<<>>, <<"text">>, <<"patch">>}

V1Fields == AtMostNamed(
    [title : Options({"empty", "run"}), kind : Options({"other", "edit"}),
     status : Options({"pending", "completed"}), content : Options(V1Contents),
     raw_input : Options({"args"})], None)
V2Fields == AtMostNamed(
    [title : Patches({"run"}), kind : Patches({"other", "edit", "new_kind"}),
     status : Patches({"pending", "completed", "cancelled"}),
     content : Patches(V2Contents), raw_input : Patches({"args"})], Undefined)

CallUpdates(fields) == [is : {"tool_call_update"}, id : ToolCalls, fields : fields]
V1Updates ==
    CallUpdates(V1Fields)
    \cup [is : {"tool_call"}, id : ToolCalls,
          fields : [title : {"run"}, kind : {"other", "edit"},
                    status : {"pending", "completed"}, content : V1Contents,
                    raw_input : {"none", "args"}]]
    \cup [is : {"chunk"}, message : Options(Messages), block : V1Blocks]
    \cup [is : {"plan"}, entry : {"pending"}, meta : Options({"m"})]
    \cup [is : {"permission"}, call : CallUpdates(V1Fields)]
    \cup [is : {"current_mode"}]

V2Blocks == V1Blocks \cup {"new_block"}
V2Updates ==
    CallUpdates(V2Fields)
    \cup [is : {"content_chunk"}, id : ToolCalls, item : {"text"}]
    \cup [is : {"message"}, message : Messages,
          content : Patches(SeqOf(V2Blocks, MaxContent))]
    \cup [is : {"chunk"}, message : Messages, block : V2Blocks]
    \cup [is : {"plan"}, plan : {LegacyPlan, "second"}, entry : {"pending", "cancelled"},
          meta : Options({"m"}), itemsMeta : Options({"m", "n"})]
    \cup [is : {"permission"}, title : {"run", "Run it?"}, description : Options({"why"}),
          subject : {"tool_call", "command", "other", "none"}, call : CallUpdates(V2Fields)]
    \cup [is : {"only_v2"}]

-----------------------------------------------------------------------------
(* What no stateless conversion can carry over: v1 ignores an update of a    *)
(* call it does not know if it has no title; a v1 tool_call replaces a call   *)
(* that is known, a v2 message its blocks, but their conversions add to them. *)

Call(u) == IF u.is = "permission" THEN u.call ELSE u
Untitled(u) ==
    /\ u.is \in {"tool_call_update", "permission"}
    /\ Call(u).id \notin DOMAIN v1View.calls
    /\ Call(u).fields.title \in {None, Undefined}
Restated(u) ==
    \/ u.is = "tool_call" /\ u.id \in DOMAIN v1View.calls
    \/ u.is = "message" /\ Blocks(v1View, u.message) # <<>>
Strays(u) ==
    IF ~Untitled(u) /\ ~Restated(u) THEN {}
    ELSE {IF u.is = "message" THEN u.message ELSE Call(u).id}

-----------------------------------------------------------------------------
There(u) == IF speaks = 1 THEN ToV2(u) ELSE ToV1(u)
Nothing == [is |-> "nothing"]

TranslationInit ==
    /\ speaks \in {1, 2}
    /\ topic \in {"calls", "texts"}
    /\ wire = Nothing
    /\ v1View = EmptyView /\ v2View = EmptyView
    /\ strayed = {}

\* The agent sends within the bounds, one update at a time.
Bounded(u) ==
    /\ topic = "texts" <=> u.is \in {"chunk", "message", "plan"}
    /\ strayed = {}      \* nothing is claimed of an id from there on
    /\ u.is = "chunk" => \A m \in Messages : Len(Blocks(v1View, m)) < MaxContent
    /\ u.is = "permission" => u.call.fields.status.is \in {"none", "undefined"}

Send ==
    /\ wire = Nothing
    /\ wire' \in IF speaks = 1 THEN V1Updates ELSE V2Updates
    /\ Bounded(wire')
    /\ UNCHANGED <<speaks, topic, v1View, v2View, strayed>>

Relay ==
    /\ wire # Nothing
    /\ wire' = Nothing
    /\ strayed' = IF There(wire) = Refused THEN strayed ELSE strayed \cup Strays(wire)
    /\ UNCHANGED <<speaks, topic>>

ToV2Client ==
    /\ speaks = 1
    /\ Relay
    /\ v1View' = IF ToV2(wire) = Refused THEN v1View ELSE V1Apply(v1View, wire)
    /\ v2View' = FoldLeft(V2Apply, v2View, ToV2(wire))

ToV1Client ==
    /\ speaks = 2
    /\ Relay
    /\ v1View' = FoldLeft(V1Apply, v1View, ToV1(wire))
    /\ v2View' = IF ToV1(wire) = Refused THEN v2View ELSE V2Apply(v2View, wire)

TranslationNext == Send \/ ToV2Client \/ ToV1Client

TranslationSpec == TranslationInit /\ [][TranslationNext]_translationVars

-----------------------------------------------------------------------------
(* Properties.                                                              *)

Shown(patch, f) == IF patch.is = "value" THEN patch.of ELSE Default[f]
ShowsV1(c) == [f \in Fields |-> InV2(f, v1View.calls[c][f])]
ShowsV2(c) == [f \in Fields |-> Shown(v2View.calls[c][f], f)]

\* conversion.rs:5-8 and docs/protocol/v2/tool-calls.mdx:84-92: however an
\* agent patches its tool calls, by updates, announcements and permission
\* requests, clients of both versions show the same call.
ToolCallsAgree == \A c \in ToolCalls \ strayed :
    /\ c \in DOMAIN v1View.calls <=> c \in DOMAIN v2View.calls
    /\ c \in DOMAIN v1View.calls => ShowsV1(c) = ShowsV2(c)

\* docs/protocol/v2/prompt-lifecycle.mdx:234-242 and conversion.rs:1231-1266:
\* chunks and whole messages, fanned out to chunks, amount to the same blocks in
\* both versions, no part of a refused message is shown, and no other plan takes
\* the place of the one v1 has.
TextsAgree ==
    /\ \A m \in Messages \ strayed : Blocks(v1View, m) = Blocks(v2View, m)
    /\ v1View.plans = v2View.plans

\* What comes back of an update that is relayed there and back.
Back(u)  == IF speaks = 1 THEN ToV1(There(u)[1])
            ELSE FlattenSeq([i \in DOMAIN There(u) |-> ToV2(There(u)[i])])
IsBack(u, back) ==
    CASE u.is = "tool_call" -> Constructed(back[1].fields) = u.fields
      [] u.is = "message" -> [i \in DOMAIN back |-> back[i].block] = u.content.of
      [] u.is = "plan" /\ speaks = 2 ->
            /\ back[1].entry = u.entry
            /\ back[1].meta \in {u.meta, u.itemsMeta}
            /\ {u.meta, u.itemsMeta} \subseteq {None, back[1].meta}
      [] OTHER -> back = <<u>>
\* conversion.rs:5-8: nothing is guessed, dropped or defaulted: what was
\* relayed and can be relayed back is what was sent.  (A whole message comes
\* back as its chunks, the announcement of a call as an update that makes it.)
NothingIsLost ==
    wire # Nothing /\ There(wire) # Refused /\ Back(wire) # Refused
        => IsBack(wire, Back(wire))

=============================================================================
