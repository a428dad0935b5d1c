------------------------- MODULE ConformanceInvariant -------------------------
(***************************************************************************)
(* The inductive invariant of Conformance behind HarnessSurvives.           *)
(*                                                                          *)
(* The harness ends if a case is closed while a call of a v2 prompt waits   *)
(* for its answer.  Only four scenarios ask the client; in all other cases  *)
(* no call ever waits (Harmless).  In those four the script answers every   *)
(* call, and it cannot fail before it did: it opens the session (Opening),  *)
(* calls the prompt (Prompting) and goes through the turn (Turn) step by    *)
(* step with the agent.  For that the invariant says where on the wires and *)
(* in the queues each event of the turn is, that the script's next          *)
(* expectation is the event that comes next, and that nothing the script    *)
(* waits for can be late: while the agent asks, the answer, or the question,*)
(* is on its way.                                                           *)
(***************************************************************************)
EXTENDS Conformance

IsSeq(q) == q \in Seq({q[i] : i \in DOMAIN q})
From(q, p) == SubSeq(q, p, Len(q))

-----------------------------------------------------------------------------
(* The scenarios in which the agent asks the client.                        *)

Scenarios == {"v1-full-turn", "v1-permission-reject", "v1-permission-cancel", "v2-full-turn"}
Script(s) == CASE s = "v1-full-turn" -> V1FullTurn
               [] s = "v1-permission-reject" -> V1Rejection
               [] s = "v1-permission-cancel" -> V1Cancel
               [] s = "v2-full-turn" -> V2FullTurn
VersionIn(s) == IF s = "v2-full-turn" THEN 2 ELSE 1

\* What the agent sends in a turn, up to its last question.
PermissionV1 == <<"user_message_chunk", "tool_call", "session/request_permission">>
Events(s) ==
    CASE s = "v1-full-turn" ->
            <<"user_message_chunk", "tool_call", "session/request_permission",
              "fs/read_text_file", "fs/write_text_file", "terminal/create",
              "terminal/output", "terminal/kill", "terminal/wait_for_exit",
              "terminal/release", "elicitation/create">>
      [] s \in {"v1-permission-reject", "v1-permission-cancel"} -> PermissionV1
      [] s = "v2-full-turn" ->
            <<"user_message", "running", "tool_call_update", "session/request_permission",
              "requires_action", "running", "terminal_update", "terminal_output_chunk",
              "elicitation/create">>
N(s) == CASE s = "v1-full-turn" -> 11
          [] s \in {"v1-permission-reject", "v1-permission-cancel"} -> 3
          [] s = "v2-full-turn" -> 9

\* Which of them are questions, and the id of the last one up to event e.
Questions(s) == CASE s = "v1-full-turn" -> 3 .. 11
                  [] s \in {"v1-permission-reject", "v1-permission-cancel"} -> {3}
                  [] s = "v2-full-turn" -> {4, 9}
Number(s, e) == IF s = "v2-full-turn"
                THEN IF e < 4 THEN 0 ELSE IF e < 9 THEN 1 ELSE 2
                ELSE IF e < 3 THEN 0 ELSE e - 2

\* Where in the script event j is expected; for 0, where the prompt is called,
\* and for N(s) + 1, where the last question has been answered.
Place(s, j) ==
    IF s = "v2-full-turn"
    THEN IF j = 0 THEN 8 ELSE IF j <= 4 THEN 10 + 2 * j
         ELSE IF j <= 9 THEN 11 + 2 * j ELSE 32
    ELSE IF j = 0 THEN 7 ELSE IF j <= 3 THEN 6 + 2 * j
         ELSE IF s = "v1-permission-cancel" THEN 16
         ELSE 3 + 3 * j

Message(s, j) ==
    Msg("event", Events(s)[j], IF j \in Questions(s) THEN Number(s, j) ELSE 0, TRUE)

\* What is left of the prompt's code after e events.
AllowedV2 == <<Say("running"), Say("terminal_update"), Say("terminal_output_chunk"),
               Ask("elicitation/create"), SayNew("agent_message", "agent"),
               Say("idle_end_turn")>>
Code(s, e) ==
    CASE e = 0 -> <<Goto("start")>>
      [] s # "v2-full-turn" /\ e \in 1 .. 3 -> From(ScenarioV1, e + 1)
      [] s # "v2-full-turn" /\ e > 3 -> From(AllowedV1, e - 2)
      [] s = "v2-full-turn" /\ e \in 1 .. 5 -> From(ScenarioV2, e + 1)
      [] s = "v2-full-turn" /\ e > 5 -> From(AllowedV2, e - 4)

\* What a step of a script is.
IsCallOf(x, method)    == x.op = "call" /\ x.what = method
IsAwait(x, result)     == x.op = "await" /\ x.what = result
IsExpect(x, kinds)     == x.op = "expect" /\ x.what = kinds /\ x.arg = "events"
IsGot(x, wanted)       == x.op = "got" /\ x.what = wanted

-----------------------------------------------------------------------------
(* The agent asks nothing, and will not.                                    *)

Plain == {"none", "v2-cancel"}                  \* scenarios that ask nothing
HarmlessOps == {"say", "reply", "bad", "illegal", "loop", "entries"}

IsSegment(g) == g = Segment(g.op, g.what, g.push)
FlowShape(fl) ==
    fl = [kind |-> fl.kind, request |-> fl.request, session |-> fl.session,
          scenario |-> fl.scenario, todo |-> fl.todo, status |-> fl.status,
          cancelled |-> fl.cancelled, answer |-> fl.answer, count |-> fl.count]
IsFlow(fl) ==
    /\ FlowShape(fl)
    /\ IsSeq(fl.todo)
    /\ \A i \in DOMAIN fl.todo : IsSegment(fl.todo[i])
    /\ fl.session = 1
    /\ fl.status \in {"ready", "sleeping"} => fl.todo # <<>>
IsSession(r) == r = [history |-> r.history, scenario |-> r.scenario]

\* The flow has yet to choose a scenario that asks nothing, or was refused, or
\* has only harmless code left.
NeverAsks(fl) ==
    \/ /\ fl.todo = <<Goto("start")>>
       /\ 1 \in DOMAIN sessions
       /\ sessions[1].scenario \in Plain
    \/ /\ fl.todo = <<Goto("judgeV1")>>
       /\ fl.scenario \in {"v1-permission-reject", "v1-permission-cancel"}
    \/ \A i \in DOMAIN fl.todo : fl.todo[i].op \in HarmlessOps

IsLine(l) == l.type \in {"request", "notification", "response", "garbage"} /\ l.session = 1
IsCall(l, method) == l.type = "request" /\ l.method = method

\* No line, on its way or to come, sets a scenario that asks.
SetsPlain ==
    /\ \A i \in DOMAIN toAgent :
          IsCall(toAgent[i], "_conformance/set_scenario") => toAgent[i].arg \in Plain
    /\ \A i \in DOMAIN todo :
          IsCallOf(todo[i], "_conformance/set_scenario") => todo[i].arg \in Plain
\* No line, on its way or to come, starts a prompt.
NoPrompt ==
    /\ \A i \in DOMAIN toAgent : ~IsCall(toAgent[i], "session/prompt")
    /\ \A i \in DOMAIN todo : ~IsCallOf(todo[i], "session/prompt")

Shapes ==
    /\ IsSeq(sessions) /\ \A i \in DOMAIN sessions : IsSession(sessions[i])
    /\ IsSeq(todo) /\ IsSeq(toAgent) /\ IsSeq(flows)
    /\ \A i \in DOMAIN toAgent : IsLine(toAgent[i])
    /\ \A f \in DOMAIN flows : IsFlow(flows[f])

Harmless ==
    /\ Shapes
    /\ pendingClientCalls = {}
    /\ \A f \in DOMAIN flows : NeverAsks(flows[f]) /\ flows[f].status # "asking"
    /\ SetsPlain
    /\ NoPrompt \/ \A i \in DOMAIN sessions : sessions[i].scenario \in Plain

-----------------------------------------------------------------------------
(* The session is opened: what the agent has read so far are the requests   *)
(* that open it, and it has answered those.                                 *)

\* What the agent sent, read or not.
L(k) == IF k <= Len(log) THEN log[k] ELSE toHarness[k - Len(log)]
Total == Len(log) + Len(toHarness)
IsOldReply(m, id) == /\ m.type = "response" /\ m.kind \notin Updates
                     /\ m.id \in Nat /\ m.id < id

HarnessShapes ==
    /\ IsSeq(log) /\ IsSeq(toHarness) /\ IsSeq(calls)
    /\ nextId \in 1 .. RequestBound + 1
    /\ pendingResponses \subseteq H!Ids
    /\ DOMAIN response = H!Ids /\ DOMAIN answeredBy = H!Ids
    /\ DOMAIN queued = H!Boxes /\ DOMAIN waiters = H!Boxes
    /\ received = Len(log)
    /\ ~fatalError
    /\ waiters["responses"] = <<>>
    /\ mark \in Nat /\ mark <= Len(log)

\* The case is at step Pos(s) of its script.
Pos(s) == Len(Script(s)) - Len(todo) + 1
AtCase(s) == Pos(s) > 0 /\ todo = From(Script(s), Pos(s))

IsOpeningLine(l, s) ==
    /\ IsLine(l) /\ l.type = "request"
    /\ l.id \in 1 .. nextId - 1
    /\ \/ l.method = "initialize" /\ l.arg = VersionIn(s)
       \/ l.method = "session/new"
       \/ l.method = "_conformance/set_scenario" /\ l.arg = s

AgentOpens(s) ==
    /\ Shapes
    /\ flows = <<>> /\ pendingClientCalls = {} /\ nextAgentRequestId = 1
    /\ version \in {0, VersionIn(s)}
    /\ \A i \in DOMAIN sessions : sessions[i].scenario \in {"none", s}

Opening(s) ==
    /\ AtCase(s) /\ Pos(s) \in 1 .. Place(s, 0)
    /\ AgentOpens(s) /\ HarnessShapes
    /\ \A i \in DOMAIN toAgent : IsOpeningLine(toAgent[i], s)
    /\ \A k \in 1 .. Total : IsOldReply(L(k), nextId)
    /\ calls = <<>> /\ queued["events"] = <<>> /\ waiters["events"] = <<>>

-----------------------------------------------------------------------------
(* The harness in a turn.  base is the number of lines before its first     *)
(* event: event j is line base + j.                                         *)

HasAnswered(s, j) == Pos(s) >= Place(s, j + 1)

\* In v2 the prompt is answered before its events, in v1 after them.
Behind(s) == IF s = "v2-full-turn" THEN 1 ELSE 0
ReadOf(base) == IF Len(log) > base THEN Len(log) - base ELSE 0

\* The case has expected as many events as it has made calls.
ScriptGoes(s) ==
    /\ AtCase(s)
    /\ LET x == Len(calls) IN
       /\ x \in 0 .. N(s) + 1
       /\ s = "v1-permission-cancel" => x <= N(s)
       /\ Pos(s) \in Place(s, x) + 1 ..
                     IF x > N(s) THEN Place(s, x) + 1 ELSE Place(s, x + 1)

\* The events that were read and not expected are queued, in order; or the one
\* that is expected was not read yet, and is waited for.
BoxGoes(s, base) ==
    LET x == Len(calls)
        r == ReadOf(base)
    IN  IF r >= x
        THEN /\ IsSeq(queued["events"]) /\ Len(queued["events"]) = r - x
             /\ \A i \in 1 .. r - x :
                   queued["events"][i] = [n |-> base + x + i, kind |-> Events(s)[x + i]]
             /\ waiters["events"] = <<>>
             /\ x > 0 => calls[x].state = "resolved" /\ calls[x].got.n = base + x
        ELSE /\ r = x - 1 /\ Pos(s) = Place(s, x) + 1
             /\ queued["events"] = <<>> /\ waiters["events"] = <<x>>
             /\ calls[x].state = "waiting" /\ calls[x].accepts = Script(s)[Place(s, x)].what
             /\ calls[x] = [box |-> "events", accepts |-> calls[x].accepts,
                            state |-> "waiting", got |-> H!NoItem]

\* The prompt's own answer: in v2 line base, in v1 yet to come.
ReplyGoes(s, base) ==
    /\ base \in Nat
    /\ Latest \in H!Ids
    /\ IF s = "v2-full-turn"
       THEN /\ mark < base
            /\ IF Len(log) < base
               THEN response[Latest] = "waiting" /\ Latest \in pendingResponses /\ Pos(s) <= 10
               ELSE response[Latest] = "resolved" /\ answeredBy[Latest] = base
                    /\ Latest \notin pendingResponses
       ELSE response[Latest] = "waiting"

WireGoes(s, base) ==
    \A k \in 1 .. Total :
       /\ k <= base - Behind(s) => IsOldReply(L(k), Latest)
       /\ k = base /\ Behind(s) = 1 => L(k) = Response(Latest, "ok")
       /\ k > base => L(k) = Message(s, k - base)

HarnessGoes(s, base) ==
    HarnessShapes /\ ScriptGoes(s) /\ BoxGoes(s, base) /\ ReplyGoes(s, base) /\ WireGoes(s, base)

-----------------------------------------------------------------------------
(* The prompt is called; the agent has yet to read it.                      *)

Prompting(s) ==
    /\ AgentOpens(s)
    /\ \E base \in {Total + Behind(s)} : HarnessGoes(s, base)
    /\ toAgent # <<>>
    /\ \A i \in DOMAIN toAgent :
          IF i < Len(toAgent) THEN IsOpeningLine(toAgent[i], s) /\ toAgent[i].id < Latest
          ELSE IsLine(toAgent[i]) /\ IsCall(toAgent[i], "session/prompt")
               /\ toAgent[i].id = Latest /\ toAgent[i].valid

-----------------------------------------------------------------------------
(* The agent in a turn, after e events.                                     *)

IsCancel(l) == IsLine(l) /\ l.type = "notification" /\ l.method = "session/cancel"
IsAnswer(l, s, e) ==
    /\ IsLine(l) /\ l.type = "response" /\ l.id = Number(s, e) /\ l.valid
    /\ (s = "v1-full-turn" /\ e = 3) \/ (s = "v2-full-turn" /\ e = 4) => l.arg = "allow"

TurnFlow(s, e) ==
    LET fl == flows[1] IN
    /\ fl.kind = "prompt" /\ fl.todo = Code(s, e) /\ fl.request = Latest
    /\ e > 0 => fl.scenario = s
    /\ s # "v1-permission-cancel" => fl.cancelled = FALSE

\* The code goes on only if the permission was granted.
AllowedOn(s, e) == (s = "v1-full-turn" /\ e = 3) \/ (s = "v2-full-turn" /\ e \in 4 .. 5)

\* It waits for the answer to event e, or no call waits.
TurnAsks(s, e) ==
    IF flows[1].status = "asking"
    THEN e \in Questions(s) /\ pendingClientCalls = {<<Number(s, e), 1>>}
    ELSE /\ flows[1].status = "ready" /\ pendingClientCalls = {}
         /\ e < N(s)
         /\ e \in Questions(s) => HasAnswered(s, e)
         /\ AllowedOn(s, e) => flows[1].answer = "allow"
TurnSession(s) ==
    1 \in DOMAIN sessions /\ sessions[1].scenario = s /\ version = VersionIn(s)

AgentGoes(s, e) ==
    /\ Shapes
    /\ e \in 1 - Behind(s) .. N(s)
    /\ Len(flows) = 1
    /\ TurnFlow(s, e) /\ TurnAsks(s, e) /\ TurnSession(s)
    /\ nextAgentRequestId = Number(s, e) + 1
    /\ \A j \in Questions(s) : j < e => HasAnswered(s, j)

\* An answer that was given is the last line on its way.
LinesGo(s, e) ==
    LET asked == flows[1].status = "asking" /\ HasAnswered(s, e) IN
    /\ asked => toAgent # <<>>
    /\ \A i \in DOMAIN toAgent :
          IF asked /\ i = Len(toAgent) THEN IsAnswer(toAgent[i], s, e)
          ELSE IsCancel(toAgent[i]) /\ s = "v1-permission-cancel"

Turn(s) ==
    \E e \in 0 .. N(s) : \E base \in {Total - e} :
        AgentGoes(s, e) /\ LinesGo(s, e) /\ HarnessGoes(s, base)

-----------------------------------------------------------------------------
(* The invariant.                                                           *)

IInv ==
    /\ ~crashed
    /\ at \in Nat \ {0}
    /\ phase = "running" =>
          Harmless \/ \E s \in Scenarios : Opening(s) \/ Prompting(s) \/ Turn(s)

=============================================================================
