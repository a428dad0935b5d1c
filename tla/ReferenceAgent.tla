--------------------------- MODULE ReferenceAgent ---------------------------
(***************************************************************************)
(* The conformance suite's reference agent (reference-agent.ts), the        *)
(* program every later implementation is compared with.                     *)
(*                                                                          *)
(* It runs on one event loop.  A line is handled at once up to the handler's *)
(* first await; what a handler does after an await is a step of its own.    *)
(* Prompts and replays are "flows": a flow runs from one await to the next,  *)
(* emits one message in each run, and may wait for the client's answer to a *)
(* request or for a timer.  What is left of a flow's code is its todo, a    *)
(* sequence of segments.                                                    *)
(*                                                                          *)
(* requestClient emits the request one microtask before it registers the    *)
(* call; an answer takes a later task (stdio) or several microtasks (in     *)
(* process), so emission and registration are one step.                     *)
(*                                                                          *)
(* out is what the last step emitted.  Texts, titles, tool call, message    *)
(* and terminal ids are left out; a history entry is named by its role and  *)
(* the flow that wrote it.                                                  *)
(***************************************************************************)
EXTENDS Integers, Sequences, FiniteSets

CONSTANTS
    MaxSessions,              \* bound: sessions
    MaxTicks,                 \* iterations of the v2-cancel loop (20)
    FaultSets,                \* the sets of faults it may be started with
    Drivers                   \* "stdio": its own process; "in-process"

ASSUME AgentAssumption ==
    /\ MaxSessions \in Nat
    /\ MaxTicks \in Nat
    /\ Drivers \subseteq {"stdio", "in-process"}

VARIABLES
    faults,                   \* faults it was started with
    driver,                   \* how it was started
    version,                  \* negotiated version, 0 before initialize
    sessions,                 \* sessions, in the order of their ids
    promptContexts,           \* session |-> flow of the latest prompt, or 0
    flows,                    \* prompts and replays, in order of arrival
    pendingClientCalls,       \* pairs <<call id, flow>>
    pendingSlowCalls,         \* requests with a running 5 s timer
    nextAgentRequestId,       \* counted from 0 here, 10000 in the code
    agentClosed,              \* close() has run
    crashed,                  \* an unhandled rejection ended the process
    out                       \* messages emitted by the last step

agentVars == <<faults, driver, version, sessions, promptContexts, flows, pendingClientCalls,
               pendingSlowCalls, nextAgentRequestId, agentClosed, crashed, out>>

Msg(type, kind, id, valid) ==
    [type |-> type, kind |-> kind, id |-> id, valid |-> valid]
Event(kind, id)      == Msg("event", kind, id, TRUE)
Response(id, result) == Msg("response", result, id, TRUE)
BadUpdate            == Msg("event", "bad_update", 0, FALSE)

flowVars == <<flows, pendingClientCalls, nextAgentRequestId>>
startVars == <<faults, driver>>
lifeVars == <<startVars, agentClosed, crashed>>

AgentInit ==
    /\ faults \in FaultSets
    /\ driver \in Drivers
    /\ version = 0
    /\ sessions = <<>>
    /\ promptContexts = [s \in 1 .. MaxSessions |-> 0]
    /\ flows = <<>>
    /\ pendingClientCalls = {}
    /\ pendingSlowCalls = {}
    /\ nextAgentRequestId = 1
    /\ agentClosed = FALSE
    /\ crashed = FALSE
    /\ out = <<>>

-----------------------------------------------------------------------------
(* The code of a flow, as segments from one await to the next.              *)

Segment(op, what, push) == [op |-> op, what |-> what, push |-> push]
Say(kind)         == Segment("say", kind, "none")
SayNew(kind, role) == Segment("say", kind, role)     \* history.push, then send
Ask(method)       == Segment("ask", method, "none")
Reply(result)     == Segment("reply", result, "none")
Goto(label)       == Segment(label, "none", "none")      \* code that branches

TrailingFault ==
    IF "trailing-bad-update-v1" \in faults
    THEN <<Segment("bad", "none", "none")>> ELSE <<>>
V1Reply(stop) ==
    <<Reply(IF "omit-v1-prompt-stop-reason" \in faults THEN "no_stop_reason"
            ELSE stop)>> \o TrailingFault

DefaultV1 == <<SayNew("user_message_chunk", "user"),
               SayNew("agent_message_chunk", "agent")>> \o V1Reply("end_turn")
\* mutant: the turn ends with a response, as in v1
DefaultV2Replies == <<SayNew("user_message", "user"), Say("running"),
                      SayNew("agent_message", "agent"), Reply("end_turn")>>
DefaultV2 == <<SayNew("user_message", "user"), Say("running"),
               SayNew("agent_message", "agent"), Say("idle_end_turn")>>
ScenarioV1 == <<SayNew("user_message_chunk", "user"), Say("tool_call"),
                Ask("session/request_permission"), Goto("judgeV1")>>
ScenarioV2 == <<SayNew("user_message", "user"), Say("running"),
                Say("tool_call_update"), Ask("session/request_permission"),
                Say("requires_action"), Goto("judgeV2")>>
CancelV2   == <<SayNew("user_message", "user"), Say("running"), Goto("loop")>>

PromptScript(scenario) ==
    CASE scenario \in {"v1-full-turn", "v1-permission-reject",
                       "v1-permission-cancel"} -> ScenarioV1
      [] scenario = "v2-full-turn" -> ScenarioV2
      [] scenario = "v2-cancel"    -> CancelV2
      [] OTHER -> IF version = 1 THEN DefaultV1 ELSE DefaultV2

RejectedV1 == <<SayNew("tool_call_update", "agent"),
                Say("agent_message_chunk")>> \o V1Reply("end_turn")
AllowedV1 ==
    <<Ask("fs/read_text_file"), Ask("fs/write_text_file"),
      Ask("terminal/create"), Ask("terminal/output"), Ask("terminal/kill"),
      Ask("terminal/wait_for_exit"), Ask("terminal/release"),
      Ask("elicitation/create")>> \o RejectedV1

\* mutant: the context is not looked at
AfterPermissionOnly(fl) ==
    IF fl.answer \in {"error", "cancelled"} \/ fl.scenario = "v1-permission-cancel"
    THEN V1Reply("cancelled")
    ELSE IF fl.answer = "reject" \/ fl.scenario = "v1-permission-reject"
         THEN RejectedV1
         ELSE AllowedV1

\* mutant: only the scenario's name is compared
RejectUnread(fl) ==
    IF fl.answer \in {"error", "cancelled"} \/ fl.cancelled
    THEN V1Reply("cancelled")
    ELSE IF fl.scenario = "v1-permission-reject" THEN RejectedV1 ELSE AllowedV1

AfterPermissionV1(fl) ==
    IF "midturn-bad-update-v1" \in faults
    THEN <<Segment("bad", "none", "none")>>
    ELSE IF \/ fl.answer \in {"error", "cancelled"}
            \/ fl.scenario = "v1-permission-cancel"
            \/ fl.cancelled
         THEN V1Reply("cancelled")
         ELSE IF fl.answer = "reject" \/ fl.scenario = "v1-permission-reject"
              THEN RejectedV1
              ELSE AllowedV1

\* mutant: the cancelled turn says last what it said before
CancelledQuietly(fl) ==
    IF fl.answer \in {"error", "cancelled"} \/ fl.cancelled
    THEN <<Say("requires_action")>>
    ELSE <<Say("running"), Say("idle_end_turn")>>

\* Only a cancelled outcome is told from the others: reject-once is not.
AfterPermissionV2(fl) ==
    IF fl.answer \in {"error", "cancelled"} \/ fl.cancelled
    THEN <<Say("idle_cancelled")>>
    ELSE <<Say("running")>> \o
         IF "illegal-v2-fs-read-text-file" \in faults
         THEN <<Segment("illegal", "none", "none")>>
         ELSE <<Say("terminal_update"), Say("terminal_output_chunk"),
                Ask("elicitation/create"), SayNew("agent_message", "agent"),
                Say("idle_end_turn")>>

CancelLoop(fl) ==
    IF fl.count < MaxTicks /\ ~fl.cancelled
    THEN <<Segment("sleep", "none", "none"), Goto("loop")>>
    ELSE <<Say(IF fl.cancelled THEN "idle_cancelled" ELSE "idle_end_turn")>>

\* for (const entry of session.history): the live array, entry by entry.
EntryKind(role) ==
    CASE role = "user"  -> IF version = 1 THEN "user_message_chunk"
                           ELSE "user_message"
      [] role = "agent" -> IF version = 1 THEN "agent_message_chunk"
                           ELSE "agent_message"
\* mutant: stops one entry short
ReplayShort(fl) ==
    LET history == sessions[fl.session].history IN
    IF fl.count + 1 < Len(history)
    THEN <<Segment("replay", EntryKind(history[fl.count + 1][1]), "none"),
           Goto("entries")>>
    ELSE <<Reply("ok")>>

ReplayLoop(fl) ==
    LET history == sessions[fl.session].history IN
    IF fl.count < Len(history)
    THEN <<Segment("replay", EntryKind(history[fl.count + 1][1]), "none"),
           Goto("entries")>>
    ELSE <<Reply("ok")>>

\* The scenario is read when runPromptFlow starts: in v2, after an await.
StartOf(fl) == [fl EXCEPT !.scenario = sessions[fl.session].scenario,
                          !.todo = PromptScript(sessions[fl.session].scenario)]

Branch(fl) ==
    CASE fl.todo[1].op = "start"   -> StartOf(fl)
      [] fl.todo[1].op = "judgeV1" -> [fl EXCEPT !.todo = AfterPermissionV1(fl)]
      [] fl.todo[1].op = "judgeV2" -> [fl EXCEPT !.todo = AfterPermissionV2(fl)]
      [] fl.todo[1].op = "loop"    -> [fl EXCEPT !.todo = CancelLoop(fl)]
      [] fl.todo[1].op = "entries" -> [fl EXCEPT !.todo = ReplayLoop(fl)]
      [] OTHER -> fl

-----------------------------------------------------------------------------
(* Running a flow to its next await.                                        *)

StatusAfter(seg, rest) ==
    CASE seg.op = "ask"   -> "asking"
      [] seg.op = "sleep" -> "sleeping"
      [] seg.op \notin {"ask", "sleep"} ->
            IF rest = <<>> THEN "done" ELSE "ready"

Emitted(fl, seg) ==
    CASE seg.op \in {"say", "replay"} -> <<Event(seg.what, 0)>>
      [] seg.op = "ask"     -> <<Event(seg.what, nextAgentRequestId)>>
      [] seg.op = "reply"   -> <<[Response(fl.request, seg.what) EXCEPT
                                    !.valid = seg.what # "no_stop_reason"]>>
      [] seg.op = "bad"     -> <<BadUpdate>>
      [] seg.op = "illegal" -> <<Msg("event", "fs/read_text_file",
                                     nextAgentRequestId, FALSE)>>
      [] seg.op = "sleep"   -> <<>>

\* this.nextAgentRequestId++
IdAfter(seg) ==
    IF seg.op \in {"ask", "illegal"} THEN nextAgentRequestId + 1
    ELSE nextAgentRequestId

\* Flow f, whose record is fl, runs; its record becomes flows'[f].
RunOn(rest, f, fl) ==
    LET b   == Branch(fl)
        seg == b.todo[1]
    IN  /\ flows' = rest \o
              <<[b EXCEPT !.todo = Tail(b.todo),
                          !.status = StatusAfter(seg, Tail(b.todo)),
                          !.count = IF seg.op \in {"sleep", "replay"}
                                    THEN @ + 1 ELSE @]>>
              \o SubSeq(flows, f + 1, Len(flows))
        /\ sessions' = IF seg.push = "none" THEN sessions
                       ELSE [sessions EXCEPT ![fl.session].history =
                                Append(@, <<seg.push, f>>)]
        /\ pendingClientCalls' =
              IF seg.op = "ask" THEN pendingClientCalls \cup {<<nextAgentRequestId, f>>}
              ELSE pendingClientCalls
        /\ nextAgentRequestId' = IdAfter(seg)
        /\ out' = Emitted(b, seg)

Run(f, fl) == RunOn(SubSeq(flows, 1, f - 1), f, fl)
RunNew(fl) == RunOn(flows, Len(flows) + 1, fl)

\* The flow's promise is settled; its continuation runs.
Continue(f) ==
    /\ ~crashed
    /\ flows[f].status = "ready"
    /\ Run(f, flows[f])
    /\ UNCHANGED <<lifeVars, version, promptContexts, pendingSlowCalls>>

\* sleep(20) is over.
Wake(f) ==
    /\ ~crashed
    /\ flows[f].status = "sleeping"
    /\ flows' = [flows EXCEPT ![f].status = "ready"]
    /\ out' = <<>>
    /\ UNCHANGED <<lifeVars, version, sessions, promptContexts, pendingClientCalls,
                   pendingSlowCalls, nextAgentRequestId>>

\* mutant: the session's context is used again for the next prompt
FlowOfOldContext(kind, id, s, todo) ==
    [kind |-> kind, request |-> id, session |-> s, scenario |-> "none",
     todo |-> todo, status |-> "ready",
     cancelled |-> promptContexts[s] # 0 /\ flows[promptContexts[s]].cancelled,
     answer |-> "none", count |-> 0]

NewFlow(kind, id, s, todo) ==
    [kind |-> kind, request |-> id, session |-> s, scenario |-> "none",
     todo |-> todo, status |-> "ready", cancelled |-> FALSE,
     answer |-> "none", count |-> 0]

-----------------------------------------------------------------------------
(* Lines of the client: l.method, l.id, the session l.session (known or not), *)
(* whether the schema accepts the line, and the one argument that matters.   *)

Known(s) == s \in 1 .. Len(sessions)

\* One message; nothing else changes.
Emit(msgs) ==
    /\ out' = msgs
    /\ UNCHANGED <<lifeVars, flowVars, version, sessions, promptContexts,
                   pendingSlowCalls>>
Answer(l, result) == Emit(<<Response(l.id, result)>>)

HandleInitialize(l) ==
    IF ~l.valid THEN Answer(l, "invalid_params")
    ELSE /\ version' = l.arg
         /\ out' = <<Response(l.id, "ok")>>
         /\ UNCHANGED <<lifeVars, flowVars, sessions, promptContexts, pendingSlowCalls>>

SessionNewResult(id) ==
    IF version # 1 THEN <<Response(id, "ok")>>
    ELSE IF "timeout-v1-session-new" \in faults THEN <<>>
    ELSE IF "omit-v1-session-new-session-id" \in faults
         THEN <<Msg("response", "no_session_id", id, FALSE)>>
    ELSE IF "wrong-type-v1-session-new-session-id" \in faults
         THEN <<Msg("response", "bad_session_id", id, FALSE)>>
    ELSE <<Response(id, "ok")>>

HandleSessionNew(l) ==
    /\ Len(sessions) < MaxSessions
    /\ sessions' = Append(sessions, [history |-> <<>>, scenario |-> "none"])
    /\ out' = SessionNewResult(l.id)
    /\ UNCHANGED <<lifeVars, flowVars, version, promptContexts, pendingSlowCalls>>

\* session/load, and session/resume of v2 from the start.
Replay(l) ==
    /\ RunNew(NewFlow("replay", l.id, l.session, <<Goto("entries")>>))
    /\ UNCHANGED <<lifeVars, version, promptContexts, pendingSlowCalls>>

HandleSessionLoad(l) ==
    IF Known(l.session) THEN Replay(l) ELSE Answer(l, "not_found")

HandleSessionResume(l) ==
    IF ~Known(l.session) THEN Answer(l, "not_found")
    ELSE IF version = 2 /\ l.arg = "start" THEN Replay(l)
    ELSE Answer(l, "ok")

\* The context goes; the session, and a flow that runs, stay.
HandleSessionClose(l) ==
    /\ promptContexts' = [s \in 1 .. MaxSessions |->
                            IF s = l.session THEN 0 ELSE promptContexts[s]]
    /\ out' = <<Response(l.id, "ok")>>
    /\ UNCHANGED <<lifeVars, flowVars, version, sessions, pendingSlowCalls>>

\* v1 runs the flow inside the handler; v2 answers, and starts it after the
\* await.
HandlePrompt(l) ==
    LET fl == NewFlow("prompt", l.id, l.session, <<Goto("start")>>) IN
    IF ~Known(l.session) THEN Answer(l, "not_found")
    ELSE /\ promptContexts' = [promptContexts EXCEPT ![l.session] = Len(flows) + 1]
         /\ IF version = 1
            THEN RunNew(fl)
            ELSE /\ flows' = Append(flows, fl)
                 /\ out' = <<Response(l.id, "ok")>>
                 /\ UNCHANGED <<sessions, pendingClientCalls, nextAgentRequestId>>
         /\ UNCHANGED <<lifeVars, version, pendingSlowCalls>>

HandleExtension(l) ==
    CASE l.method = "_conformance/echo" -> Answer(l, "ok")
      [] l.method = "_conformance/set_scenario" ->
            IF ~Known(l.session) THEN Answer(l, "not_found")
            ELSE /\ sessions' = [sessions EXCEPT ![l.session].scenario = l.arg]
                 /\ out' = <<Response(l.id, "ok")>>
                 /\ UNCHANGED <<lifeVars, flowVars, version, promptContexts,
                                pendingSlowCalls>>
      [] l.method = "_conformance/slow" ->
            /\ pendingSlowCalls' = pendingSlowCalls \cup {l.id}
            /\ out' = <<>>
            /\ UNCHANGED <<lifeVars, flowVars, version, sessions, promptContexts>>
      [] OTHER -> Answer(l, "method_not_found")

\* The 5 s timer of a slow call.
SlowDone(id) ==
    /\ ~crashed
    /\ id \in pendingSlowCalls
    /\ pendingSlowCalls' = pendingSlowCalls \ {id}
    /\ out' = <<Response(id, "ok")>>
    /\ UNCHANGED <<lifeVars, flowVars, version, sessions, promptContexts>>

Extensions == {"_conformance/echo", "_conformance/set_scenario",
               "_conformance/slow", "_unknown"}
KnownMethods ==
    IF version = 1
    THEN {"session/new", "session/load", "session/list", "session/resume",
          "session/close", "session/prompt"}
    ELSE {"session/new", "session/list", "session/resume", "session/close",
          "session/prompt"}

HandleRequest(l) ==
    IF l.method \in Extensions THEN HandleExtension(l)
    ELSE IF l.method = "initialize" THEN HandleInitialize(l)
    ELSE IF version = 0 THEN Answer(l, "invalid_request")
    ELSE IF l.method \notin KnownMethods THEN Answer(l, "method_not_found")
    ELSE IF ~l.valid THEN Answer(l, "invalid_params")
    ELSE CASE l.method = "session/new"    -> HandleSessionNew(l)
           [] l.method = "session/load"   -> HandleSessionLoad(l)
           [] l.method = "session/list"   -> Answer(l, "ok")
           [] l.method = "session/resume" -> HandleSessionResume(l)
           [] l.method = "session/close"  -> HandleSessionClose(l)
           [] l.method = "session/prompt" -> HandlePrompt(l)

-----------------------------------------------------------------------------
(* Notifications, answers of the client, close.                             *)

\* mutant: the answer is forgotten
CancelSilently(id) ==
    /\ pendingSlowCalls' = pendingSlowCalls \ {id}
    /\ out' = <<>>
    /\ UNCHANGED <<lifeVars, flowVars, version, sessions, promptContexts>>

\* $/cancel_request reaches slow calls only.
CancelRequest(id) ==
    /\ pendingSlowCalls' = pendingSlowCalls \ {id}
    /\ out' = IF id \in pendingSlowCalls
              THEN <<Response(id, "request_cancelled")>> ELSE <<>>
    /\ UNCHANGED <<lifeVars, flowVars, version, sessions, promptContexts>>

\* The latest context of the session is marked, if it is there.
SessionCancel(s) ==
    LET f == IF Known(s) THEN promptContexts[s] ELSE 0 IN
    /\ flows' = IF f = 0 THEN flows ELSE [flows EXCEPT ![f].cancelled = TRUE]
    /\ out' = <<>>
    /\ UNCHANGED <<lifeVars, version, sessions, promptContexts, pendingClientCalls,
                   pendingSlowCalls, nextAgentRequestId>>

HandleNotification(l) ==
    IF /\ l.method = "$/cancel_request"
       /\ version = 0 \/ l.valid
    THEN CancelRequest(l.arg)
    ELSE IF l.method = "session/cancel" /\ version # 0 /\ l.valid
         THEN SessionCancel(l.session)
         ELSE Emit(<<>>)

\* Flows whose promise is rejected throw.  Nobody catches that in a process of
\* its own, nor in the flow of a v2 prompt, which is not awaited.
Throw(S) ==
    /\ flows' = [f \in DOMAIN flows |->
                    IF f \in S THEN [flows[f] EXCEPT !.status = "thrown"] ELSE flows[f]]
    /\ crashed' = (S # {} /\ (driver = "stdio" \/ version = 2))

\* An answer for a call that is not in the table is ignored.
HandleResponse(l) ==
    LET F == {p[2] : p \in {q \in pendingClientCalls : q[1] = l.id}} IN
    /\ pendingClientCalls' = {p \in pendingClientCalls : p[1] # l.id}
    /\ IF ~l.valid
       THEN Throw(F)
       ELSE /\ flows' = [f \in DOMAIN flows |->
                           IF f \in F THEN [flows[f] EXCEPT !.status = "ready",
                                                            !.answer = l.arg]
                           ELSE flows[f]]
            /\ UNCHANGED crashed
    /\ out' = <<>>
    /\ UNCHANGED <<startVars, agentClosed, version, sessions, promptContexts,
                   pendingSlowCalls, nextAgentRequestId>>

Receive(l) ==
    /\ ~crashed
    /\ CASE l.type = "garbage"      -> Emit(<<Response(0, "parse_error")>>)
         [] l.type = "request"      -> HandleRequest(l)
         [] l.type = "notification" -> HandleNotification(l)
         [] l.type = "response"     -> HandleResponse(l)

\* mutant: the table is cleared, nobody is told
AgentCloseQuietly ==
    /\ ~crashed
    /\ agentClosed' = TRUE
    /\ pendingSlowCalls' = {}
    /\ pendingClientCalls' = {}
    /\ out' = <<>>
    /\ UNCHANGED <<startVars, crashed, version, sessions, promptContexts, flows,
                   nextAgentRequestId>>

\* close(), when stdin ends or the harness closes the connection.
AgentClose ==
    /\ ~crashed
    /\ agentClosed' = TRUE
    /\ pendingSlowCalls' = {}
    /\ pendingClientCalls' = {}
    /\ Throw({p[2] : p \in pendingClientCalls})
    /\ out' = <<>>
    /\ UNCHANGED <<startVars, version, sessions, promptContexts, nextAgentRequestId>>

\* What the agent does by itself.
AgentStep ==
    \/ \E f \in DOMAIN flows : Continue(f) \/ Wake(f)
    \/ \E id \in pendingSlowCalls : SlowDone(id)

=============================================================================
