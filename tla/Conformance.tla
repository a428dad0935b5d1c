------------------------------ MODULE Conformance ------------------------------
(***************************************************************************)
(* A run of the conformance suite (runner.ts, cases.ts) against the          *)
(* reference agent: the harness's connection (HarnessConnection) and the     *)
(* agent (ReferenceAgent), joined by two pipes, and the test cases, each on  *)
(* a connection and an agent of its own.                                    *)
(*                                                                          *)
(* A case is a script: what it calls, and what it awaits.  Its code runs     *)
(* between any two lines: readline hands over the lines of one chunk without *)
(* letting the promises settled by the first of them run.  The connection of *)
(* the in-process driver, which hands lines over at once, is modelled by the *)
(* same pipes; only its sendLine differs.                                   *)
(*                                                                          *)
(* Timers are slow: a request's 5 s, an expectation's 8 s, the 150 ms of     *)
(* settle and the last of the agent's 20 ms naps pass only when all else     *)
(* rests (Quiet).  sendLine's failure, a target that dies and the agent's    *)
(* 5 s slow call are left out: no script waits for them.                    *)
(***************************************************************************)
EXTENDS ReferenceAgent, SequencesExt

CONSTANTS
    RequestBound,             \* bound: request calls of one case
    CallBound,                \* bound: expect calls of one case
    LineBound                 \* bound: lines of one agent

ASSUME BoundAssumption == RequestBound \in Nat /\ CallBound \in Nat /\ LineBound \in Nat

VARIABLES
    nextId, pendingResponses, write, response, answeredBy,
    queued, waiters, calls, received, closed, fatalError,
    fatalCause,               \* the message of fatalError
    log,                      \* the valid lines of the agent: its transcript
    mark,                     \* where the slice of the transcript starts
    toAgent, toHarness,       \* lines on their way
    at,                       \* position in Suite
    todo,                     \* what is left of the case's script
    phase,                    \* "open", "running", "reported"
    results                   \* the report's cases

harnessVars == <<nextId, pendingResponses, write, response, answeredBy,
                 queued, waiters, calls, received, closed, fatalError>>
wireVars == <<fatalCause, log, toHarness>>
caseVars == <<at, phase, results>>
vars == <<agentVars, harnessVars, wireVars, toAgent, caseVars, mark, todo>>

Updates == {"user_message_chunk", "agent_message_chunk", "tool_call",
            "tool_call_update", "user_message", "agent_message", "running",
            "requires_action", "terminal_update", "terminal_output_chunk",
            "idle_end_turn", "idle_cancelled"}
FsMethods       == {"fs/read_text_file", "fs/write_text_file"}
TerminalMethods == {"terminal/create", "terminal/output", "terminal/kill",
                    "terminal/wait_for_exit", "terminal/release"}
ClientMethods   == FsMethods \cup TerminalMethods
                    \cup {"session/request_permission", "elicitation/create"}

H == INSTANCE HarnessConnection WITH
    EventKinds  <- Updates \cup ClientMethods,
    Predicates  <- [events |-> {}, responses |-> {}],
    MaxRequests <- RequestBound, MaxCalls <- CallBound, MaxReceived <- LineBound

-----------------------------------------------------------------------------
(* Scripts.  what and arg depend on op.                                     *)

Step(op, what, arg) == [op |-> op, what |-> what, arg |-> arg]

Sent(method, arg)      == <<Step("call", method, arg)>>          \* request
Await(method, result)  == <<Step("await", result, method)>>
Called(method, arg, result) == Sent(method, arg) \o Await(method, result)
Written                == <<Step("written", "", "")>>            \* requestWithId
Expected(kinds, wanted) == <<Step("expect", kinds, "events"), Step("got", wanted, "")>>
Shown(kind)            == Expected(Updates, {kind})
SomeUpdate             == Expected(Updates, Updates)
Asked(method)          == Expected({method}, {method})
Answered(a)            == <<Step("answer", "", a)>>
Notified(method)       == <<Step("notify", method, "")>>
Marked                 == <<Step("mark", "", "")>>
Check(what)            == <<Step("check", what, "")>>

Served(method) == Asked(method) \o Answered("ok")
ShownAll(kinds) == FlattenSeq([i \in DOMAIN kinds |-> Shown(kinds[i])])
ServedAll(methods) == FlattenSeq([i \in DOMAIN methods |-> Served(methods[i])])

Initialized(v)   == Called("initialize", v, "ok")
WithSession(v)   == Initialized(v) \o Called("session/new", "", "ok")
InScenario(v, s) == WithSession(v) \o Called("_conformance/set_scenario", s, "ok")

Negotiation(v)   == Initialized(v)
InvalidParams    == Called("initialize", 0, "invalid_params")
UnknownMethod(v) ==
    Initialized(v) \o Called("session/unknown", "", "method_not_found")
    \o Notified("_unknown") \o Called("_conformance/echo", "", "ok")
ParseError ==
    <<Step("raw", "", ""), Step("expect", {H!NullId}, "responses"),
      Step("got", {"parse_error"}, "")>>
CancelCase(v) ==
    Initialized(v) \o Sent("_conformance/slow", "") \o Written
    \o Notified("$/cancel_request")
    \o Await("_conformance/slow", "request_cancelled")

LoadReplay ==
    WithSession(1) \o Called("session/prompt", "", "end_turn")
    \o SomeUpdate \o SomeUpdate
    \o Sent("session/load", "") \o Written
    \o ShownAll(<<"user_message_chunk", "agent_message_chunk">>)
    \o Await("session/load", "ok")

V1FullTurn ==
    InScenario(1, "v1-full-turn") \o Sent("session/prompt", "")
    \o ShownAll(<<"user_message_chunk", "tool_call">>)
    \o Asked("session/request_permission") \o Answered("allow")
    \o ServedAll(<<"fs/read_text_file", "fs/write_text_file", "terminal/create",
                   "terminal/output", "terminal/kill", "terminal/wait_for_exit",
                   "terminal/release", "elicitation/create">>)
    \o ShownAll(<<"tool_call_update", "agent_message_chunk">>)
    \o Await("session/prompt", "end_turn")

V1Rejection ==
    InScenario(1, "v1-permission-reject") \o Sent("session/prompt", "")
    \o SomeUpdate \o SomeUpdate
    \o Asked("session/request_permission") \o Answered("reject")
    \o ShownAll(<<"tool_call_update", "agent_message_chunk">>)
    \o Await("session/prompt", "end_turn")
    \o Check("no_client_methods")

V1Cancel ==
    InScenario(1, "v1-permission-cancel") \o Sent("session/prompt", "")
    \o SomeUpdate \o SomeUpdate
    \o Asked("session/request_permission")
    \o Notified("session/cancel") \o Answered("cancelled")
    \o Await("session/prompt", "cancelled")

\* requestWithId(...), its answer awaited, and the order of what came since.
V2Prompt ==
    Marked \o Sent("session/prompt", "") \o Written
    \o Await("session/prompt", "ok") \o Check("response_first")

ListAndResume ==
    WithSession(2) \o V2Prompt
    \o SomeUpdate \o SomeUpdate \o SomeUpdate \o SomeUpdate
    \o Called("session/list", "", "ok")
    \o Marked \o Called("session/resume", "none", "ok") \o Check("no_updates")
    \o Sent("session/resume", "start") \o Written
    \o ShownAll(<<"user_message", "agent_message">>)
    \o Await("session/resume", "ok")

V2FullTurnStart ==
    InScenario(2, "v2-full-turn") \o V2Prompt
    \o ShownAll(<<"user_message", "running", "tool_call_update">>)
    \o Asked("session/request_permission") \o Answered("allow")
    \o ShownAll(<<"requires_action", "running", "terminal_update",
                  "terminal_output_chunk">>)

V2FullTurnEnd ==
    ShownAll(<<"agent_message", "idle_end_turn">>) \o Check("no_v1_methods")

\* mutant: the elicitation is awaited, not answered
V2FullTurnUnanswered ==
    V2FullTurnStart \o Asked("elicitation/create") \o V2FullTurnEnd

V2FullTurn == V2FullTurnStart \o Served("elicitation/create") \o V2FullTurnEnd

V2Cancel ==
    InScenario(2, "v2-cancel") \o Called("session/prompt", "", "ok")
    \o SomeUpdate \o SomeUpdate
    \o Notified("session/cancel") \o Shown("idle_cancelled")

LoadAbsent == Initialized(2) \o Called("session/load", "", "method_not_found")

Case(id, version_, drivers, script) ==
    [id |-> id, version |-> version_, drivers |-> drivers, script |-> script]
AnyDriver == {"stdio", "in-process"}

CommonCases(v) ==
    <<Case("initialize-negotiation", v, AnyDriver, Negotiation(v)),
      Case("initialize-invalid-params", v, AnyDriver, InvalidParams),
      Case("unknown-method-and-extensibility", v, AnyDriver, UnknownMethod(v)),
      Case("parse-error", v, {"stdio"}, ParseError),
      Case("cancel-request-jsonrpc", v, AnyDriver, CancelCase(v))>>

\* The cases of version 1 in the order of the list, then those of version 2.
Suite ==
    CommonCases(1) \o
    <<Case("v1-session-load-replay", 1, AnyDriver, LoadReplay),
      Case("v1-full-turn-core", 1, AnyDriver, V1FullTurn),
      Case("v1-permission-rejection", 1, AnyDriver, V1Rejection),
      Case("v1-session-cancel", 1, AnyDriver, V1Cancel)>>
    \o CommonCases(2) \o
    <<Case("v2-session-list-and-resume", 2, AnyDriver, ListAndResume),
      Case("v2-full-turn-display-terminals", 2, AnyDriver, V2FullTurn),
      Case("v2-session-cancel", 2, AnyDriver, V2Cancel),
      Case("v2-session-load-absent", 2, AnyDriver, LoadAbsent)>>

-----------------------------------------------------------------------------
(* Opening and ending a case.                                               *)

Init ==
    /\ AgentInit
    /\ H!Init
    /\ fatalCause = <<>> /\ log = <<>> /\ toAgent = <<>> /\ toHarness = <<>>
    /\ mark = 0 /\ at = 1 /\ todo = <<>> /\ phase = "open" /\ results = <<>>

NewHarness ==
    /\ nextId' = 1 /\ pendingResponses' = {}
    /\ write' = [i \in H!Ids |-> "none"]
    /\ response' = [i \in H!Ids |-> "none"]
    /\ answeredBy' = [i \in H!Ids |-> 0]
    /\ queued' = [b \in H!Boxes |-> <<>>] /\ waiters' = [b \in H!Boxes |-> <<>>]
    /\ calls' = <<>> /\ received' = 0 /\ closed' = FALSE /\ fatalError' = FALSE
    /\ fatalCause' = <<>>

NewAgent ==
    /\ version' = 0 /\ sessions' = <<>> /\ flows' = <<>> /\ out' = <<>>
    /\ promptContexts' = [s \in 1 .. MaxSessions |-> 0]
    /\ pendingClientCalls' = {} /\ pendingSlowCalls' = {}
    /\ nextAgentRequestId' = 1 /\ agentClosed' = FALSE /\ crashed' = FALSE
    /\ UNCHANGED startVars

\* openConnection: a fresh connection and a fresh agent.
OpenCase ==
    /\ phase = "open" /\ at <= Len(Suite)
    /\ driver \in Suite[at].drivers
    /\ NewHarness /\ NewAgent
    /\ log' = <<>> /\ mark' = 0 /\ toAgent' = <<>> /\ toHarness' = <<>>
    /\ todo' = Suite[at].script
    /\ phase' = "running"
    /\ UNCHANGED <<at, results>>

Report(status, cause) ==
    results' = Append(results, [id |-> Suite[at].id, version |-> Suite[at].version,
                                status |-> status, cause |-> cause])

SkipCase ==
    /\ phase = "open" /\ at <= Len(Suite)
    /\ driver \notin Suite[at].drivers
    /\ Report("skipped", <<>>)
    /\ at' = at + 1
    /\ UNCHANGED <<agentVars, harnessVars, wireVars, toAgent, mark, todo, phase>>

\* The result is noted; finally, the connection is closed.
EndCase(status, cause) ==
    /\ Report(status, cause)
    /\ H!Close /\ AgentClose
    /\ at' = at + 1
    /\ phase' = "open"
    /\ todo' = <<>>
    /\ UNCHANGED <<wireVars, toAgent, mark>>

WriteReport ==
    /\ phase = "open" /\ at > Len(Suite)
    /\ phase' = "reported"
    /\ UNCHANGED <<agentVars, harnessVars, wireVars, toAgent, mark, todo, at, results>>

-----------------------------------------------------------------------------
(* A case's code.                                                           *)

Running  == phase = "running"
Now(ops) == Running /\ todo # <<>> /\ Head(todo).op \in ops
Latest   == nextId - 1
LastCall == calls[Len(calls)]
Since    == SubSeq(log, mark + 1, Len(log))
Kinds(s) == {s[i].kind : i \in DOMAIN s}

Advance == todo' = Tail(todo)
Says(l) == toAgent' = Append(toAgent, l)

ClientLine(type, method, id, arg) ==
    [type |-> type, method |-> method, id |-> id, session |-> 1, arg |-> arg,
     valid |-> method # "initialize" \/ arg # 0]

\* throwIfFatal, first in every method of the connection.
Throws ==
    /\ Now({"call", "expect", "answer", "notify", "raw"})
    /\ fatalError
    /\ EndCase("failed", fatalCause)

CaseRequests ==
    /\ Now({"call"})
    /\ H!Request
    /\ Says(ClientLine("request", Head(todo).what, nextId, Head(todo).arg))
    /\ Advance
    /\ UNCHANGED <<agentVars, wireVars, mark, caseVars>>

CaseExpects ==
    /\ Now({"expect"})
    /\ H!Expect(Head(todo).arg, Head(todo).what)
    /\ Advance
    /\ UNCHANGED <<agentVars, wireVars, toAgent, mark, caseVars>>

\* Their sendLine is awaited too; the agent handles the line at once.
CaseTells ==
    /\ Now({"answer", "notify", "raw"}) /\ ~fatalError
    /\ Says(CASE Head(todo).op = "answer" ->
                   ClientLine("response", "", log[LastCall.got.n].id, Head(todo).arg)
              [] Head(todo).op = "notify" ->
                   ClientLine("notification", Head(todo).what, 0, Latest)
              [] Head(todo).op = "raw" -> ClientLine("garbage", "", 0, ""))
    /\ Advance
    /\ UNCHANGED <<agentVars, harnessVars, wireVars, mark, caseVars>>

CaseMarks ==
    /\ Now({"mark"})
    /\ mark' = Len(log)
    /\ Advance
    /\ UNCHANGED <<agentVars, harnessVars, wireVars, toAgent, caseVars>>

\* An await: request() waits for its sendLine, and then for the response.
Waits ==
    CASE Head(todo).op = "written" -> write[Latest] = "busy"
      [] Head(todo).op = "await" -> write[Latest] = "busy" \/ response[Latest] = "waiting"
      [] Head(todo).op = "got"   -> LastCall.state = "waiting"
      [] Head(todo).op = "check" -> FALSE

\* What is awaited came, and the assertions about it hold.
ResponseFirst ==
    \E i \in DOMAIN Since : /\ Since[i].type = "response"
                            /\ \A j \in 1 .. i - 1 : Since[j].kind \notin Updates
Holds ==
    CASE Head(todo).op = "written" -> TRUE
      [] Head(todo).op = "await" ->
            response[Latest] = "resolved" /\ log[answeredBy[Latest]].kind = Head(todo).what
      [] Head(todo).op = "got" ->
            LastCall.state = "resolved" /\ log[LastCall.got.n].kind \in Head(todo).what
      [] Head(todo).op = "check" ->
            CASE Head(todo).what = "response_first" -> ResponseFirst
              [] Head(todo).what = "no_updates" -> Kinds(Since) \cap Updates = {}
              [] Head(todo).what = "no_v1_methods" ->
                    Kinds(log) \cap (FsMethods \cup TerminalMethods) = {}
              [] Head(todo).what = "no_client_methods" ->
                    Kinds(log) \cap (ClientMethods \ {"session/request_permission"}) = {}

\* The message of the error that is thrown otherwise.
AwaitRejected ==
    \/ Head(todo).op = "await" /\ response[Latest] = "rejected"
    \/ Head(todo).op = "got" /\ LastCall.state = "rejected"
Cause ==
    IF ~AwaitRejected THEN <<"assertion", Head(todo).op>>
    ELSE IF Head(todo).op = "await" /\ answeredBy[Latest] # 0
         THEN <<"invalid", log[answeredBy[Latest]].kind>>
    ELSE IF fatalError THEN fatalCause
    ELSE IF Head(todo).op = "await" THEN <<"no_response", Head(todo).arg>>
    ELSE <<"no_event">>

Awaits == Now({"written", "await", "got", "check"})

CaseGoesOn ==
    /\ Awaits /\ ~Waits /\ Holds
    /\ Advance
    /\ UNCHANGED <<agentVars, harnessVars, wireVars, toAgent, mark, caseVars>>

CaseFails == Awaits /\ ~Waits /\ ~Holds /\ EndCase("failed", Cause)

-----------------------------------------------------------------------------
(* The wires.                                                               *)

Emits == toHarness' = toHarness \o out'
Case_ == <<mark, todo, caseVars>>

AgentReads ==
    /\ Running /\ toAgent # <<>>
    /\ Receive(Head(toAgent))
    /\ toAgent' = Tail(toAgent)
    /\ Emits
    /\ UNCHANGED <<harnessVars, fatalCause, log, Case_>>

AgentGoesOn == \E f \in DOMAIN flows :
    /\ Running
    /\ Continue(f)
    /\ Emits
    /\ UNCHANGED <<harnessVars, fatalCause, log, toAgent, Case_>>

HarnessReads ==
    /\ Running /\ toHarness # <<>>
    /\ toHarness' = Tail(toHarness)
    /\ LET m == Head(toHarness) IN
       IF m.type = "event" /\ ~m.valid
       THEN /\ H!BadLine
            /\ fatalCause' = <<"invalid", m.kind>>
            /\ UNCHANGED log
       ELSE /\ IF m.type = "event" THEN H!EventLine(m.kind)
               ELSE H!ResponseLine(m.id, m.valid)
            /\ log' = Append(log, m)
            /\ UNCHANGED fatalCause
    /\ UNCHANGED <<agentVars, toAgent, Case_>>

\* The in-process sendLine returns when the agent's handler does: a prompt of
\* v1 and a replay run inside it.
Handled(id) ==
    /\ \A i \in DOMAIN toAgent : toAgent[i].type = "request" => toAgent[i].id # id
    /\ \A f \in DOMAIN flows :
          flows[f].request = id /\ (version = 1 \/ flows[f].kind = "replay")
              => flows[f].status = "done"
WriteReturns == \E id \in H!Ids :
    /\ Running
    /\ driver = "in-process" => Handled(id)
    /\ H!SendReturns(id)
    /\ UNCHANGED <<agentVars, wireVars, toAgent, Case_>>

-----------------------------------------------------------------------------
(* Timers.                                                                  *)

Blocked == todo = <<>> \/ (Awaits /\ Waits)

\* Nothing but a timer can go on.  That the timers wait for this is an assumption
\* about the machine: nothing in the code makes 150 ms outlast a line under way.
Quiet ==
    /\ Running /\ Blocked
    /\ toAgent = <<>> /\ toHarness = <<>>
    /\ \A f \in DOMAIN flows : flows[f].status # "ready"
    /\ \A id \in H!Ids : write[id] = "busy" => driver = "in-process" /\ ~Handled(id)

AgentWakes == \E f \in DOMAIN flows :
    /\ Running
    /\ flows[f].count < MaxTicks \/ Quiet
    /\ Wake(f)
    /\ Emits
    /\ UNCHANGED <<harnessVars, fatalCause, log, toAgent, Case_>>

NobodySleeps == \A f \in DOMAIN flows : flows[f].status # "sleeping"

\* mutant: the request's timer is not set
OnlyExpectTimesOut ==
    /\ Quiet /\ Awaits /\ NobodySleeps
    /\ Head(todo).op = "got" /\ H!ExpectTimeout(Len(calls))
    /\ UNCHANGED <<agentVars, wireVars, toAgent, Case_>>

\* The request or the expectation the case waits for.
TimesOut ==
    /\ Quiet /\ Awaits /\ NobodySleeps
    /\ IF Head(todo).op = "got" THEN H!ExpectTimeout(Len(calls))
       ELSE H!RequestTimeout(Latest)
    /\ UNCHANGED <<agentVars, wireVars, toAgent, Case_>>

\* mutant: no settling
CasePassesAtOnce ==
    /\ Running /\ todo = <<>>
    /\ IF fatalError THEN EndCase("failed", fatalCause) ELSE EndCase("passed", <<>>)

\* settle() looks for a fatal error before and after its nap.
CaseSettles ==
    /\ Running /\ todo = <<>>
    /\ IF fatalError THEN EndCase("failed", fatalCause)
       ELSE Quiet /\ EndCase("passed", <<>>)

-----------------------------------------------------------------------------
CaseStep == \/ CaseRequests \/ CaseExpects \/ CaseTells \/ CaseMarks
            \/ CaseGoesOn \/ CaseFails \/ Throws \/ CaseSettles
RunnerStep == OpenCase \/ SkipCase \/ WriteReport
WireStep == AgentReads \/ AgentGoesOn \/ HarnessReads \/ WriteReturns
TimerStep == AgentWakes \/ TimesOut

Next == CaseStep \/ RunnerStep \/ WireStep \/ TimerStep

Spec == Init /\ [][Next]_vars

\* The event loops go on while there is anything to do.
FairSpec == Spec /\ WF_vars(Next)

-----------------------------------------------------------------------------
(* Properties.                                                              *)

Verdict(fault) ==
    CASE fault \in {"midturn-bad-update-v1", "trailing-bad-update-v1"} ->
            <<"invalid", "bad_update">>
      [] fault = "omit-v1-session-new-session-id" -> <<"invalid", "no_session_id">>
      [] fault = "wrong-type-v1-session-new-session-id" -> <<"invalid", "bad_session_id">>
      [] fault = "timeout-v1-session-new" -> <<"no_response", "session/new">>
      [] fault = "omit-v1-prompt-stop-reason" -> <<"invalid", "no_stop_reason">>
      [] fault = "illegal-v2-fs-read-text-file" -> <<"invalid", "fs/read_text_file">>
VersionOf(fault) == IF fault = "illegal-v2-fs-read-text-file" THEN 2 ELSE 1

\* fault-suite.ts and profiles.ts: each fault of the agent is reported by the
\* message that names it, in cases of its version only; so a good agent passes,
\* and no failure spills over into another case or shows as a mere timeout or
\* a failed assertion.
FailuresAreExplained ==
    \A i \in DOMAIN results :
        results[i].status = "failed" =>
            \E fault \in faults : /\ results[i].cause = Verdict(fault)
                                  /\ results[i].version = VersionOf(fault)

\* The case makes the agent do what the fault spoils.
Calls(case, method) == \E i \in DOMAIN case.script :
    case.script[i].op = "call" /\ case.script[i].what = method
Expects(case, method) == \E i \in DOMAIN case.script :
    /\ case.script[i].op = "expect" /\ case.script[i].arg = "events"
    /\ method \in case.script[i].what
Exercises(case, fault) ==
    /\ case.version = VersionOf(fault)
    /\ CASE fault \in {"omit-v1-session-new-session-id", "timeout-v1-session-new",
                       "wrong-type-v1-session-new-session-id"} -> Calls(case, "session/new")
         [] fault \in {"omit-v1-prompt-stop-reason", "trailing-bad-update-v1"} ->
               Calls(case, "session/prompt")
         [] fault \in {"midturn-bad-update-v1", "illegal-v2-fs-read-text-file"} ->
               Expects(case, "session/request_permission")

\* No verdict depends on the order in which lines, chunks, flows and the case's code
\* run, provided the timers outlast them all (Quiet): a case fails exactly when it
\* meets a fault, also one that shows only after its last answer, in both drivers.
NoFlakyVerdict ==
    \A i \in DOMAIN results :
        results[i].status # "skipped" =>
            (results[i].status = "failed"
                <=> \E fault \in faults : Exercises(Suite[i], fault))

\* reference-agent.ts:152 close() rejects the calls that wait.  In process the
\* rejection of a v2 prompt's call is unhandled and would end the suite; no
\* case is closed while such a call waits.
HarnessSurvives == ~crashed

\* The suite comes to its report, against a silent agent too.
SuiteEnds == <>(phase = "reported")

=============================================================================
