------------------------------ MODULE AnyClient ------------------------------
(***************************************************************************)
(* The reference agent with an arbitrary client that keeps to the schema:    *)
(* it sends any request or notification at any time, before the last one is *)
(* answered too, answers the agent's requests in any order, late, twice or  *)
(* with an invalid result, and may end the agent.  A workload bounds how     *)
(* often it does what.                                                      *)
(*                                                                          *)
(* The variables from answers on are history: the properties read them.     *)
(***************************************************************************)
EXTENDS ReferenceAgent

CONSTANTS
    Workloads,                \* bounds: what a client does |-> how often
    Scenarios,                \* version |-> scenarios it sets
    Versions,                 \* versions it asks for
    PermissionAnswers,        \* its answers to session/request_permission
    OtherAnswers              \* its answers to other requests

Requests  == {"initialize", "new", "scenario", "prompt", "replay", "close",
              "slow", "other"}
Kinds     == Requests \cup {"cancelRequest", "cancel", "end", "garbage"}

\* A client that keeps to the protocol: it initializes once, and the scenarios
\* it sets are those of the version it asked for.
ASSUME ClientAssumption ==
    /\ IsFiniteSet(Workloads)
    /\ \A w \in Workloads : w \in [Kinds -> Nat] /\ w.initialize <= 1
    /\ Versions \subseteq {1, 2}
    /\ Scenarios[1] \subseteq {"v1-full-turn", "v1-permission-reject", "v1-permission-cancel"}
    /\ Scenarios[2] \subseteq {"v2-full-turn", "v2-cancel"}

VARIABLES
    workload,                 \* what this client does
    done,                     \* what the client did, counted
    answers,                  \* request |-> responses emitted
    ended,                    \* flow |-> how its turn was reported to end
    lastState,                \* session |-> its last state_update
    cancelAsked,              \* flows that ran when their session was cancelled
    cancelHeard,              \* of these: the ones that had yet to look
    closeAsked,               \* flows that had yet to look when it was closed
    denied                    \* flows whose permission was rejected

history == <<answers, ended, lastState, cancelAsked, cancelHeard, closeAsked, denied>>
vars == <<agentVars, workload, done, history>>

Total(n)  == n.initialize + n.new + n.scenario + n.prompt + n.replay + n.close
                + n.slow + n.other
Largest(S) == CHOOSE n \in S : \A m \in S : m <= n
MaxId     == Largest({Total(w) : w \in Workloads})
Flows     == 1 .. Largest({w.prompt + w.replay : w \in Workloads})
NextId    == 1 + Total(done)
SessionIds == 1 .. MaxSessions
States    == {"running", "requires_action", "idle_end_turn", "idle_cancelled"}
Stops     == {"end_turn", "cancelled", "idle_end_turn", "idle_cancelled"}

Init ==
    /\ AgentInit
    /\ workload \in Workloads
    /\ done = [k \in DOMAIN workload |-> 0]
    /\ answers = [id \in 1 .. MaxId |-> 0]
    /\ ended = [f \in Flows |-> "not"]
    /\ lastState = [s \in SessionIds |-> "none"]
    /\ cancelAsked = {} /\ cancelHeard = {} /\ closeAsked = {} /\ denied = {}

-----------------------------------------------------------------------------
Running(s) == {f \in DOMAIN flows : /\ flows[f].kind = "prompt"
                                    /\ flows[f].session = s
                                    /\ flows[f].status \notin {"done", "thrown"}}

\* Code that looks at the cancelled flag is still ahead of the flow.
WillLook(f) == \E i \in DOMAIN flows[f].todo :
    flows[f].todo[i].op \in {"judgeV1", "judgeV2", "loop"}

Count(k) ==
    /\ done[k] < workload[k]
    /\ done' = [done EXCEPT ![k] = @ + 1]
    /\ UNCHANGED workload

Responses == {i \in DOMAIN out' : out'[i].type = "response"}
CountAnswers ==
    answers' = [id \in DOMAIN answers |->
        answers[id] + Cardinality({i \in Responses : out'[i].id = id})]

Untold == UNCHANGED <<ended, lastState, cancelAsked, cancelHeard, closeAsked, denied>>
Plain  == CountAnswers /\ Untold

\* What flow f told of its turn in this step.
FlowSays(f, s) ==
    /\ CountAnswers
    /\ LET said == {out'[i].kind : i \in DOMAIN out'} IN
       /\ ended' = [ended EXCEPT ![f] = IF said \cap Stops = {} THEN @
                                        ELSE CHOOSE k \in said \cap Stops : TRUE]
       /\ lastState' = [lastState EXCEPT ![s] =
                          IF said \cap States = {} THEN @
                          ELSE CHOOSE k \in said \cap States : TRUE]
    /\ UNCHANGED <<cancelAsked, cancelHeard, closeAsked, denied>>

-----------------------------------------------------------------------------
(* The client.                                                              *)

Line(type, method, id, s, arg, valid) ==
    [type |-> type, method |-> method, id |-> id, session |-> s, arg |-> arg,
     valid |-> valid]
\* The next request of the client, and a notification.
Call(method, s, arg)  == Receive(Line("request", method, NextId, s, arg, TRUE))
Notify(method, s, arg) == Receive(Line("notification", method, 0, s, arg, TRUE))

\* A session id the agent may know, or not.
SomeSession == 1 .. MaxSessions

SendInitialize == \E v \in Versions :
    Count("initialize") /\ Call("initialize", 0, v) /\ Plain
SendNew == Count("new") /\ Call("session/new", 0, "none") /\ Plain
SendScenario == \E s \in SomeSession :
    \E c \in IF version = 0 THEN {} ELSE Scenarios[version] :
        Count("scenario") /\ Call("_conformance/set_scenario", s, c) /\ Plain
SendPrompt == \E s \in SomeSession :
    /\ Count("prompt")
    /\ Call("session/prompt", s, "none")
    /\ IF flows' # flows THEN FlowSays(Len(flows) + 1, s) ELSE Plain
SendReplay == \E s \in SomeSession, arg \in {"start", "none"} :
    \E method \in {"session/load", "session/resume"} :
        Count("replay") /\ Call(method, s, arg) /\ Plain
SendSlow == Count("slow") /\ Call("_conformance/slow", 0, "none") /\ Plain
\* A request that changes nothing, the ones the agent refuses among them.
SendOther == \E method \in {"session/list", "session/unknown", "_unknown",
                            "_conformance/echo"}, valid \in BOOLEAN :
    /\ Count("other")
    /\ Receive(Line("request", method, NextId, 0, "none", valid))
    /\ Plain
SendGarbage ==
    Count("garbage") /\ Receive(Line("garbage", "none", 0, 0, "none", FALSE)) /\ Plain
SendCancelRequest == \E id \in 1 .. NextId :
    Count("cancelRequest") /\ Notify("$/cancel_request", 0, id) /\ Plain
SendClose == \E s \in SomeSession :
    /\ Count("close")
    /\ closeAsked' = closeAsked \cup {f \in Running(s) : WillLook(f)}
    /\ Call("session/close", s, "none")
    /\ CountAnswers
    /\ UNCHANGED <<ended, lastState, cancelAsked, cancelHeard, denied>>
SendCancel == \E s \in SomeSession :
    /\ Count("cancel")
    /\ cancelAsked' = cancelAsked \cup Running(s)
    /\ cancelHeard' = cancelHeard \cup
          {f \in Running(s) : WillLook(f) /\ f = promptContexts[s]}
    /\ Notify("session/cancel", s, "none")
    /\ CountAnswers
    /\ UNCHANGED <<ended, lastState, closeAsked, denied>>

\* The answer to any request the agent has ever sent.
SendAnswer == \E call \in 1 .. nextAgentRequestId - 1 :
    LET F == {p[2] : p \in {q \in pendingClientCalls : q[1] = call}}
        permission == \E f \in F : WillLook(f) IN
    \E a \in IF permission THEN PermissionAnswers ELSE OtherAnswers :
        /\ Receive(Line("response", "none", call, 0, a, a # "invalid"))
        /\ denied' = IF permission /\ a = "reject" THEN denied \cup F ELSE denied
        /\ CountAnswers
        /\ UNCHANGED <<workload, done, ended, lastState, cancelAsked, cancelHeard, closeAsked>>

EndAgent == Count("end") /\ AgentClose /\ Plain

ClientStep ==
    \/ SendInitialize \/ SendNew \/ SendScenario \/ SendPrompt \/ SendReplay
    \/ SendSlow \/ SendOther \/ SendGarbage \/ SendCancelRequest \/ SendClose \/ SendCancel
    \/ SendAnswer \/ EndAgent

FlowRuns(f)   == Continue(f) /\ FlowSays(f, flows[f].session) /\ UNCHANGED <<workload, done>>
FlowWakes(f)  == Wake(f) /\ Plain /\ UNCHANGED <<workload, done>>
TimerRuns(id) == SlowDone(id) /\ Plain /\ UNCHANGED <<workload, done>>

Next ==
    \/ ClientStep
    \/ \E f \in DOMAIN flows : FlowRuns(f) \/ FlowWakes(f)
    \/ \E id \in pendingSlowCalls : TimerRuns(id)

Spec == Init /\ [][Next]_vars

\* The event loop runs every continuation and every timer; the client answers
\* every request it is sent.
FairSpec ==
    /\ Spec
    /\ \A f \in Flows : /\ WF_vars(f \in DOMAIN flows /\ FlowRuns(f))
                        /\ WF_vars(f \in DOMAIN flows /\ FlowWakes(f))
    /\ \A id \in 1 .. MaxId : WF_vars(TimerRuns(id))
    /\ WF_vars(pendingClientCalls # {} /\ SendAnswer)

-----------------------------------------------------------------------------
(* Properties.                                                              *)

\* No request is answered twice, whatever timers, cancellations, second
\* prompts, replays and late answers do at the same time.
AnsweredOnce == \A id \in DOMAIN answers : answers[id] <= 1

\* A flow waits for exactly one call of the table, and every call of the
\* table has its flow: an answer wakes the code that asked and no other.
CallsHaveOwners ==
    /\ {p[2] : p \in pendingClientCalls} =
          {f \in DOMAIN flows : flows[f].status = "asking"}
    /\ \A p, q \in pendingClientCalls : p[1] = q[1] <=> p[2] = q[2]

\* A cancel the flow can still see ends its turn as cancelled ...
CancelIsHeeded == \A f \in cancelHeard : ended[f] \notin {"end_turn", "idle_end_turn"}

\* ... and no turn ends as cancelled without a cancel of its own: neither one
\* for an earlier prompt of the session nor one for another session.
NoStrayCancel ==
    \A f \in DOMAIN flows :
        ended[f] \in {"cancelled", "idle_cancelled"} =>
            \/ f \in cancelAsked
            \/ flows[f].answer \in {"error", "cancelled"}
            \/ flows[f].scenario = "v1-permission-cancel"

\* When a replay is answered it has shown the whole conversation, with what
\* was added while it ran.
ReplayIsComplete ==
    [][\A f \in DOMAIN flows :
         (/\ flows[f].kind = "replay"
          /\ flows[f].status # "done"
          /\ flows'[f].status = "done")
             => flows'[f].count = Len(sessions'[flows[f].session].history)]_vars

\* A v1 turn whose permission was rejected asks the client for nothing more:
\* no file, no terminal, no elicitation.
RejectedAsksNothing ==
    \A f \in denied \cap DOMAIN flows : version = 1 => flows[f].status # "asking"

\* When no v2 turn of a session runs any more, the last state its client was
\* shown is idle, however turns overlapped or were cancelled; a turn that threw
\* leaves the client with what it saw last.
IdleIsTold ==
    \A s \in SessionIds :
        (/\ version = 2
         /\ lastState[s] # "none"
         /\ \A f \in DOMAIN flows :
               flows[f].kind = "prompt" /\ flows[f].session = s => flows[f].status = "done")
            => lastState[s] \in {"idle_end_turn", "idle_cancelled"}

\* Every request is answered in the end: the prompt behind any number of
\* questions, the slow call, the replay a running prompt keeps feeding; unless
\* the agent is closed or an answer of the client was invalid.
EveryRequestIsAnswered ==
    \A id \in 1 .. MaxId : id < NextId ~>
        \/ answers[id] # 0
        \/ agentClosed \/ crashed
        \/ \E f \in DOMAIN flows : flows[f].request = id /\ flows[f].status = "thrown"

\* docs/protocol/v1/session-setup.mdx:299: closing a session, "the Agent MUST
\* cancel any ongoing work for that session as if session/cancel had been
\* called".  Only turns that would have heeded a cancel are counted.
CloseCancelsWork == \A f \in closeAsked : ended[f] \notin {"end_turn", "idle_end_turn"}

=============================================================================
