------------------------------- MODULE RtRpc --------------------------------
(***************************************************************************)
(* What agent-client-protocol-rt promises the caller of request(), with no *)
(* ids, queues, wires or loops (connection.rs:15-19 and :92-104): the call *)
(* runs at most once on the other side; its caller receives the result of  *)
(* that very execution, or connection_closed, which is only given once its *)
(* own connection has closed; and whichever it is never changes.           *)
(***************************************************************************)
EXTENDS Naturals

CONSTANTS Peers, Calls, Owner, NoReply, ConnClosed

VARIABLES
    phase,      \* [Calls -> {"idle", "open", "returned", "abandoned"}]
    runs,       \* [Calls -> Nat]: executions of the call's handler
    finished,   \* calls whose handler produced a result
    outcome,    \* [Calls -> Calls \cup {NoReply, ConnClosed}]
    closed      \* peers whose connection has closed

vars == <<phase, runs, finished, outcome, closed>>

Init ==
    /\ phase = [c \in Calls |-> "idle"]
    /\ runs = [c \in Calls |-> 0]
    /\ finished = {}
    /\ outcome = [c \in Calls |-> NoReply]
    /\ closed = {}

Call(c) ==
    /\ phase[c] = "idle"
    /\ phase' = [phase EXCEPT ![c] = "open"]
    /\ UNCHANGED <<runs, finished, outcome, closed>>

Start(c) ==
    /\ phase[c] # "idle"
    /\ runs[c] = 0
    /\ runs' = [runs EXCEPT ![c] = 1]
    /\ UNCHANGED <<phase, finished, outcome, closed>>

Finish(c) ==
    /\ runs[c] = 1 /\ c \notin finished
    /\ finished' = finished \cup {c}
    /\ UNCHANGED <<phase, runs, outcome, closed>>

\* The result of the call's own execution reaches its caller.
Answer(c) ==
    /\ phase[c] # "idle"
    /\ c \in finished
    /\ outcome[c] = NoReply
    /\ outcome' = [outcome EXCEPT ![c] = c]
    /\ UNCHANGED <<phase, runs, finished, closed>>

Close(p) ==
    /\ p \notin closed
    /\ closed' = closed \cup {p}
    /\ UNCHANGED <<phase, runs, finished, outcome>>

\* A closed connection fails some of the calls that have no outcome yet.
Fail(p, failing) ==
    /\ p \in closed
    /\ \A c \in failing : Owner[c] = p /\ phase[c] # "idle" /\ outcome[c] = NoReply
    /\ outcome' = [c \in Calls |-> IF c \in failing THEN ConnClosed ELSE outcome[c]]
    /\ UNCHANGED <<phase, runs, finished, closed>>

\* A call that finds its connection closed returns at once.
Refuse(c) ==
    /\ phase[c] = "open"
    /\ Owner[c] \in closed
    /\ outcome[c] \in {NoReply, ConnClosed}
    /\ outcome' = [outcome EXCEPT ![c] = ConnClosed]
    /\ phase' = [phase EXCEPT ![c] = "returned"]
    /\ UNCHANGED <<runs, finished, closed>>

Return(c) ==
    /\ phase[c] = "open"
    /\ outcome[c] # NoReply
    /\ phase' = [phase EXCEPT ![c] = "returned"]
    /\ UNCHANGED <<runs, finished, outcome, closed>>

Abandon(c) ==
    /\ phase[c] = "open"
    /\ phase' = [phase EXCEPT ![c] = "abandoned"]
    /\ UNCHANGED <<runs, finished, outcome, closed>>

Next ==
    \/ \E c \in Calls : \/ Call(c) \/ Start(c) \/ Finish(c) \/ Answer(c)
                        \/ Refuse(c) \/ Return(c) \/ Abandon(c)
    \/ \E p \in Peers : Close(p) \/ \E failing \in SUBSET Calls : Fail(p, failing)

Spec == Init /\ [][Next]_vars

=============================================================================
