------------------------- MODULE HarnessConnection -------------------------
(***************************************************************************)
(* The conformance harness's end of the connection (driver.ts, class        *)
(* HarnessConnection) against a target that may write any line at any time, *)
(* write too many answers or none, take a line late or never, and die.  (A  *)
(* line of JSON that is no object ends the harness: see HarnessProcess.)    *)
(*                                                                          *)
(* A test case calls request, expectRequest and the like; each returns a    *)
(* promise.  Lines of the target, timers, failures of the transport and     *)
(* close settle the promises.  One callback of the event loop is one step.   *)
(*                                                                          *)
(* The expectations of events and of unmatched responses keep a queue and a *)
(* list of waiters each, handled alike: they are the two "boxes".  What a   *)
(* predicate can tell of an event is its kind (request or notification, and *)
(* its method); of a response, its id.  Contents and transcript are left    *)
(* out.                                                                     *)
(***************************************************************************)
EXTENDS Integers, Sequences, SequencesExt, FiniteSets

CONSTANTS
    EventKinds,               \* kinds of requests and notifications
    Predicates,               \* box |-> the predicates used, as sets of kinds
    MaxRequests,              \* bound: request calls
    MaxCalls,                 \* bound: expect calls
    MaxReceived               \* bound: valid lines of the target

Boxes       == {"events", "responses"}
NullId      == 0              \* the key of a response whose id is null
Ids         == 1 .. MaxRequests
ResponseIds == Ids \cup {NullId}
KindsOf     == [events |-> EventKinds, responses |-> ResponseIds]

ASSUME BoundsAssumption ==
    MaxRequests \in Nat /\ MaxCalls \in Nat /\ MaxReceived \in Nat
ASSUME PredicatesAssumption ==
    \A b \in Boxes : Predicates[b] \subseteq SUBSET KindsOf[b]

VARIABLES
    nextId,                   \* nextId
    pendingResponses,         \* ids in the table; each has a running timer
    write,                    \* id |-> what became of its transport.sendLine
    response,                 \* id |-> the promise of its response
    answeredBy,               \* id |-> the line that settled it, or 0
    queued,                   \* box |-> queuedEvents, queuedUnmatchedResponses
    waiters,                  \* box |-> waiters, responseWaiters
    calls,                    \* the expect calls made, in order: [box, accepts,
                              \* state (waiting, resolved, rejected), got]
    received,                 \* valid lines handled
    closed,                   \* closed
    fatalError                \* fatalError is set

requestVars == <<nextId, pendingResponses, write, response, answeredBy>>
expectVars  == <<queued, waiters, calls>>
vars == <<requestVars, expectVars, received, closed, fatalError>>

NoItem == [n |-> 0]       \* calls[c].got of a call that got nothing

Init ==
    /\ nextId = 1
    /\ pendingResponses = {}
    /\ write = [i \in Ids |-> "none"]
    /\ response = [i \in Ids |-> "none"]
    /\ answeredBy = [i \in Ids |-> 0]
    /\ queued = [b \in Boxes |-> <<>>]
    /\ waiters = [b \in Boxes |-> <<>>]
    /\ calls = <<>>
    /\ received = 0
    /\ closed = FALSE
    /\ fatalError = FALSE

-----------------------------------------------------------------------------
(* Requests.                                                                *)

\* The entry leaves the table, and its timer with it.
Settle(id, how) ==
    /\ pendingResponses' = pendingResponses \ {id}
    /\ response' = [response EXCEPT ![id] = how]

\* The timer is set and the entry made before sendLine is awaited.
Request ==
    /\ ~fatalError
    /\ nextId <= MaxRequests
    /\ nextId' = nextId + 1
    /\ pendingResponses' = pendingResponses \cup {nextId}
    /\ response' = [response EXCEPT ![nextId] = "waiting"]
    /\ write' = [write EXCEPT ![nextId] = "busy"]
    /\ UNCHANGED <<answeredBy, expectVars, received, closed, fatalError>>

SendReturns(id) ==
    /\ write[id] = "busy"
    /\ write' = [write EXCEPT ![id] = "done"]
    /\ UNCHANGED <<nextId, pendingResponses, response, answeredBy,
                   expectVars, received, closed, fatalError>>

\* The failure rejects the response, unless that is settled already.
SendFails(id) ==
    /\ write[id] = "busy"
    /\ write' = [write EXCEPT ![id] = "failed"]
    /\ IF id \in pendingResponses
       THEN Settle(id, "rejected")
       ELSE UNCHANGED <<pendingResponses, response>>
    /\ UNCHANGED <<nextId, answeredBy, expectVars, received, closed, fatalError>>

\* mutant: the timer is cleared when sendLine returns
TimeoutOfWrite(id) ==
    /\ id \in pendingResponses
    /\ write[id] = "busy"
    /\ Settle(id, "rejected")
    /\ UNCHANGED <<nextId, write, answeredBy, expectVars, received, closed,
                   fatalError>>

RequestTimeout(id) ==
    /\ id \in pendingResponses
    /\ Settle(id, "rejected")
    /\ UNCHANGED <<nextId, write, answeredBy, expectVars, received, closed,
                   fatalError>>

-----------------------------------------------------------------------------
(* Expectations.                                                            *)

\* mutant: findLastIndex
LastItem(b, accepts) == SelectLastInSeq(queued[b], LAMBDA m : m.kind \in accepts)

\* queued...findIndex(predicate) and waiters.findIndex(w => w.predicate(m)).
FirstItem(b, accepts) == SelectInSeq(queued[b], LAMBDA m : m.kind \in accepts)
FirstWaiter(b, kind)  ==
    SelectInSeq(waiters[b], LAMBDA c : kind \in calls[c].accepts)

NewCall(b, accepts, state, item) ==
    calls' = Append(calls, [box |-> b, accepts |-> accepts,
                            state |-> state, got |-> item])

Expect(b, accepts) ==
    LET i == FirstItem(b, accepts) IN
    /\ ~fatalError
    /\ Len(calls) < MaxCalls
    /\ IF i # 0
       THEN /\ NewCall(b, accepts, "resolved", queued[b][i])
            /\ queued' = [queued EXCEPT ![b] = RemoveAt(@, i)]
            /\ UNCHANGED waiters
       ELSE /\ NewCall(b, accepts, "waiting", NoItem)
            /\ waiters' = [waiters EXCEPT ![b] = Append(@, Len(calls) + 1)]
            /\ UNCHANGED queued
    /\ UNCHANGED <<requestVars, received, closed, fatalError>>

ExpectTimeout(c) ==
    /\ calls[c].state = "waiting"
    /\ calls' = [calls EXCEPT ![c].state = "rejected"]
    /\ waiters' = [waiters EXCEPT ![calls[c].box] = RemoveFirst(@, c)]
    /\ UNCHANGED <<requestVars, queued, received, closed, fatalError>>

-----------------------------------------------------------------------------
(* Lines of the target.                                                     *)

\* mutant: the queue is a stack
DeliverToFront(b, kind) ==
    LET i == FirstWaiter(b, kind)
        c == waiters[b][i]
        m == [n |-> received + 1, kind |-> kind]
    IN  IF i # 0
        THEN /\ waiters' = [waiters EXCEPT ![b] = RemoveAt(@, i)]
             /\ calls' = [calls EXCEPT ![c].state = "resolved",
                                       ![c].got = m]
             /\ UNCHANGED queued
        ELSE /\ queued' = [queued EXCEPT ![b] = <<m>> \o @]
             /\ UNCHANGED <<waiters, calls>>

Deliver(b, kind) ==
    LET i == FirstWaiter(b, kind)
        c == waiters[b][i]
        m == [n |-> received + 1, kind |-> kind]
    IN  IF i # 0
        THEN /\ waiters' = [waiters EXCEPT ![b] = RemoveAt(@, i)]
             /\ calls' = [calls EXCEPT ![c].state = "resolved",
                                       ![c].got = m]
             /\ UNCHANGED queued
        ELSE /\ queued' = [queued EXCEPT ![b] = Append(@, m)]
             /\ UNCHANGED <<waiters, calls>>

\* Every request, every expectation is rejected; later calls throw.
RejectAll ==
    /\ pendingResponses' = {}
    /\ response' = [i \in Ids |-> IF i \in pendingResponses THEN "rejected"
                                  ELSE response[i]]
    /\ waiters' = [b \in Boxes |-> <<>>]
    /\ calls' = [c \in DOMAIN calls |->
                    IF calls[c].state = "waiting"
                    THEN [calls[c] EXCEPT !.state = "rejected"] ELSE calls[c]]
    /\ UNCHANGED <<nextId, write, answeredBy, queued, received>>

\* mutant: expectations are left to their timers
FailRequests ==
    /\ fatalError' = TRUE
    /\ pendingResponses' = {}
    /\ response' = [i \in Ids |-> IF i \in pendingResponses THEN "rejected"
                                  ELSE response[i]]
    /\ UNCHANGED <<nextId, write, answeredBy, expectVars, received, closed>>

FailAll == fatalError' = TRUE /\ RejectAll /\ UNCHANGED closed

\* A request or a notification that passes the schema.
EventLine(kind) ==
    /\ received < MaxReceived
    /\ received' = received + 1
    /\ Deliver("events", kind)
    /\ UNCHANGED <<requestVars, closed, fatalError>>

\* mutant: an answer nobody waits for is dropped
ResponseOrNothing(id, valid) ==
    /\ received < MaxReceived
    /\ received' = received + 1
    /\ IF id \in pendingResponses
       THEN /\ Settle(id, IF valid THEN "resolved" ELSE "rejected")
            /\ answeredBy' = [answeredBy EXCEPT ![id] = received + 1]
            /\ UNCHANGED <<nextId, write, expectVars>>
       ELSE UNCHANGED <<requestVars, expectVars>>
    /\ UNCHANGED <<closed, fatalError>>

\* A response; only one whose id is pending is checked against the schema,
\* and one that fails the check rejects its request alone.
ResponseLine(id, valid) ==
    /\ received < MaxReceived
    /\ received' = received + 1
    /\ IF id \in pendingResponses
       THEN /\ Settle(id, IF valid THEN "resolved" ELSE "rejected")
            /\ answeredBy' = [answeredBy EXCEPT ![id] = received + 1]
            /\ UNCHANGED <<nextId, write, expectVars>>
       ELSE Deliver("responses", id) /\ UNCHANGED requestVars
    /\ UNCHANGED <<closed, fatalError>>

\* A line that is not JSON, or a method message that fails the schema.
BadLine == FailAll

\* The process cannot be started, or exits with a nonzero code.  An exit with
\* code 0 or by a signal says nothing to the connection.
TargetFails == FailAll

\* close() leaves fatalError alone: later calls do not throw.
Close ==
    /\ ~closed
    /\ closed' = TRUE
    /\ RejectAll
    /\ UNCHANGED fatalError

-----------------------------------------------------------------------------
Line ==
    \/ \E k \in EventKinds : EventLine(k)
    \/ \E id \in ResponseIds, valid \in BOOLEAN : ResponseLine(id, valid)
    \/ BadLine

Next ==
    \/ Request
    \/ \E id \in Ids : SendReturns(id) \/ SendFails(id) \/ RequestTimeout(id)
    \/ \E b \in Boxes : \E accepts \in Predicates[b] : Expect(b, accepts)
    \/ \E c \in DOMAIN calls : ExpectTimeout(c)
    \/ Line
    \/ TargetFails
    \/ Close

Spec == Init /\ [][Next]_vars

-----------------------------------------------------------------------------
(* Properties.                                                              *)

Waiting(b) == {c \in DOMAIN calls : calls[c].box = b /\ calls[c].state = "waiting"}

\* A promise that has not settled can still be settled by someone: a request
\* through the table of pending responses, an expectation through the list of
\* its waiters, where it stands once; and after a fatal error nobody waits,
\* whatever was called between the failure's cause and its callback.
NobodyIsForgotten ==
    /\ pendingResponses = {id \in Ids : response[id] = "waiting"}
    /\ \A b \in Boxes : /\ ToSet(waiters[b]) = Waiting(b)
                        /\ \A i, j \in DOMAIN waiters[b] :
                              i < j => waiters[b][i] < waiters[b][j]
    /\ fatalError => pendingResponses = {} /\ \A b \in Boxes : waiters[b] = <<>>

\* Every valid line is in exactly one place: it answered one request, was
\* taken by one expectation, or lies in one queue.  A duplicated or late
\* answer thus never reaches a second request, and is never dropped.
EachLineOnce ==
    LET answers == {id \in Ids : answeredBy[id] # 0}
        takers  == {c \in DOMAIN calls : calls[c].got # NoItem}
        lying   == UNION {{<<b, i>> : i \in DOMAIN queued[b]} : b \in Boxes}
        line(x) == queued[x[1]][x[2]].n
    IN  /\ {answeredBy[id] : id \in answers} \cup {calls[c].got.n : c \in takers}
                \cup {line(x) : x \in lying} = 1 .. received
        /\ Cardinality(answers) + Cardinality(takers) + Cardinality(lying)
                = received

UnreadIn(b)  == ToSet(queued[b])
Reader(c)    == [n |-> c, accepts |-> calls[c].accepts]
ReadersOf(b) == {Reader(c) : c \in ToSet(waiters[b])}
TakenFrom(b) == {<<Reader(c), calls[c].got>> :
                    c \in {d \in DOMAIN calls : calls[d].box = b /\ calls[d].got # NoItem}}

Events == INSTANCE Mailbox WITH
    Kinds <- EventKinds, Numbers <- 1 .. MaxReceived + MaxCalls, unread <- UnreadIn("events"),
    readers <- ReadersOf("events"), taken <- TakenFrom("events")
Responses == INSTANCE Mailbox WITH
    Kinds <- ResponseIds, Numbers <- 1 .. MaxReceived + MaxCalls, unread <- UnreadIn("responses"),
    readers <- ReadersOf("responses"), taken <- TakenFrom("responses")

\* Each box is a mailbox: whatever the timers remove from the arrays meanwhile,
\* they hand the oldest wanted message to the longest waiting reader, so that
\* no test case times out on a message that has arrived.
ExpectationsAreMail == Events!Spec /\ Responses!Spec

=============================================================================
