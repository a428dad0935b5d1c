---------------------------- MODULE RtConnection ----------------------------
(***************************************************************************)
(* Two agent-client-protocol-rt connections facing each other over one     *)
(* byte-stream transport (agent-client-protocol-rt/src/connection.rs).     *)
(*                                                                         *)
(* Each peer owns a PeerInner (next_id, pending, outgoing) and a driver    *)
(* future that selects over a reader loop and a writer loop.  Callers of   *)
(* request() run on other threads: fetch_add, insert and send are separate *)
(* steps here, as they are there.  Handlers are spawned, so they finish in *)
(* any order and outlive the driver that spawned them.                     *)
(*                                                                         *)
(* A payload is reduced to the call (or notification) it belongs to: the   *)
(* line that answers a call carries that call, so an answer delivered to   *)
(* the wrong caller can be told from the right one.                        *)
(***************************************************************************)
EXTENDS Integers, Sequences

CONSTANTS
    Client, Agent,  \* the two peers
    Calls,          \* the request() calls that may be made
    Owner,          \* Owner[c]: the peer that makes call c
    Parent,         \* Parent[c]: the call whose handler makes c, or NoCall
    Notes,          \* the notify() calls that may be made
    NoteOwner,      \* NoteOwner[n]: the peer that sends n
    NoteParent,     \* NoteParent[n]: the call whose handler sends n, or NoCall
    NoCall,         \* made by the embedder, outside every handler
    WireCap,        \* lines the transport buffers in one direction
    MayFail,        \* peers whose read half may report an I/O error
    MayDrop,        \* peers whose embedder may drop the driver future
    MayPanic        \* peers whose handlers may panic

Peers == {Client, Agent}

Other(p) == IF p = Client THEN Agent ELSE Client

NoReply    == "no_reply"      \* the oneshot holds nothing yet
ConnClosed == "conn_closed"   \* error::connection_closed()
ParseError == "parse_error"   \* the answer to a line that is not JSON
NullId     == 0               \* RequestId::Null, never allocated by next_id

Outcomes == Calls \cup {NoReply, ConnClosed, ParseError}

ASSUME PeersAssumption == Client # Agent

ASSUME CallsAssumption ==
    /\ Owner \in [Calls -> Peers]
    /\ Parent \in [Calls -> Calls \cup {NoCall}]
    /\ NoCall \notin Calls
    /\ {NoReply, ConnClosed, ParseError} \cap Calls = {}
    /\ \A c \in Calls : Parent[c] # NoCall => Owner[c] # Owner[Parent[c]]

ASSUME NotesAssumption ==
    /\ NoteOwner \in [Notes -> Peers]
    /\ NoteParent \in [Notes -> Calls \cup {NoCall}]
    /\ \A n \in Notes : NoteParent[n] # NoCall => NoteOwner[n] # Owner[NoteParent[n]]

ASSUME WireAssumption == WireCap \in Nat \ {0}

ASSUME FaultAssumption ==
    MayFail \subseteq Peers /\ MayDrop \subseteq Peers /\ MayPanic \subseteq Peers

VARIABLES
    next_id,    \* [Peers -> Nat]: PeerInner.next_id
    pending,    \* [Peers -> set of entries]: PeerInner.pending
    outgoing,   \* [Peers -> Seq(Line)]: the unbounded channel to the writer
    wire,       \* [Peers -> Seq(Line)]: lines p wrote that Other(p) has not read
    driver,     \* [Peers -> STRING]: where the drive() future is
    pc,         \* [Calls -> STRING]: where each request() future is
    id,         \* [Calls -> Nat]: the id request() allocated
    reply,      \* [Calls -> Outcomes]: what the call's oneshot received
    tasks,      \* [Peers -> set of entries]: spawned request handlers
    runs,       \* [Calls -> Nat]: how often a handler was started for a call
    answered,   \* the calls whose handler produced a result
    note,       \* [Notes -> STRING]: where each notification is
    held        \* [Peers -> BOOLEAN]: the embedder still holds a Connection

peerVars == <<next_id, pending>>
callVars == <<pc, id, reply>>
taskVars == <<tasks, runs, answered>>
vars == <<next_id, pending, outgoing, wire, driver, pc, id, reply, tasks, runs,
          answered, note, held>>

-----------------------------------------------------------------------------
(* Lines on the wire and entries of the pending table.                     *)

Entry(i, c) == [id |-> i, call |-> c]
Entries == [id : Nat, call : Calls]

Request(i, c)   == [kind |-> "request", id |-> i, body |-> c]
Response(i, r)  == [kind |-> "response", id |-> i, body |-> r]
Notification(n) == [kind |-> "notification", id |-> NullId, body |-> n]
\* A line cut short because the writer was dropped inside write_all.
Fragment        == [kind |-> "fragment", id |-> NullId, body |-> NoReply]

Line == [kind : {"request"}, id : Nat, body : Calls]
   \cup [kind : {"response"}, id : Nat, body : Outcomes]
   \cup [kind : {"notification"}, id : {NullId}, body : Notes]
   \cup {Fragment}

Init ==
    /\ next_id  = [p \in Peers |-> 1]
    /\ pending  = [p \in Peers |-> {}]
    /\ outgoing = [p \in Peers |-> <<>>]
    /\ wire     = [p \in Peers |-> <<>>]
    /\ driver   = [p \in Peers |-> "running"]
    /\ pc       = [c \in Calls |-> "idle"]
    /\ id       = [c \in Calls |-> NullId]
    /\ reply    = [c \in Calls |-> NoReply]
    /\ tasks    = [p \in Peers |-> {}]
    /\ runs     = [c \in Calls |-> 0]
    /\ answered = {}
    /\ note     = [n \in Notes |-> "idle"]
    /\ held     = [p \in Peers |-> TRUE]

-----------------------------------------------------------------------------
(* PeerHandle::request, one action per atomic step of the future.          *)

\* outgoing_rx lives inside the driver future: the channel is open exactly as
\* long as the two loops run.
ChannelOutlivesLoops(p) == driver[p] \in {"running", "stopped", "done"}
ChannelOpen(p) == driver[p] = "running"

Handling(p, c) == \E t \in tasks[p] : t.call = c

\* Code that makes a call or sends a notification holds a Connection, its own
\* or the clone its handler keeps.
CanStart(p, parent) ==
    IF parent = NoCall THEN held[p] ELSE Handling(p, parent)

\* fetch_add(1): the counter after the id it hands out.
NextIdLost(p)  == next_id[p]                                    \* load, no add
NextIdWraps(p) == IF next_id[p] = 2 THEN -1 ELSE next_id[p] + 1 \* too narrow
NextId(p) == next_id[p] + 1

\* let id = next_id.fetch_add(1)
Allocate(c) ==
    LET p == Owner[c] IN
    /\ pc[c] = "idle"
    /\ CanStart(p, Parent[c])
    /\ id' = [id EXCEPT ![c] = next_id[p]]
    /\ next_id' = [next_id EXCEPT ![p] = NextId(p)]
    /\ pc' = [pc EXCEPT ![c] = "allocated"]
    /\ UNCHANGED <<pending, outgoing, wire, driver, reply, taskVars, note, held>>

\* lock_pending().insert(id, tx).  An entry displaced from the map drops its
\* sender, which its caller sees as a closed connection.
Register(c) ==
    LET p == Owner[c]
        displaced == {e \in pending[p] : e.id = id[c]}
    IN
    /\ pc[c] = "allocated"
    /\ pending' = [pending EXCEPT ![p] = (@ \ displaced) \cup {Entry(id[c], c)}]
    /\ reply' = [d \in Calls |->
                    IF \E e \in displaced : e.call = d THEN ConnClosed ELSE reply[d]]
    /\ pc' = [pc EXCEPT ![c] = "registered"]
    /\ UNCHANGED <<next_id, outgoing, wire, driver, id, taskVars, note, held>>

\* outgoing.send(line) accepts the line.
SendOk(c) ==
    LET p == Owner[c] IN
    /\ pc[c] = "registered"
    /\ ChannelOpen(p)
    /\ outgoing' = [outgoing EXCEPT ![p] = Append(@, Request(id[c], c))]
    /\ pc' = [pc EXCEPT ![c] = "awaiting"]
    /\ UNCHANGED <<peerVars, wire, driver, id, reply, taskVars, note, held>>

\* lock_pending().remove(&id)
ForgetNothing(p, i) == UNCHANGED pending
Forget(p, i) == pending' = [pending EXCEPT ![p] = {e \in @ : e.id # i}]

\* outgoing.send(line) fails: the entry is taken back out of the table and the
\* call returns connection_closed.
SendRefused(c) ==
    LET p == Owner[c] IN
    /\ pc[c] = "registered"
    /\ ~ChannelOpen(p)
    /\ Forget(p, id[c])
    /\ reply' = [reply EXCEPT ![c] = ConnClosed]
    /\ pc' = [pc EXCEPT ![c] = "returned"]
    /\ UNCHANGED <<next_id, outgoing, wire, driver, id, taskVars, note, held>>

\* rx.await resolves.
Return(c) ==
    /\ pc[c] = "awaiting"
    /\ reply[c] # NoReply
    /\ pc' = [pc EXCEPT ![c] = "returned"]
    /\ UNCHANGED <<peerVars, outgoing, wire, driver, id, reply, taskVars, note, held>>

\* The caller's future is dropped at its only await point (a timeout, a lost
\* select! branch).  The pending entry stays behind.
Abandon(c) ==
    /\ pc[c] = "awaiting"
    /\ pc' = [pc EXCEPT ![c] = "abandoned"]
    /\ UNCHANGED <<peerVars, outgoing, wire, driver, id, reply, taskVars, note, held>>

\* PeerHandle::notify: one send, refused once the channel is closed.
Notify(n) ==
    LET p == NoteOwner[n] IN
    /\ note[n] = "idle"
    /\ CanStart(p, NoteParent[n])
    /\ IF ChannelOpen(p)
       THEN /\ outgoing' = [outgoing EXCEPT ![p] = Append(@, Notification(n))]
            /\ note' = [note EXCEPT ![n] = "sent"]
       ELSE /\ note' = [note EXCEPT ![n] = "refused"]
            /\ UNCHANGED outgoing
    /\ UNCHANGED <<peerVars, wire, driver, callVars, taskVars, held>>

\* The embedder drops its last Connection.  The driver and the handlers keep
\* clones of the PeerHandle, so nothing else changes.
DropHandle(p) ==
    /\ held[p]
    /\ held' = [held EXCEPT ![p] = FALSE]
    /\ UNCHANGED <<peerVars, outgoing, wire, driver, callVars, taskVars, note>>

-----------------------------------------------------------------------------
(* drive(): the two loops, how they end, and drain_pending after them.     *)

\* What outgoing_rx.recv() leaves in the channel.
PeekedOnly(queue) == queue
Received(queue) == Tail(queue)

\* writer_loop moves one line to the transport; write_all waits while the
\* transport is full.
Write(p) ==
    /\ driver[p] = "running"
    /\ outgoing[p] # <<>>
    /\ driver[Other(p)] = "running"
    /\ Len(wire[p]) < WireCap
    /\ wire' = [wire EXCEPT ![p] = Append(@, Head(outgoing[p]))]
    /\ outgoing' = [outgoing EXCEPT ![p] = Received(@)]
    /\ UNCHANGED <<peerVars, driver, callVars, taskVars, note, held>>

\* complete_pending: the entry leaves the table and its oneshot is filled.
Complete(p, i, outcome) ==
    LET matching == {e \in pending[p] : e.id = i} IN
    /\ pending' = [pending EXCEPT ![p] = @ \ matching]
    /\ reply' = [c \in Calls |->
                    IF \E e \in matching : e.call = c THEN outcome ELSE reply[c]]

\* respond and respond_error ignore a closed channel.
EnqueueFirst(p, line) ==
    outgoing' = IF ChannelOpen(p)
                THEN [outgoing EXCEPT ![p] = <<line>> \o @]
                ELSE outgoing
Enqueue(p, line) ==
    outgoing' = IF ChannelOpen(p)
                THEN [outgoing EXCEPT ![p] = Append(@, line)]
                ELSE outgoing

\* reader_loop takes one line and routes it; requests and notifications are
\* spawned, so the loop never waits for a handler.
CanReadBetweenHandlers(p) ==
    driver[p] = "running" /\ wire[Other(p)] # <<>> /\ tasks[p] = {}
CanRead(p) == driver[p] = "running" /\ wire[Other(p)] # <<>>

ReadResponse(p) ==
    LET line == Head(wire[Other(p)]) IN
    /\ CanRead(p)
    /\ line.kind = "response"
    /\ Complete(p, line.id, line.body)
    /\ wire' = [wire EXCEPT ![Other(p)] = Tail(@)]
    /\ UNCHANGED <<next_id, outgoing, driver, pc, id, taskVars, note, held>>

ReadRequest(p) ==
    LET line == Head(wire[Other(p)]) IN
    /\ CanRead(p)
    /\ line.kind = "request"
    /\ tasks' = [tasks EXCEPT ![p] = @ \cup {Entry(line.id, line.body)}]
    /\ runs' = [runs EXCEPT ![line.body] = @ + 1]
    /\ wire' = [wire EXCEPT ![Other(p)] = Tail(@)]
    /\ UNCHANGED <<peerVars, outgoing, driver, callVars, answered, note, held>>

ReadNotification(p) ==
    LET line == Head(wire[Other(p)]) IN
    /\ CanRead(p)
    /\ line.kind = "notification"
    /\ note' = [note EXCEPT ![line.body] = "handling"]
    /\ wire' = [wire EXCEPT ![Other(p)] = Tail(@)]
    /\ UNCHANGED <<peerVars, outgoing, driver, callVars, taskVars, held>>

\* A torn line is answered with a parse error under the null id.
ReadFragment(p) ==
    LET line == Head(wire[Other(p)]) IN
    /\ CanRead(p)
    /\ line.kind = "fragment"
    /\ Enqueue(p, Response(NullId, ParseError))
    /\ wire' = [wire EXCEPT ![Other(p)] = Tail(@)]
    /\ UNCHANGED <<peerVars, driver, callVars, taskVars, note, held>>

\* Both loops are dropped: queued lines are lost, both halves of the transport
\* close, and a line being written may be cut short.
Hangup(p, status) ==
    /\ driver' = [driver EXCEPT ![p] = status]
    /\ outgoing' = [outgoing EXCEPT ![p] = <<>>]
    /\ \/ wire' = [wire EXCEPT ![Other(p)] = <<>>]
       \/ /\ outgoing[p] # <<>>
          /\ driver[Other(p)] = "running"
          /\ Len(wire[p]) < WireCap
          /\ wire' = [wire EXCEPT ![Other(p)] = <<>>, ![p] = Append(@, Fragment)]

\* An EOF that waits for the spawned handlers.
ReadEofAfterHandlers(p) ==
    /\ driver[p] = "running"
    /\ wire[Other(p)] = <<>>
    /\ driver[Other(p)] # "running"
    /\ tasks[p] = {}
    /\ Hangup(p, "stopped")
    /\ UNCHANGED <<peerVars, callVars, taskVars, note, held>>

\* next_line returns None: the peer is gone and its lines are all read.
ReadEof(p) ==
    /\ driver[p] = "running"
    /\ wire[Other(p)] = <<>>
    /\ driver[Other(p)] # "running"
    /\ Hangup(p, "stopped")
    /\ UNCHANGED <<peerVars, callVars, taskVars, note, held>>

\* write_all reports a broken pipe, even while lines are left to read.
WriteError(p) ==
    /\ driver[p] = "running"
    /\ outgoing[p] # <<>>
    /\ driver[Other(p)] # "running"
    /\ Hangup(p, "stopped")
    /\ UNCHANGED <<peerVars, callVars, taskVars, note, held>>

\* next_line reports an I/O error of the transport.
ReadError(p) ==
    /\ p \in MayFail
    /\ driver[p] = "running"
    /\ Hangup(p, "stopped")
    /\ UNCHANGED <<peerVars, callVars, taskVars, note, held>>

\* A driver that returns without draining.
DrainForgotten(p) ==
    /\ driver[p] = "stopped"
    /\ driver' = [driver EXCEPT ![p] = "done"]
    /\ UNCHANGED <<peerVars, outgoing, wire, callVars, taskVars, note, held>>

\* shutdown_peer.drain_pending(), then the driver future returns.
Drain(p) ==
    /\ driver[p] = "stopped"
    /\ reply' = [c \in Calls |->
                    IF \E e \in pending[p] : e.call = c THEN ConnClosed ELSE reply[c]]
    /\ pending' = [pending EXCEPT ![p] = {}]
    /\ driver' = [driver EXCEPT ![p] = "done"]
    /\ UNCHANGED <<next_id, outgoing, wire, pc, id, taskVars, note, held>>

\* The embedder drops (or aborts) the driver future inside select!: the loops
\* go, and the code after them never runs.
DropDriver(p) ==
    /\ p \in MayDrop
    /\ driver[p] = "running"
    /\ Hangup(p, "dropped")
    /\ UNCHANGED <<peerVars, callVars, taskVars, note, held>>

-----------------------------------------------------------------------------
(* The spawned handlers.                                                   *)

\* A handler that awaits calls of its own ends after they do.
ChildrenEnded(c) ==
    \A d \in Calls : Parent[d] = c => pc[d] \in {"idle", "returned", "abandoned"}

\* handle_request returns and peer.respond queues the answer.
Finish(p) ==
    \E t \in tasks[p] :
        /\ ChildrenEnded(t.call)
        /\ tasks' = [tasks EXCEPT ![p] = @ \ {t}]
        /\ answered' = answered \cup {t.call}
        /\ Enqueue(p, Response(t.id, t.call))
        /\ UNCHANGED <<peerVars, wire, driver, callVars, runs, note, held>>

\* A panic that is answered although the handler has no result.
PanicAnswered(p) ==
    \E t \in tasks[p] :
        /\ p \in MayPanic
        /\ ChildrenEnded(t.call)
        /\ tasks' = [tasks EXCEPT ![p] = @ \ {t}]
        /\ Enqueue(p, Response(t.id, t.call))
        /\ UNCHANGED <<peerVars, wire, driver, callVars, runs, answered, note, held>>

\* handle_request panics: its task ends and nothing is sent.
Panic(p) ==
    \E t \in tasks[p] :
        /\ p \in MayPanic
        /\ ChildrenEnded(t.call)
        /\ tasks' = [tasks EXCEPT ![p] = @ \ {t}]
        /\ UNCHANGED <<peerVars, outgoing, wire, driver, callVars, runs, answered,
                       note, held>>

\* handle_notification returns.
NoteHandled(n) ==
    /\ note[n] = "handling"
    /\ note' = [note EXCEPT ![n] = "handled"]
    /\ UNCHANGED <<peerVars, outgoing, wire, driver, callVars, taskVars, held>>

CallStep(c) ==
    Allocate(c) \/ Register(c) \/ SendOk(c) \/ SendRefused(c) \/ Return(c) \/ Abandon(c)

DriverStep(p) ==
    \/ Write(p)
    \/ ReadResponse(p) \/ ReadRequest(p) \/ ReadNotification(p) \/ ReadFragment(p)
    \/ ReadEof(p) \/ ReadError(p) \/ WriteError(p)
    \/ Drain(p) \/ DropDriver(p)

Next ==
    \/ \E c \in Calls : CallStep(c)
    \/ \E p \in Peers : DriverStep(p) \/ Finish(p) \/ Panic(p) \/ DropHandle(p)
    \/ \E n \in Notes : Notify(n) \/ NoteHandled(n)

Spec == Init /\ [][Next]_vars

\* What the tokio runtime guarantees: a woken task is eventually polled.  The
\* embedder's own choices (starting or abandoning a call, dropping a handle or
\* a driver) and transport errors carry no fairness.
CallFairness(c) == WF_vars(Register(c)) /\ WF_vars(SendOk(c))
                   /\ WF_vars(SendRefused(c)) /\ WF_vars(Return(c))

DriverFairness(p) ==
    /\ WF_vars(Write(p))
    /\ WF_vars(ReadResponse(p) \/ ReadRequest(p) \/ ReadNotification(p) \/ ReadFragment(p))
    /\ WF_vars(ReadEof(p))
    /\ WF_vars(WriteError(p))
    /\ WF_vars(Drain(p))

FairSpec == /\ Spec
            /\ \A c \in Calls : CallFairness(c)
            /\ \A p \in Peers : DriverFairness(p)

\* Also every handler returns once the calls it awaits have ended.
HandlersReturn == \A p \in Peers : WF_vars(Finish(p))
ResponsiveSpec == FairSpec /\ HandlersReturn

-----------------------------------------------------------------------------
(* Properties.                                                             *)

\* The shape of every variable.
TypeOK ==
    /\ next_id \in [Peers -> Nat]
    /\ pending \in [Peers -> SUBSET Entries]
    /\ outgoing \in [Peers -> Seq(Line)]
    /\ wire \in [Peers -> Seq(Line)]
    /\ driver \in [Peers -> {"running", "stopped", "done", "dropped"}]
    /\ pc \in [Calls -> {"idle", "allocated", "registered", "awaiting",
                         "returned", "abandoned"}]
    /\ id \in [Calls -> Nat]
    /\ reply \in [Calls -> Outcomes]
    /\ tasks \in [Peers -> SUBSET Entries]
    /\ runs \in [Calls -> Nat]
    /\ answered \in SUBSET Calls
    /\ note \in [Notes -> {"idle", "sent", "refused", "handling", "handled"}]
    /\ held \in [Peers -> BOOLEAN]

\* Correlation by id never hands a caller the answer to somebody else's call,
\* whatever order handlers finish in and whichever peer's ids coincide.
OwnAnswer == \A c \in Calls : reply[c] \in {NoReply, ConnClosed, c}

\* A call is executed at most once by the other peer: no step of request(), of
\* the transport or of a shutdown makes a request line appear twice.
SingleExecution == \A c \in Calls : runs[c] <= 1

\* Once the driver has returned, no caller is left waiting: the insert of a
\* request whose send was accepted always precedes drain_pending.
NoStrandedCaller ==
    \A c \in Calls : driver[Owner[c]] = "done" /\ pc[c] = "awaiting" =>
        reply[c] # NoReply

\* Once the driver has returned, the pending table keeps no entry but those of
\* calls that are about to find the channel closed and take theirs out.
NoPendingLeak ==
    \A p \in Peers : driver[p] = "done" =>
        \A e \in pending[p] : pc[e.call] = "registered"

\* The answer of a call does not overtake a notification its handler sent
\* before it: when the answer is delivered, the notification has been handed
\* to its own handler (not that this handler has returned).
UpdatesPrecedeAnswer ==
    \A n \in Notes : \A c \in Calls :
        NoteParent[n] = c /\ reply[c] = c => note[n] # "sent"

\* When one driver ends, for whatever reason, the other one notices.
ShutdownPropagates ==
    \A p \in Peers : driver[p] # "running" ~> driver[Other(p)] # "running"

\* After either side is gone, a waiting caller is woken, unless its own driver
\* may be dropped, even when handlers never return or panic.
ShutdownWakesCallers ==
    \A c \in Calls : Owner[c] \notin MayDrop =>
        ((\E p \in Peers : driver[p] # "running") /\ pc[c] = "awaiting")
            ~> pc[c] # "awaiting"

\* The handler of c has panicked.
Panicked(c) == runs[c] > 0 /\ c \notin answered /\ ~Handling(Other(Owner[c]), c)

\* With handlers that return, none of them in a panic, and drivers that are not
\* dropped, every call ends: two peers whose handlers call each other over a
\* full transport do not wait on one another for ever.
CallsEnd ==
    /\ HandlersReturn
    /\ []((\A p \in Peers : driver[p] # "dropped") /\ \A c \in Calls : ~Panicked(c))
    =>
        \A c \in Calls : pc[c] = "allocated" ~> pc[c] \in {"returned", "abandoned"}

\* connection.rs:99-101: a request fails with connection-closed if the
\* transport shuts down before a response is received.
TransportLossFailsCalls ==
    \A c \in Calls : driver[Owner[c]] # "running" /\ pc[c] = "awaiting" ~> pc[c] # "awaiting"

-----------------------------------------------------------------------------
(* The connection pair implements the at-most-once calls of RtRpc.         *)

Phase(c) == CASE pc[c] = "idle" -> "idle"
              [] pc[c] \in {"allocated", "registered", "awaiting"} -> "open"
              [] OTHER -> pc[c]

Rpc == INSTANCE RtRpc WITH
    phase    <- [c \in Calls |-> Phase(c)],
    finished <- answered,
    outcome  <- reply,
    closed   <- {p \in Peers : driver[p] # "running"}

\* Ids, queues, torn lines, spawned handlers and two drivers that end in any
\* order keep the promise that RtRpc makes to the caller of request().
ImplementsRpc == Rpc!Spec

=============================================================================
